---------------------------- MODULE MCCaffeinate -----------------------------
(***************************************************************************)
(* Instances of Caffeinate for TLC.                                        *)
(***************************************************************************)
EXTENDS Caffeinate

\* Linux with systemd-inhibit, without and with failures, and Linux without
\* it, where only the screen saver can be asked.
WorldsChecked ==
    {[command |-> TRUE, dbus |-> TRUE, fails |-> FALSE],
     [command |-> TRUE, dbus |-> TRUE, fails |-> TRUE],
     [command |-> FALSE, dbus |-> TRUE, fails |-> FALSE]}
=============================================================================

--------------------------- MODULE MCChromeBrowser ---------------------------
(***************************************************************************)
(* The instance of ChromeBrowser for TLC.                                  *)
(***************************************************************************)
EXTENDS ChromeBrowser, FiniteSets

\* The endpoint is pinned; a browser of its own under a port it picks; no launches.
Pinned == [port |-> 2, fixed |-> TRUE, ext |-> FALSE, auto |-> TRUE]
Extended == [port |-> 1, fixed |-> FALSE, ext |-> TRUE, auto |-> TRUE]
Manual == [port |-> 1, fixed |-> FALSE, ext |-> FALSE, auto |-> FALSE]

SettingsChecked == {Extended, Pinned, Manual}

\* A bound: under a pinned port a browser is cleaned up before the next is there.
WithinBounds ==
    scope'.cfg.fixed => Cardinality({b \in Browsers : browser'[b] # Blank}) <= 1
=============================================================================

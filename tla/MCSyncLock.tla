----------------------------- MODULE MCSyncLock -----------------------------
(***************************************************************************)
(* Instances of SyncLock for TLC: the calls of two processes, and the      *)
(* user's in a third one.                                                  *)
(***************************************************************************)
EXTENDS SyncLock, TLC

CONSTANTS c1, c2, u, p1, p2, p3

ProcessOf == (c1 :> p1) @@ (c2 :> p2) @@ (u :> p3)

\* Processes that die at any step but refresh their guards in time, and
\* processes that do not, while nobody dies and nobody says --stale.
WorldsChecked ==
    {[modes |-> Modes, mortal |-> {p1, p2}, stalls |-> FALSE],
     [modes |-> Modes \ {"unlockStale"}, mortal |-> {}, stalls |-> TRUE]}
=============================================================================

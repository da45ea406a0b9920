--------------------------- MODULE ChildContract ---------------------------
(***************************************************************************)
(* What the job runtime relies on when it calls runChild: the child may    *)
(* become controllable once, accepts steering messages only while it is,   *)
(* and the promise resolves with one outcome, always after an abort.       *)
(* SubagentRuntime is written against this contract (ChildReady,           *)
(* SteerAccepted, ChildEnds, StoppedChildEnds), SubagentProcess meets it.  *)
(*                                                                         *)
(* Source: the use of runChild and ChildControl in                         *)
(* packages/pi-subagents/src/runtime.ts.                                   *)
(***************************************************************************)
CONSTANT Steers     \* calls of ChildControl.send

VARIABLES
    aborted,    \* the job's signal
    control,    \* onControl was called
    outcome,    \* the state the promise resolved with
    steered     \* the calls of ChildControl.send that were accepted

contractVars == <<aborted, control, outcome, steered>>

Outcomes == {"completed", "partial", "failed", "cancelled", "timed_out"}

Pending == outcome = "none"

ContractInit ==
    /\ aborted = FALSE
    /\ control = FALSE
    /\ outcome = "none"
    /\ steered = {}

AbortSignal == aborted' = TRUE /\ UNCHANGED <<control, outcome, steered>>

OnControl ==
    /\ Pending /\ ~aborted /\ ~control
    /\ control' = TRUE
    /\ UNCHANGED <<aborted, outcome, steered>>

AcceptSteer(s) ==
    /\ Pending /\ control
    /\ s \notin steered
    /\ steered' = steered \cup {s}
    /\ UNCHANGED <<aborted, control, outcome>>

\* A cancellation is reported exactly when the signal was aborted.
Resolve(o) ==
    /\ Pending
    /\ o = "cancelled" <=> aborted
    /\ outcome' = o
    /\ UNCHANGED <<aborted, control, steered>>

ContractNext ==
    \/ AbortSignal \/ OnControl
    \/ \E s \in Steers : AcceptSteer(s)
    \/ \E o \in Outcomes : Resolve(o)

ContractSpec == ContractInit /\ [][ContractNext]_contractVars

AbortResolves == aborted ~> ~Pending
=============================================================================

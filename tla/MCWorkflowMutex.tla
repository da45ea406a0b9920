--------------------------- MODULE MCWorkflowMutex ---------------------------
(***************************************************************************)
(* Instances of WorkflowMutex for TLC.  Emissions are nested at most two   *)
(* deep: the second one is enough for a listener that calls acquire.       *)
(***************************************************************************)
EXTENDS WorkflowMutex, TLC

CONSTANTS goal, plan, s1, s2

Symmetry == Permutations(Participants) \cup Permutations(Sessions)

\* Listeners that only answer, those that do all but acquire, and those that
\* acquire as well.
ConductsChecked ==
    {{}, ListenerActs \ {"acquire"}, {"bind", "unbind", "release", "acquire"}}
=============================================================================

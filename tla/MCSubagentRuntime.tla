------------------------- MODULE MCSubagentRuntime -------------------------
(***************************************************************************)
(* The instance of SubagentRuntime for TLC: two jobs, three sends, a       *)
(* connection, a main wait and two sessions, but not all at once.          *)
(***************************************************************************)
EXTENDS SubagentRuntime

CONSTANTS j1, j2

\* The generations that the session operation under way goes on to begin.
Ahead ==
    CASE lifecycle = "reopening" -> 2
      [] lifecycle \in {"closing", "beginning"} -> 1
      [] OTHER -> 0

OneJob == job[j2].state = "new" /\ generation + Ahead <= 2

Quiet == listeners = {} /\ \A c \in Conns : conn[c].st = "closed"

\* Two jobs in one session.
ManyJobs == generation + Ahead <= 2 /\ nextId = 1 /\ Quiet

\* Two sessions and a send, the second job in the second session.
ManySessions ==
    (job[j2].state = "new" \/ job[j2].generation > 2) /\ nextId <= 2 /\ Quiet

\* Three sends to one job.
ManySends == OneJob /\ Quiet

\* A send, a connection of the child and a main wait.
Conversation == OneJob /\ nextId <= 2

\* The bounds; the steps that fairness is about never leave them.
WithinBounds == (ManyJobs \/ ManySessions \/ ManySends \/ Conversation)'
=============================================================================

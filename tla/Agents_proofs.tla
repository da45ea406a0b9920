--------------------------- MODULE Agents_proofs ----------------------------
(***************************************************************************)
(* Proofs about the processes of agents: about SubagentProcess, the child  *)
(* of pi-subagents, for both platforms, with and without a timeout, and    *)
(* any number of steering commands; and about FleetDelivery, the endpoint  *)
(* of a session of pi-fleet, for any messages and bounds.                  *)
(***************************************************************************)
EXTENDS SubagentProcess, FleetDelivery, TLAPS

LEMMA InitInv == Init => IInv
  <1> SUFFICES ASSUME Init PROVE IInv
    OBVIOUS
  <1>1. TypeOK
    BY DEF Init, TypeOK, FlagsTyped, Turn, Command
  <1>2. EndsInOrder
    BY DEF Init, EndsInOrder
  <1>3. CommandsFollowPrompt
    BY DEF Init, CommandsFollowPrompt
  <1>4. EndsAreSeen /\ OneCause
    BY DEF Init, EndsAreSeen, OneCause
  <1>5. SettledLeavesNothing /\ AbandonedOnlyIfKilled /\ CompletionFollowsPrompt
    BY DEF Init, SettledLeavesNothing, AbandonedOnlyIfKilled, CompletionFollowsPrompt
  <1> QED BY <1>1, <1>2, <1>3, <1>4, <1>5 DEF IInv

(***************************************************************************)
(* What the pieces of the handlers do.                                     *)
(***************************************************************************)
LEMMA TerminateEffect ==
  ASSUME TypeOK, ProcessAssumption, Terminate
  PROVE  /\ terminating' \in BOOLEAN
         /\ timers' \subseteq {"deadline", "escalation", "forceClose"}
         /\ termination' \in {"none", "pending", "done"}
         /\ settled => UNCHANGED <<terminating, timers, termination>>
         /\ ~settled => terminating'
         /\ terminating => UNCHANGED <<terminating, timers, termination>>
         /\ ~settled /\ ~terminating =>
              /\ "deadline" \notin timers'
              /\ ~windows => termination' = "none" /\ "escalation" \in timers'
              /\ windows => termination' = "pending"
  BY DEF Terminate, TypeOK, FlagsTyped, ProcessAssumption

LEMMA ErrorKeepsTurn == ASSUME turn \in Turn PROVE [turn EXCEPT !.error = TRUE] \in Turn
  BY DEF Turn

\* Rejecting what is pending leaves no command pending, and accepts none.
LEMMA RejectEffect ==
  ASSUME TypeOK, RejectPendingCommands
  PROVE  /\ prompt' \in Command /\ steer' \in [Steers -> Command]
         /\ prompt' # "pending" /\ \A s \in Steers : steer'[s] # "pending"
         /\ prompt' = "accepted" <=> prompt = "accepted"
         /\ prompt' = "idle" <=> prompt = "idle"
         /\ \A s \in Steers : steer'[s] = "idle" <=> steer[s] = "idle"
  BY DEF RejectPendingCommands, Rejected, Command, TypeOK

LEMMA CompleteEffect ==
  ASSUME TypeOK, Complete
  PROVE  /\ settled' = TRUE /\ timers' = {}
         /\ outcome' \in {"completed", "partial", "failed", "cancelled", "timed_out"}
         /\ outcome' = "completed" => completed
  BY DEF Complete, Classified, TypeOK, FlagsTyped

LEMMA FinishEffect ==
  ASSUME TypeOK, NEW rest, Finish(rest)
  PROVE  \/ /\ settled \/ finishRequested
            /\ timers' = rest
            /\ UNCHANGED <<finishRequested, settled, prompt, steer, outcome>>
         \/ /\ ~settled /\ ~finishRequested /\ finishRequested' = TRUE
            /\ termination # "none" /\ timers' = rest
            /\ UNCHANGED <<settled, prompt, steer, outcome>>
         \/ /\ ~settled /\ ~finishRequested /\ finishRequested' = TRUE
            /\ termination = "none"
            /\ Complete /\ RejectPendingCommands
  BY DEF Finish, Complete, TypeOK, FlagsTyped

\* The three handlers in which the child is over and finish is called.
LEMMA FinishKeepsInv ==
  ASSUME IInv, Finish(timers), child' \in {"closed", "failed"}, turn' \in Turn,
         spawned <=> child' = "closed",
         UNCHANGED <<killed, aborted, spawned, terminating, cancelled, timedOut,
                     completed, ready, termination, inputFailed>>
  PROVE  IInv'
  <1> USE DEF IInv, TypeOK
  <1>1. CASE UNCHANGED <<finishRequested, settled, timers, prompt, steer, outcome>>
             /\ (settled \/ finishRequested)
    <2>1. TypeOK'
      BY <1>1 DEF FlagsTyped
    <2>2. EndsInOrder' /\ EndsAreSeen' /\ OneCause' /\ AbandonedOnlyIfKilled'
      BY <1>1 DEF EndsInOrder, EndsAreSeen, OneCause, AbandonedOnlyIfKilled
    <2>3. CommandsFollowPrompt' /\ SettledLeavesNothing' /\ CompletionFollowsPrompt'
      BY <1>1
         DEF CommandsFollowPrompt, SettledLeavesNothing, CompletionFollowsPrompt
    <2> QED BY <2>1, <2>2, <2>3
  <1>2. CASE /\ ~settled /\ finishRequested' = TRUE
             /\ UNCHANGED <<settled, timers, prompt, steer, outcome>>
    <2>1. TypeOK'
      BY <1>2 DEF FlagsTyped
    <2>2. EndsInOrder' /\ EndsAreSeen' /\ OneCause' /\ AbandonedOnlyIfKilled'
      BY <1>2 DEF EndsInOrder, EndsAreSeen, OneCause, AbandonedOnlyIfKilled
    <2>3. CommandsFollowPrompt' /\ SettledLeavesNothing' /\ CompletionFollowsPrompt'
      BY <1>2
         DEF CommandsFollowPrompt, SettledLeavesNothing, CompletionFollowsPrompt
    <2> QED BY <2>1, <2>2, <2>3
  <1>3. CASE finishRequested' = TRUE /\ Complete /\ RejectPendingCommands
    <2>1. FlagsTyped'
      BY <1>3, CompleteEffect DEF FlagsTyped
    <2>2. TypeOK'
      BY <1>3, <2>1, CompleteEffect, RejectEffect
    <2>3. EndsInOrder' /\ EndsAreSeen' /\ OneCause' /\ AbandonedOnlyIfKilled'
      BY <1>3, CompleteEffect
         DEF EndsInOrder, EndsAreSeen, OneCause, AbandonedOnlyIfKilled
    <2>4. CommandsFollowPrompt' /\ SettledLeavesNothing' /\ CompletionFollowsPrompt'
      BY <1>3, CompleteEffect, RejectEffect
         DEF CommandsFollowPrompt, SettledLeavesNothing, CompletionFollowsPrompt
    <2> QED BY <2>2, <2>3, <2>4
  <1> QED BY <1>1, <1>2, <1>3, FinishEffect

LEMMA SpawnThrowsInv == ASSUME IInv, SpawnThrows PROVE IInv'
  BY FinishKeepsInv
     DEF SpawnThrows, IInv, TypeOK, CommandsFollowPrompt, FlagsTyped

LEMMA SpawnFailsInv == ASSUME IInv, SpawnFails PROVE IInv'
  BY FinishKeepsInv, ErrorKeepsTurn
     DEF SpawnFails, IInv, TypeOK, CommandsFollowPrompt, FlagsTyped

LEMMA CloseInv == ASSUME IInv, Close PROVE IInv'
  BY FinishKeepsInv DEF Close, IInv, TypeOK, CommandsFollowPrompt, FlagsTyped

LEMMA SpawnInv == ASSUME IInv, ProcessAssumption, Spawn PROVE IInv'
  <1> USE DEF IInv, TypeOK, Spawn, FailWithMessage
  <1>1. TypeOK'
    <2>1. FlagsTyped'
      BY TerminateEffect, ErrorKeepsTurn DEF FlagsTyped
    <2> QED
      BY <2>1, TerminateEffect, ErrorKeepsTurn DEF Command
  <1>2. EndsInOrder' /\ EndsAreSeen' /\ OneCause' /\ AbandonedOnlyIfKilled'
    BY TerminateEffect, ErrorKeepsTurn
       DEF FlagsTyped, ProcessAssumption, EndsInOrder, EndsAreSeen, OneCause,
                   AbandonedOnlyIfKilled, CommandsFollowPrompt, SettledLeavesNothing
  <1>3. CommandsFollowPrompt' /\ SettledLeavesNothing' /\ CompletionFollowsPrompt'
    BY TerminateEffect, ErrorKeepsTurn
       DEF FlagsTyped, Command, EndsInOrder, EndsAreSeen, CommandsFollowPrompt,
                   SettledLeavesNothing, CompletionFollowsPrompt
  <1> QED BY <1>1, <1>2, <1>3

LEMMA SpawnEventInv == ASSUME IInv, ProcessAssumption, SpawnEvent PROVE IInv'
  <1> USE DEF IInv, TypeOK, SpawnEvent, PromptRejected, FailWithMessage
  <1>1. TypeOK'
    <2>1. FlagsTyped'
      BY TerminateEffect, ErrorKeepsTurn DEF FlagsTyped
    <2> QED
      BY <2>1, TerminateEffect, ErrorKeepsTurn DEF Command
  <1>2. EndsInOrder' /\ EndsAreSeen' /\ OneCause' /\ AbandonedOnlyIfKilled'
    BY TerminateEffect, ErrorKeepsTurn
       DEF FlagsTyped, ProcessAssumption, EndsInOrder, EndsAreSeen, OneCause,
                   AbandonedOnlyIfKilled, CommandsFollowPrompt, SettledLeavesNothing
  <1>3. CommandsFollowPrompt' /\ SettledLeavesNothing' /\ CompletionFollowsPrompt'
    BY TerminateEffect, ErrorKeepsTurn
       DEF FlagsTyped, Command, EndsInOrder, EndsAreSeen, CommandsFollowPrompt,
                   SettledLeavesNothing, CompletionFollowsPrompt
  <1> QED BY <1>1, <1>2, <1>3

LEMMA PromptAcceptedInv == ASSUME IInv, ProcessAssumption, PromptAccepted PROVE IInv'
  <1> USE DEF IInv, TypeOK, PromptAccepted, Readable
  <1>1. TypeOK'
    <2>1. FlagsTyped'
      BY DEF FlagsTyped
    <2> QED
      BY <2>1 DEF Command
  <1>2. EndsInOrder' /\ EndsAreSeen' /\ OneCause' /\ AbandonedOnlyIfKilled'
    BY DEF FlagsTyped, ProcessAssumption, EndsInOrder, EndsAreSeen, OneCause,
                   AbandonedOnlyIfKilled, CommandsFollowPrompt, SettledLeavesNothing
  <1>3. CommandsFollowPrompt' /\ SettledLeavesNothing' /\ CompletionFollowsPrompt'
    BY DEF FlagsTyped, Command, EndsInOrder, EndsAreSeen, CommandsFollowPrompt,
                   SettledLeavesNothing, CompletionFollowsPrompt
  <1> QED BY <1>1, <1>2, <1>3

LEMMA PromptFailsInv == ASSUME IInv, ProcessAssumption, PromptFails PROVE IInv'
  <1> USE DEF IInv, TypeOK, PromptFails, PromptRejected, FailWithMessage
  <1>1. TypeOK'
    <2>1. FlagsTyped'
      BY TerminateEffect, ErrorKeepsTurn DEF FlagsTyped
    <2> QED
      BY <2>1, TerminateEffect, ErrorKeepsTurn DEF Command
  <1>2. EndsInOrder' /\ EndsAreSeen' /\ OneCause' /\ AbandonedOnlyIfKilled'
    BY TerminateEffect, ErrorKeepsTurn
       DEF FlagsTyped, ProcessAssumption, EndsInOrder, EndsAreSeen, OneCause,
                   AbandonedOnlyIfKilled, CommandsFollowPrompt, SettledLeavesNothing
  <1>3. CommandsFollowPrompt' /\ SettledLeavesNothing' /\ CompletionFollowsPrompt'
    BY TerminateEffect, ErrorKeepsTurn
       DEF FlagsTyped, Command, EndsInOrder, EndsAreSeen, CommandsFollowPrompt,
                   SettledLeavesNothing, CompletionFollowsPrompt
  <1> QED BY <1>1, <1>2, <1>3

LEMMA InputFailsInv == ASSUME IInv, ProcessAssumption, InputFails PROVE IInv'
  <1> USE DEF IInv, TypeOK, InputFails, PromptRejected, FailWithMessage
  <1>1. TypeOK'
    <2>1. FlagsTyped'
      BY TerminateEffect, ErrorKeepsTurn, RejectEffect DEF FlagsTyped
    <2> QED
      BY <2>1, TerminateEffect, ErrorKeepsTurn, RejectEffect DEF Command
  <1>2. EndsInOrder' /\ EndsAreSeen' /\ OneCause' /\ AbandonedOnlyIfKilled'
    BY TerminateEffect, ErrorKeepsTurn, RejectEffect
       DEF FlagsTyped, ProcessAssumption, EndsInOrder, EndsAreSeen, OneCause,
                   AbandonedOnlyIfKilled, CommandsFollowPrompt, SettledLeavesNothing
  <1>3. CommandsFollowPrompt' /\ SettledLeavesNothing' /\ CompletionFollowsPrompt'
    BY TerminateEffect, ErrorKeepsTurn, RejectEffect
       DEF FlagsTyped, Command, EndsInOrder, EndsAreSeen, CommandsFollowPrompt,
                   SettledLeavesNothing, CompletionFollowsPrompt
  <1> QED BY <1>1, <1>2, <1>3

LEMMA SendSteerInv == ASSUME IInv, ProcessAssumption, NEW s \in Steers, SendSteer(s) PROVE IInv'
  <1> USE DEF IInv, TypeOK, SendSteer, CanSteer, flags
  <1>1. TypeOK'
    <2>1. FlagsTyped'
      BY DEF FlagsTyped
    <2> QED
      BY <2>1 DEF Command
  <1>2. EndsInOrder' /\ EndsAreSeen' /\ OneCause' /\ AbandonedOnlyIfKilled'
    BY DEF FlagsTyped, ProcessAssumption, EndsInOrder, EndsAreSeen, OneCause,
                   AbandonedOnlyIfKilled, CommandsFollowPrompt, SettledLeavesNothing
  <1>3. CommandsFollowPrompt' /\ SettledLeavesNothing' /\ CompletionFollowsPrompt'
    BY DEF FlagsTyped, Command, EndsInOrder, EndsAreSeen, CommandsFollowPrompt,
                   SettledLeavesNothing, CompletionFollowsPrompt
  <1> QED BY <1>1, <1>2, <1>3

LEMMA SteerAnsweredInv == ASSUME IInv, ProcessAssumption, NEW s \in Steers, SteerAnswered(s) PROVE IInv'
  <1> USE DEF IInv, TypeOK, SteerAnswered, Readable, flags
  <1>1. TypeOK'
    <2>1. FlagsTyped'
      BY DEF FlagsTyped
    <2> QED
      BY <2>1 DEF Command
  <1>2. EndsInOrder' /\ EndsAreSeen' /\ OneCause' /\ AbandonedOnlyIfKilled'
    BY DEF FlagsTyped, ProcessAssumption, EndsInOrder, EndsAreSeen, OneCause,
                   AbandonedOnlyIfKilled, CommandsFollowPrompt, SettledLeavesNothing
  <1>3. CommandsFollowPrompt' /\ SettledLeavesNothing' /\ CompletionFollowsPrompt'
    BY DEF FlagsTyped, Command, EndsInOrder, EndsAreSeen, CommandsFollowPrompt,
                   SettledLeavesNothing, CompletionFollowsPrompt
  <1> QED BY <1>1, <1>2, <1>3

LEMMA SteerRejectedInv == ASSUME IInv, ProcessAssumption, NEW s \in Steers, SteerRejected(s) PROVE IInv'
  <1> USE DEF IInv, TypeOK, SteerRejected, flags
  <1>1. TypeOK'
    <2>1. FlagsTyped'
      BY DEF FlagsTyped
    <2> QED
      BY <2>1 DEF Command
  <1>2. EndsInOrder' /\ EndsAreSeen' /\ OneCause' /\ AbandonedOnlyIfKilled'
    BY DEF FlagsTyped, ProcessAssumption, EndsInOrder, EndsAreSeen, OneCause,
                   AbandonedOnlyIfKilled, CommandsFollowPrompt, SettledLeavesNothing
  <1>3. CommandsFollowPrompt' /\ SettledLeavesNothing' /\ CompletionFollowsPrompt'
    BY DEF FlagsTyped, Command, EndsInOrder, EndsAreSeen, CommandsFollowPrompt,
                   SettledLeavesNothing, CompletionFollowsPrompt
  <1> QED BY <1>1, <1>2, <1>3

LEMMA MessageEndInv == ASSUME IInv, ProcessAssumption, MessageEnd PROVE IInv'
  <1> USE DEF IInv, TypeOK, MessageEnd, Turn, flags
  <1>1. TypeOK'
    <2>1. FlagsTyped'
      BY DEF FlagsTyped
    <2> QED
      BY <2>1 DEF Command
  <1>2. EndsInOrder' /\ EndsAreSeen' /\ OneCause' /\ AbandonedOnlyIfKilled'
    BY DEF FlagsTyped, ProcessAssumption, EndsInOrder, EndsAreSeen, OneCause,
                   AbandonedOnlyIfKilled, CommandsFollowPrompt, SettledLeavesNothing
  <1>3. CommandsFollowPrompt' /\ SettledLeavesNothing' /\ CompletionFollowsPrompt'
    BY DEF FlagsTyped, Command, EndsInOrder, EndsAreSeen, CommandsFollowPrompt,
                   SettledLeavesNothing, CompletionFollowsPrompt
  <1> QED BY <1>1, <1>2, <1>3

LEMMA AgentSettledInv == ASSUME IInv, ProcessAssumption, AgentSettled PROVE IInv'
  <1> USE DEF IInv, TypeOK, AgentSettled, CompletesNormally
  <1>1. TypeOK'
    <2>1. FlagsTyped'
      BY TerminateEffect DEF FlagsTyped
    <2> QED
      BY <2>1, TerminateEffect DEF Command
  <1>2. EndsInOrder' /\ EndsAreSeen' /\ OneCause' /\ AbandonedOnlyIfKilled'
    BY TerminateEffect
       DEF FlagsTyped, ProcessAssumption, EndsInOrder, EndsAreSeen, OneCause,
                   AbandonedOnlyIfKilled, CommandsFollowPrompt, SettledLeavesNothing
  <1>3. CommandsFollowPrompt' /\ SettledLeavesNothing' /\ CompletionFollowsPrompt'
    BY TerminateEffect
       DEF FlagsTyped, Command, EndsInOrder, EndsAreSeen, CommandsFollowPrompt,
                   SettledLeavesNothing, CompletionFollowsPrompt
  <1> QED BY <1>1, <1>2, <1>3

LEMMA AbortInv == ASSUME IInv, ProcessAssumption, Abort PROVE IInv'
  <1> USE DEF IInv, TypeOK, Abort, Rejected
  <1>1. TypeOK'
    <2>1. FlagsTyped'
      BY TerminateEffect DEF FlagsTyped
    <2> QED
      BY <2>1, TerminateEffect DEF Command
  <1>2. EndsInOrder' /\ EndsAreSeen' /\ OneCause' /\ AbandonedOnlyIfKilled'
    BY TerminateEffect
       DEF FlagsTyped, ProcessAssumption, EndsInOrder, EndsAreSeen, OneCause,
                   AbandonedOnlyIfKilled, CommandsFollowPrompt, SettledLeavesNothing
  <1>3. CommandsFollowPrompt' /\ SettledLeavesNothing' /\ CompletionFollowsPrompt'
    BY TerminateEffect
       DEF FlagsTyped, Command, EndsInOrder, EndsAreSeen, CommandsFollowPrompt,
                   SettledLeavesNothing, CompletionFollowsPrompt
  <1> QED BY <1>1, <1>2, <1>3

LEMMA DeadlineFiresInv == ASSUME IInv, ProcessAssumption, DeadlineFires PROVE IInv'
  <1> USE DEF IInv, TypeOK, DeadlineFires
  <1>1. TypeOK'
    <2>1. FlagsTyped'
      BY TerminateEffect DEF FlagsTyped
    <2> QED
      BY <2>1, TerminateEffect DEF Command
  <1>2. EndsInOrder' /\ EndsAreSeen' /\ OneCause' /\ AbandonedOnlyIfKilled'
    BY TerminateEffect
       DEF FlagsTyped, ProcessAssumption, EndsInOrder, EndsAreSeen, OneCause,
                   AbandonedOnlyIfKilled, CommandsFollowPrompt, SettledLeavesNothing
  <1>3. CommandsFollowPrompt' /\ SettledLeavesNothing' /\ CompletionFollowsPrompt'
    BY TerminateEffect
       DEF FlagsTyped, Command, EndsInOrder, EndsAreSeen, CommandsFollowPrompt,
                   SettledLeavesNothing, CompletionFollowsPrompt
  <1> QED BY <1>1, <1>2, <1>3

LEMMA ProcessErrorInv == ASSUME IInv, ProcessAssumption, ProcessError PROVE IInv'
  <1> USE DEF IInv, TypeOK, ProcessError, FailWithMessage
  <1>1. TypeOK'
    <2>1. FlagsTyped'
      BY TerminateEffect, ErrorKeepsTurn DEF FlagsTyped
    <2> QED
      BY <2>1, TerminateEffect, ErrorKeepsTurn DEF Command
  <1>2. EndsInOrder' /\ EndsAreSeen' /\ OneCause' /\ AbandonedOnlyIfKilled'
    BY TerminateEffect, ErrorKeepsTurn
       DEF FlagsTyped, ProcessAssumption, EndsInOrder, EndsAreSeen, OneCause,
                   AbandonedOnlyIfKilled, CommandsFollowPrompt, SettledLeavesNothing
  <1>3. CommandsFollowPrompt' /\ SettledLeavesNothing' /\ CompletionFollowsPrompt'
    BY TerminateEffect, ErrorKeepsTurn
       DEF FlagsTyped, Command, EndsInOrder, EndsAreSeen, CommandsFollowPrompt,
                   SettledLeavesNothing, CompletionFollowsPrompt
  <1> QED BY <1>1, <1>2, <1>3

LEMMA ChildExitsInv == ASSUME IInv, ProcessAssumption, ChildExits PROVE IInv'
  <1> USE DEF IInv, TypeOK, ChildExits, flags
  <1>1. TypeOK'
    <2>1. FlagsTyped'
      BY DEF FlagsTyped
    <2> QED
      BY <2>1 DEF Command
  <1>2. EndsInOrder' /\ EndsAreSeen' /\ OneCause' /\ AbandonedOnlyIfKilled'
    BY DEF FlagsTyped, ProcessAssumption, EndsInOrder, EndsAreSeen, OneCause,
                   AbandonedOnlyIfKilled, CommandsFollowPrompt, SettledLeavesNothing
  <1>3. CommandsFollowPrompt' /\ SettledLeavesNothing' /\ CompletionFollowsPrompt'
    BY DEF FlagsTyped, Command, EndsInOrder, EndsAreSeen, CommandsFollowPrompt,
                   SettledLeavesNothing, CompletionFollowsPrompt
  <1> QED BY <1>1, <1>2, <1>3

LEMMA EscalateInv == ASSUME IInv, ProcessAssumption, Escalate PROVE IInv'
  <1> USE DEF IInv, TypeOK, Escalate, flags
  <1>1. TypeOK'
    <2>1. FlagsTyped'
      BY DEF FlagsTyped
    <2> QED
      BY <2>1 DEF Command
  <1>2. EndsInOrder' /\ EndsAreSeen' /\ OneCause' /\ AbandonedOnlyIfKilled'
    BY DEF FlagsTyped, ProcessAssumption, EndsInOrder, EndsAreSeen, OneCause,
                   AbandonedOnlyIfKilled, CommandsFollowPrompt, SettledLeavesNothing
  <1>3. CommandsFollowPrompt' /\ SettledLeavesNothing' /\ CompletionFollowsPrompt'
    BY DEF FlagsTyped, Command, EndsInOrder, EndsAreSeen, CommandsFollowPrompt,
                   SettledLeavesNothing, CompletionFollowsPrompt
  <1> QED BY <1>1, <1>2, <1>3

LEMMA ForceCloseInv == ASSUME IInv, ForceClose PROVE IInv'
  <1> USE DEF IInv, TypeOK, ForceClose
  <1>1. CASE /\ timers' = timers \ {"forceClose"}
             /\ settled \/ termination # "none" \/ finishRequested
             /\ finishRequested' = TRUE
             /\ UNCHANGED <<settled, prompt, steer, outcome>>
    <2>1. TypeOK'
      <3>1. FlagsTyped'
        BY <1>1 DEF FlagsTyped
      <3> QED BY <1>1, <3>1
    <2>2. EndsInOrder' /\ EndsAreSeen' /\ OneCause' /\ AbandonedOnlyIfKilled'
      BY <1>1 DEF FlagsTyped, EndsInOrder, EndsAreSeen, OneCause,
                  AbandonedOnlyIfKilled, SettledLeavesNothing
    <2>3. CommandsFollowPrompt' /\ SettledLeavesNothing' /\ CompletionFollowsPrompt'
      BY <1>1 DEF CommandsFollowPrompt, SettledLeavesNothing, CompletionFollowsPrompt
    <2> QED BY <2>1, <2>2, <2>3
  <1>2. CASE /\ ~settled /\ finishRequested' = TRUE /\ termination = "none"
             /\ Complete /\ RejectPendingCommands
    <2>1. TypeOK'
      <3>1. FlagsTyped'
        BY <1>2, CompleteEffect DEF FlagsTyped
      <3> QED BY <1>2, <3>1, CompleteEffect, RejectEffect
    <2>2. EndsInOrder' /\ EndsAreSeen' /\ OneCause' /\ AbandonedOnlyIfKilled'
      BY <1>2, CompleteEffect DEF FlagsTyped, EndsInOrder, EndsAreSeen, OneCause,
                                  AbandonedOnlyIfKilled
    <2>3. CommandsFollowPrompt' /\ SettledLeavesNothing' /\ CompletionFollowsPrompt'
      BY <1>2, CompleteEffect, RejectEffect
         DEF CommandsFollowPrompt, SettledLeavesNothing, CompletionFollowsPrompt
    <2> QED BY <2>1, <2>2, <2>3
  <1>3. settled => finishRequested
    BY DEF EndsInOrder
  <1> QED
    BY <1>1, <1>2, <1>3, FinishEffect DEF FlagsTyped

LEMMA TerminationSettlesInv == ASSUME IInv, ProcessAssumption, TerminationSettles PROVE IInv'
  <1> USE DEF IInv, TypeOK, TerminationSettles, flags
  <1>1. TypeOK'
    <2>1. FlagsTyped'
      BY DEF FlagsTyped
    <2> QED
      BY <2>1 DEF Command
  <1>2. EndsInOrder' /\ EndsAreSeen' /\ OneCause' /\ AbandonedOnlyIfKilled'
    BY DEF FlagsTyped, ProcessAssumption, EndsInOrder, EndsAreSeen, OneCause,
                   AbandonedOnlyIfKilled, CommandsFollowPrompt, SettledLeavesNothing
  <1>3. CommandsFollowPrompt' /\ SettledLeavesNothing' /\ CompletionFollowsPrompt'
    BY DEF FlagsTyped, Command, EndsInOrder, EndsAreSeen, CommandsFollowPrompt,
                   SettledLeavesNothing, CompletionFollowsPrompt
  <1> QED BY <1>1, <1>2, <1>3

LEMMA CompletesAfterTerminationInv == ASSUME IInv, ProcessAssumption, CompletesAfterTermination PROVE IInv'
  <1> USE DEF IInv, TypeOK, CompletesAfterTermination, Complete
  <1>1. TypeOK'
    <2>1. FlagsTyped'
      BY CompleteEffect, RejectEffect DEF FlagsTyped
    <2> QED
      BY <2>1, CompleteEffect, RejectEffect DEF Command
  <1>2. EndsInOrder' /\ EndsAreSeen' /\ OneCause' /\ AbandonedOnlyIfKilled'
    BY CompleteEffect, RejectEffect
       DEF FlagsTyped, ProcessAssumption, EndsInOrder, EndsAreSeen, OneCause,
                   AbandonedOnlyIfKilled, CommandsFollowPrompt, SettledLeavesNothing
  <1>3. CommandsFollowPrompt' /\ SettledLeavesNothing' /\ CompletionFollowsPrompt'
    BY CompleteEffect, RejectEffect
       DEF FlagsTyped, Command, EndsInOrder, EndsAreSeen, CommandsFollowPrompt,
                   SettledLeavesNothing, CompletionFollowsPrompt
  <1> QED BY <1>1, <1>2, <1>3

LEMMA InvariantStep == ASSUME IInv, [Next]_allVars, ProcessAssumption PROVE IInv'
  <1>1. CASE SpawnThrows
    BY <1>1, SpawnThrowsInv
  <1>2. CASE Spawn
    BY <1>2, SpawnInv
  <1>3. CASE SpawnFails
    BY <1>3, SpawnFailsInv
  <1>4. CASE SpawnEvent
    BY <1>4, SpawnEventInv
  <1>5. CASE PromptAccepted
    BY <1>5, PromptAcceptedInv
  <1>6. CASE PromptFails
    BY <1>6, PromptFailsInv
  <1>7. CASE InputFails
    BY <1>7, InputFailsInv
  <1>8. CASE MessageEnd
    BY <1>8, MessageEndInv
  <1>9. CASE AgentSettled
    BY <1>9, AgentSettledInv
  <1>10. CASE Abort
    BY <1>10, AbortInv
  <1>11. CASE DeadlineFires
    BY <1>11, DeadlineFiresInv
  <1>12. CASE ProcessError
    BY <1>12, ProcessErrorInv
  <1>13. CASE ChildExits
    BY <1>13, ChildExitsInv
  <1>14. CASE Close
    BY <1>14, CloseInv
  <1>15. CASE Escalate
    BY <1>15, EscalateInv
  <1>16. CASE ForceClose
    BY <1>16, ForceCloseInv
  <1>17. CASE TerminationSettles
    BY <1>17, TerminationSettlesInv
  <1>18. CASE CompletesAfterTermination
    BY <1>18, CompletesAfterTerminationInv
  <1>19. ASSUME NEW s \in Steers, SendSteer(s) PROVE IInv'
    BY <1>19, SendSteerInv
  <1>20. ASSUME NEW s \in Steers, SteerAnswered(s) PROVE IInv'
    BY <1>20, SteerAnsweredInv
  <1>21. ASSUME NEW s \in Steers, SteerRejected(s) PROVE IInv'
    BY <1>21, SteerRejectedInv
  <1>22. CASE UNCHANGED vars
    <2> USE <1>22 DEF vars, flags, IInv
    <2>1. TypeOK'
      BY DEF TypeOK, FlagsTyped
    <2>2. EndsInOrder' /\ EndsAreSeen' /\ OneCause' /\ AbandonedOnlyIfKilled'
      BY DEF EndsInOrder, EndsAreSeen, OneCause, AbandonedOnlyIfKilled
    <2>3. CommandsFollowPrompt' /\ SettledLeavesNothing' /\ CompletionFollowsPrompt'
      BY DEF CommandsFollowPrompt, SettledLeavesNothing, CompletionFollowsPrompt
    <2> QED BY <2>1, <2>2, <2>3
  <1> QED
    BY <1>1, <1>2, <1>3, <1>4, <1>5, <1>6, <1>7, <1>8, <1>9, <1>10, <1>11, <1>12, <1>13,
       <1>14, <1>15, <1>16, <1>17, <1>18, <1>19, <1>20, <1>21, <1>22 DEF Next, Step, allVars

(***************************************************************************)
(* Every reachable state of a child process satisfies the inductive        *)
(* invariant: timers, pipes, the child and the job's signal may do their   *)
(* work in any order.                                                      *)
(***************************************************************************)
THEOREM InvariantCorrect == Spec => []IInv
  <1>1. Init => IInv
    BY InitInv
  <1>2. IInv /\ [Next]_allVars => IInv'
    BY InvariantStep, ProcessAssumption
  <1> QED BY <1>1, <1>2, PTL DEF Spec

(***************************************************************************)
(* The state of executeProcess keeps its types.                            *)
(***************************************************************************)
THEOREM TypeCorrect == Spec => []TypeOK
  <1>1. IInv => TypeOK
    BY DEF IInv
  <1> QED BY <1>1, InvariantCorrect, PTL

(***************************************************************************)
(* Completion and timeout exclude each other.                              *)
(***************************************************************************)
THEOREM OneCauseCorrect == Spec => []OneCause
  <1>1. IInv => OneCause
    BY DEF IInv
  <1> QED BY <1>1, InvariantCorrect, PTL

(***************************************************************************)
(* A result leaves neither a timer nor a caller of send behind.            *)
(***************************************************************************)
THEOREM SettledCorrect == Spec => []SettledLeavesNothing
  <1>1. IInv => SettledLeavesNothing
    BY DEF IInv
  <1> QED BY <1>1, InvariantCorrect, PTL

(***************************************************************************)
(* No child is given up unharmed, on either platform.                      *)
(***************************************************************************)
THEOREM AbandonedCorrect == Spec => []AbandonedOnlyIfKilled
  <1>1. IInv => AbandonedOnlyIfKilled
    BY DEF IInv
  <1> QED BY <1>1, InvariantCorrect, PTL

(***************************************************************************)
(* A completed child had accepted its prompt.                              *)
(***************************************************************************)
THEOREM CompletionCorrect == Spec => []CompletionFollowsPrompt
  <1>1. IInv => CompletionFollowsPrompt
    BY DEF IInv
  <1> QED BY <1>1, InvariantCorrect, PTL

(***************************************************************************)
(* The end of a child is sound, whatever its timers, commands and platform. *)
(***************************************************************************)
THEOREM EndsCorrect == Spec => []EndsAreSound
  <1>1. IInv => EndsAreSound
    BY DEF IInv, EndsAreSound
  <1> QED BY <1>1, InvariantCorrect, PTL

-----------------------------------------------------------------------------
(***************************************************************************)
(* Refinement of ChildContract.                                            *)
(***************************************************************************)
Steered == {s \in Steers : steer[s] = "accepted"}

\* The contract's variables, as the process implements them, do not change.
Quiet == UNCHANGED <<aborted, ready, outcome, Steered>>

\* Rejecting commands accepts none.
LEMMA RejectKeepsSteered ==
  ASSUME TypeOK, RejectPendingCommands PROVE Steered' = Steered
  BY DEF RejectPendingCommands, Rejected, Steered, TypeOK

\* complete resolves the promise, as cancelled exactly after an abort.
LEMMA CompleteResolves ==
  ASSUME IInv, ~settled, Complete, UNCHANGED <<aborted, ready>>
  PROVE  \E o \in Contract!Outcomes : Contract!Resolve(o)
  <1>1. outcome = "none"
    BY DEF IInv, EndsInOrder
  <1>2. Steered' = Steered
    BY RejectKeepsSteered DEF Complete, IInv
  <1>3. outcome' = "cancelled" <=> aborted
    BY DEF Complete, Classified, IInv, EndsInOrder, TypeOK, FlagsTyped
  <1>4. outcome' \in Contract!Outcomes
    BY CompleteEffect DEF IInv, Contract!Outcomes
  <1>5. Contract!Resolve(outcome')
    BY <1>1, <1>2, <1>3 DEF Contract!Resolve, Contract!Pending, Steered
  <1> QED BY <1>4, <1>5

LEMMA FinishResolves ==
  ASSUME IInv, NEW rest, Finish(rest), UNCHANGED <<aborted, ready>>
  PROVE  Quiet \/ \E o \in Contract!Outcomes : Contract!Resolve(o)
  <1>1. CASE UNCHANGED <<steer, outcome>>
    BY <1>1 DEF Quiet, Steered
  <1>2. CASE ~settled /\ Complete
    BY <1>2, CompleteResolves
  <1> QED BY <1>1, <1>2, FinishEffect DEF IInv

\* The call of send whose response arrives is accepted now, for the first time.
LEMMA AnswerAccepts ==
  ASSUME IInv, NEW s \in Steers, SteerAnswered(s) PROVE Contract!AcceptSteer(s)
  <1> USE DEF IInv, TypeOK, SteerAnswered, flags
  <1>1. s \notin Steered /\ Steered' = Steered \cup {s}
    BY DEF Steered, Command
  <1>2. ready
    BY DEF CommandsFollowPrompt
  <1>3. outcome = "none"
    BY DEF Readable, EndsInOrder
  <1> QED BY <1>1, <1>2, <1>3 DEF Contract!AcceptSteer, Contract!Pending, Steered

LEMMA PromptControls ==
  ASSUME IInv, PromptAccepted PROVE Quiet \/ Contract!OnControl
  <1>1. CASE terminating \/ aborted
    BY <1>1 DEF PromptAccepted, Quiet, Steered
  <1>2. CASE ~(terminating \/ aborted)
    <2>1. ~ready
      BY <1>2 DEF PromptAccepted, IInv, CommandsFollowPrompt
    <2>2. outcome = "none"
      BY DEF PromptAccepted, Readable, IInv, EndsInOrder
    <2> QED
      BY <1>2, <2>1, <2>2
         DEF PromptAccepted, Contract!OnControl, Contract!Pending
  <1> QED BY <1>1, <1>2

\* Every step is one of the contract's, or changes nothing it speaks of.
LEMMA StepRefines ==
  ASSUME IInv, [Next]_allVars PROVE [Contract!ContractNext]_(Contract!contractVars)
  <1> SUFFICES Quiet \/ Contract!ContractNext
    BY DEF Quiet, Steered, Contract!contractVars
  <1> USE DEF Contract!ContractNext
  <1>1. CASE SpawnThrows \/ SpawnFails \/ Close
    BY <1>1, FinishResolves DEF SpawnThrows, SpawnFails, Close
  <1>2. CASE ForceClose
    BY <1>2, FinishResolves DEF ForceClose
  <1>3. CASE CompletesAfterTermination
    BY <1>3, CompleteResolves DEF CompletesAfterTermination
  <1>4. CASE PromptAccepted
    BY <1>4, PromptControls
  <1>5. ASSUME NEW s \in Steers, SteerAnswered(s) PROVE Contract!ContractNext
    BY <1>5, AnswerAccepts
  <1>6. ASSUME NEW s \in Steers, SendSteer(s) \/ SteerRejected(s) PROVE Quiet
    <2>1. steer[s] # "accepted" /\ \E r \in {"pending", "rejected"} :
            steer' = [steer EXCEPT ![s] = r]
      BY <1>6 DEF SendSteer, SteerRejected
    <2>2. UNCHANGED <<aborted, ready, outcome>>
      BY <1>6 DEF SendSteer, SteerRejected, flags
    <2> QED BY <2>1, <2>2 DEF Quiet, Steered, IInv, TypeOK
  <1>7. CASE Abort
    BY <1>7 DEF Abort, Contract!AbortSignal
  <1>8. CASE InputFails
    BY <1>8, RejectKeepsSteered DEF InputFails, Quiet, IInv
  <1>9. CASE Spawn \/ SpawnEvent \/ PromptFails \/ ProcessError
    BY <1>9 DEF Spawn, SpawnEvent, PromptFails, ProcessError, Quiet, Steered
  <1>10. CASE MessageEnd \/ AgentSettled \/ DeadlineFires \/ ChildExits
    BY <1>10
       DEF MessageEnd, AgentSettled, DeadlineFires, ChildExits, flags, Quiet, Steered
  <1>11. CASE Escalate \/ TerminationSettles \/ UNCHANGED vars
    BY <1>11 DEF Escalate, TerminationSettles, vars, flags, Quiet, Steered
  <1> QED
    BY <1>1, <1>2, <1>3, <1>4, <1>5, <1>6, <1>7, <1>8, <1>9, <1>10, <1>11
       DEF Next, Step, allVars

(***************************************************************************)
(* Every behaviour of a child process keeps the contract the job runtime   *)
(* is written against.                                                     *)
(***************************************************************************)
THEOREM ProcessMeetsContract == Spec => MeetsContract
  <1>1. Init => Contract!ContractInit
    BY DEF Init, Contract!ContractInit
  <1>2. IInv /\ [Next]_allVars => [Contract!ContractNext]_(Contract!contractVars)
    BY StepRefines
  <1> QED BY <1>1, <1>2, InvariantCorrect, PTL DEF Spec, MeetsContract, Contract!ContractSpec

-----------------------------------------------------------------------------
(***************************************************************************)
(* The endpoint of pi-fleet, whose messages every proof from here on needs *)
(***************************************************************************)
USE FleetDeliveryAssumption DEF Messages

(***************************************************************************)
(* The endpoint, its session and its sender are type correct.              *)
(***************************************************************************)
THEOREM FleetTypeCorrect == FleetSpec => []FleetTypeOK
<1> USE DEF FleetTypeOK, Phases, Handoff, Answers
<1>1. FleetInit => FleetTypeOK
  <2> SUFFICES ASSUME FleetInit PROVE FleetTypeOK
    OBVIOUS
  <2>1. starts \in 0..MaxStarts /\ 0 \in 0..MaxFrames
    BY DEF FleetInit
  <2> QED
    BY <2>1 DEF FleetInit
<1>2. FleetTypeOK /\ [FleetNext]_fleetVars => FleetTypeOK'
  <2> SUFFICES ASSUME FleetTypeOK, [FleetNext]_fleetVars PROVE FleetTypeOK'
    OBVIOUS
  <2> endedBusy' \in BOOLEAN
    BY DEF FleetNext, ShutdownBusy, fleetVars
  <2> USE DEF endpoint, session
  <2>1. ASSUME NEW m \in Messages, Send(m) PROVE FleetTypeOK'
    BY <2>1 DEF Send
  <2>2. ASSUME NEW m \in Messages, Limited(m) \/ Duplicate(m) \/ RejectedByPolicy(m) \/ Fails(m)
        PROVE FleetTypeOK'
    BY <2>2 DEF Limited, Duplicate, RejectedByPolicy, Fails, Handled
  <2>3. ASSUME NEW m \in Messages, Accepted(m) PROVE FleetTypeOK'
    <3>1. received' \in [Messages -> Nat]
      BY <2>3 DEF Accepted
    <3>2. consumed' \in [transport : BOOLEAN, membership : BOOLEAN]
      BY <2>3 DEF Accepted
    <3> QED
      BY <2>3, <3>1, <3>2 DEF Accepted, Handled
  <2>4. ASSUME NEW m \in Messages, Persist(m) PROVE FleetTypeOK'
    BY <2>4 DEF Persist
  <2>a. ASSUME NEW l \in BOOLEAN, NEW a \in BOOLEAN, NEW c \in BOOLEAN, BeginStart(l, a, c),
               busy' \in BOOLEAN, handoff' \in Handoff \cup {None}
        PROVE  FleetTypeOK'
    <3>1. \E d \in BOOLEAN : consumed' = [transport |-> d, membership |-> d]
      BY <2>a DEF BeginStart
    <3>2. starts' \in 0..MaxStarts
      BY <2>a DEF BeginStart
    <3> QED
      BY <2>a, <3>1, <3>2 DEF BeginStart
  <2>b. ASSUME NEW n \in Phases, StopTransport(n), handoff' \in Handoff \cup {None}
        PROVE  FleetTypeOK'
    <3>1. frames' \in [Messages -> Nat]
      BY <2>b DEF StopTransport
    <3> QED
      BY <2>b, <3>1 DEF StopTransport
  <2>5. CASE Launch
    BY <2>5, <2>a DEF Launch
  <2>6. CASE Reload
    BY <2>6, <2>a DEF Reload
  <2>7. CASE StartAway \/ Started \/ SnapshotTaken
    BY <2>7 DEF StartAway, Started, SnapshotTaken
  <2>8. CASE StartFails \/ Leave \/ Drained
    BY <2>8, <2>b DEF StartFails, Leave, Drained
  <2>9. ASSUME NEW b \in BOOLEAN, SetAcceptsRequests(b) PROVE FleetTypeOK'
    BY <2>9 DEF SetAcceptsRequests
  <2>10. ASSUME NEW b \in BOOLEAN, Shutdown(b) \/ ShutdownBusy(b) PROVE FleetTypeOK'
    <3>1. LeftBehind(b) \in Handoff \cup {None}
      BY DEF LeftBehind
    <3>2. CASE Shutdown(b)
      BY <3>1, <3>2, <2>b DEF Shutdown
    <3>3. CASE ShutdownBusy(b)
      BY <3>1, <3>3 DEF ShutdownBusy
    <3> QED
      BY <2>10, <3>2, <3>3
  <2>11. ASSUME NEW a \in BOOLEAN, NEW b \in BOOLEAN, Join(a, b) PROVE FleetTypeOK'
    BY <2>11, <2>a DEF Join
  <2>12. CASE UNCHANGED fleetVars
    BY <2>12 DEF fleetVars
  <2> QED
    BY <2>1, <2>2, <2>3, <2>4, <2>5, <2>6, <2>7, <2>8, <2>9, <2>10, <2>11, <2>12 DEF FleetNext, FrameStep, SessionStep
<1> QED
  BY <1>1, <1>2, PTL DEF FleetSpec

-----------------------------------------------------------------------------
(***************************************************************************)
(* An endpoint that listens has been started, and a handoff is there only  *)
(* once the session is over for the controller.                            *)
(***************************************************************************)
LifeOrdered ==
    /\ phase # "ended" => starts > 0
    /\ handoff # None => starts > 0 /\ phase \in {"draining", "ended"}

(***************************************************************************)
(* Wherever a launched session keeps its one kickoff in mind, it knows of  *)
(* the one that was received: the transport while it listens, the          *)
(* membership until the session ends, the handoff until the reload.        *)
(***************************************************************************)
Kicked == \E k \in Kickoffs : received[k] > 0

KickoffKnown ==
    Kicked =>
      /\ starts > 0
      /\ Listening /\ launched => consumed.transport
      /\ phase \in {"starting", "connected"} /\ launched => consumed.membership
      /\ handoff # None /\ handoff.launched => handoff.consumed

(***************************************************************************)
(* A launched session starts at most one kickoff, once.                    *)
(***************************************************************************)
THEOREM KickoffCorrect == FleetSpec => []KickoffOnce
<1> DEFINE Inv == LifeOrdered /\ KickoffOnce /\ KickoffKnown
<1> USE DEF LifeOrdered, KickoffOnce, KickoffKnown, Kicked, Listening
<1>1. FleetInit => Inv
  BY DEF FleetInit
<1>2. FleetTypeOK /\ Inv /\ [FleetNext]_fleetVars => Inv'
  <2> SUFFICES ASSUME FleetTypeOK, Inv, [FleetNext]_fleetVars PROVE Inv'
    OBVIOUS
  <2> USE DEF endpoint, session
  <2>1. ASSUME NEW m \in Messages, Send(m) \/ Persist(m) PROVE Inv'
    BY <2>1 DEF Send, Persist
  <2>2. ASSUME NEW m \in Messages, Limited(m) \/ Duplicate(m) \/ RejectedByPolicy(m) \/ Fails(m)
        PROVE Inv'
    BY <2>2 DEF Limited, Duplicate, RejectedByPolicy, Fails, Handled
  <2>3. ASSUME NEW m \in Messages, Accepted(m) PROVE Inv'
    <3>1. Listening /\ UNCHANGED <<phase, handoff, starts, launched>>
      BY <2>3 DEF Accepted, Handled
    <3>2. CASE m \notin Kickoffs \/ phase = "draining"
      <4>1. \A k \in Kickoffs : received'[k] = received[k]
        BY <2>3, <3>2 DEF Accepted, FleetTypeOK
      <4>2. /\ consumed.transport => consumed'.transport
            /\ consumed.membership => consumed'.membership
        BY <2>3 DEF Accepted
      <4> QED
        BY <3>1, <4>1, <4>2
    <3>3. CASE m \in Kickoffs /\ phase # "draining"
      <4>1. launched /\ ~consumed.transport
        BY <2>3, <3>3 DEF Accepted, PolicyError
      <4>2. \A k \in Kickoffs : received[k] = 0
        BY <4>1, <3>1 DEF FleetTypeOK
      <4>3. \A k \in Kickoffs : received'[k] <= 1 /\ (received'[k] > 0 => k = m)
        BY <2>3, <3>3, <4>2 DEF Accepted, FleetTypeOK
      <4>4. consumed'.transport /\ consumed'.membership
        BY <2>3, <3>3 DEF Accepted
      <4>5. handoff = None /\ starts > 0
        BY <3>1, <3>3
      <4> QED
        BY <3>1, <4>3, <4>4, <4>5
    <3> QED
      BY <3>2, <3>3
  <2>4. CASE Launch
    BY <2>4 DEF Launch, BeginStart
  <2>a. ASSUME NEW l \in BOOLEAN, NEW a, NEW c \in BOOLEAN, BeginStart(l, a, c), Kicked /\ l => c,
               handoff' = None
        PROVE  Inv'
    <3>1. PICK d \in BOOLEAN : /\ consumed' = [transport |-> d, membership |-> d]
                               /\ c => d
      BY <2>a DEF BeginStart
    <3>2. starts' > 0 /\ phase' = "starting" /\ launched' = l /\ received' = received
      BY <2>a DEF BeginStart, FleetTypeOK
    <3> QED
      BY <2>a, <3>1, <3>2
  <2>5. CASE Reload
    <3>1. handoff \in Handoff /\ (Kicked /\ handoff.launched => handoff.consumed)
      BY <2>5 DEF Reload, FleetTypeOK
    <3> QED
      BY <2>5, <2>a, <3>1 DEF Reload, Handoff
  <2>6. CASE StartAway \/ Started \/ SnapshotTaken
    BY <2>6 DEF StartAway, Started, SnapshotTaken
  <2>7. CASE StartFails \/ Leave \/ Drained
    BY <2>7 DEF StartFails, Leave, Drained, StopTransport
  <2>8. ASSUME NEW b \in BOOLEAN, SetAcceptsRequests(b) PROVE Inv'
    BY <2>8 DEF SetAcceptsRequests
  <2>9. ASSUME NEW b \in BOOLEAN, Shutdown(b) \/ ShutdownBusy(b) PROVE Inv'
    <3>1. UNCHANGED <<starts, received, launched, consumed>>
      BY <2>9 DEF Shutdown, ShutdownBusy, StopTransport
    <3>2. phase' \in {"draining", "ended"} /\ phase # "ended" /\ handoff' = LeftBehind(b)
      BY <2>9 DEF Shutdown, ShutdownBusy, StopTransport
    <3>3. phase' = "draining" => Listening
      BY <2>9 DEF Shutdown, ShutdownBusy, StopTransport
    <3>4. Kicked /\ handoff' # None /\ handoff'.launched => handoff'.consumed
      BY <3>2 DEF LeftBehind
    <3> QED
      BY <3>1, <3>2, <3>3, <3>4
  <2>10. ASSUME NEW a \in BOOLEAN, NEW b \in BOOLEAN, Join(a, b) PROVE Inv'
    <3>1. handoff' = None
      BY <2>10 DEF Join
    <3> QED
      BY <2>10, <2>a, <3>1 DEF Join
  <2>11. CASE UNCHANGED fleetVars
    BY <2>11 DEF fleetVars
  <2> QED
    BY <2>1, <2>2, <2>3, <2>4, <2>5, <2>6, <2>7, <2>8, <2>9, <2>10, <2>11 DEF FleetNext, FrameStep, SessionStep
<1> QED
  BY <1>1, <1>2, FleetTypeCorrect, PTL DEF FleetSpec

-----------------------------------------------------------------------------
(***************************************************************************)
(* If a session never ends in the middle of a membership operation, an     *)
(* endpoint never outlives it, and a positive answer means that the        *)
(* session was handed the message.                                         *)
(***************************************************************************)
THEOREM AcksCorrect == FleetSpec => []AckedIsReceivedIfIdle
<1> DEFINE Idle ==
      /\ phase # "draining"
      /\ \A m \in dedup \cup branch : received[m] > 0
      /\ AckedIsReceived
<1> DEFINE Inv == ~endedBusy => Idle
<1> USE DEF AckedIsReceived
<1>1. FleetInit => Inv
  BY DEF FleetInit
<1>2. FleetTypeOK /\ Inv /\ [FleetNext]_fleetVars => Inv'
  <2> SUFFICES ASSUME FleetTypeOK, Idle, [FleetNext]_fleetVars, \A b \in BOOLEAN : ~ShutdownBusy(b)
               PROVE  Idle'
    BY DEF FleetNext, ShutdownBusy, fleetVars
  <2> USE DEF endpoint, session
  <2>1. ASSUME NEW m \in Messages, Send(m) \/ Persist(m) PROVE Idle'
    BY <2>1 DEF Send, Persist
  <2>2. ASSUME NEW m \in Messages, Limited(m) \/ RejectedByPolicy(m) \/ Fails(m) PROVE Idle'
    <3>1. \/ acks' = [acks EXCEPT ![m] = @ \cup {"busy"}]
          \/ acks' = [acks EXCEPT ![m] = @ \cup {"rejected"}]
      BY <2>2 DEF Limited, RejectedByPolicy, Fails, Handled
    <3>2. \A n \in Messages : acks'[n] \cap {"accepted", "duplicate"} = acks[n] \cap {"accepted", "duplicate"}
      BY <3>1 DEF FleetTypeOK
    <3>3. UNCHANGED <<phase, dedup, branch, received>>
      BY <2>2 DEF Limited, RejectedByPolicy, Fails, Handled
    <3> QED
      BY <3>2, <3>3
  <2>3. ASSUME NEW m \in Messages, Duplicate(m) PROVE Idle'
    <3>1. received[m] > 0 /\ UNCHANGED <<phase, dedup, branch, received>>
      BY <2>3 DEF Duplicate, Handled
    <3>2. \A n \in Messages : n # m => acks'[n] = acks[n]
      BY <2>3 DEF Duplicate, Handled, FleetTypeOK
    <3> QED
      BY <3>1, <3>2
  <2>4. ASSUME NEW m \in Messages, Accepted(m) PROVE Idle'
    <3>1. received' = [received EXCEPT ![m] = @ + 1] /\ dedup' = dedup \cup {m}
      BY <2>4 DEF Accepted
    <3>2. received'[m] > 0 /\ \A n \in Messages : n # m => received'[n] = received[n]
      BY <3>1 DEF FleetTypeOK
    <3>3. UNCHANGED <<phase, branch>> /\ \A n \in Messages : n # m => acks'[n] = acks[n]
      BY <2>4 DEF Accepted, Handled, FleetTypeOK
    <3> QED
      BY <3>1, <3>2, <3>3 DEF FleetTypeOK
  <2>5. CASE Launch \/ Reload
    BY <2>5 DEF Launch, Reload, BeginStart
  <2>6. CASE StartAway \/ Started \/ SnapshotTaken
    BY <2>6 DEF StartAway, Started, SnapshotTaken
  <2>7. CASE StartFails \/ Leave \/ Drained
    BY <2>7 DEF StartFails, Leave, Drained, StopTransport
  <2>8. ASSUME NEW b \in BOOLEAN, SetAcceptsRequests(b) PROVE Idle'
    BY <2>8 DEF SetAcceptsRequests
  <2>9. ASSUME NEW b \in BOOLEAN, Shutdown(b) PROVE Idle'
    BY <2>9 DEF Shutdown, StopTransport
  <2>10. ASSUME NEW a \in BOOLEAN, NEW b \in BOOLEAN, Join(a, b) PROVE Idle'
    BY <2>10 DEF Join, BeginStart
  <2>11. CASE UNCHANGED fleetVars
    BY <2>11 DEF fleetVars
  <2> QED
    BY <2>1, <2>2, <2>3, <2>4, <2>5, <2>6, <2>7, <2>8, <2>9, <2>10, <2>11 DEF FleetNext, FrameStep, SessionStep
<1> QED
  BY <1>1, <1>2, FleetTypeCorrect, PTL DEF FleetSpec, AckedIsReceivedIfIdle
=============================================================================

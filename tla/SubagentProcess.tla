-------------------------- MODULE SubagentProcess --------------------------
(***************************************************************************)
(* One child process of pi-subagents: spawn, the RPC commands sent to it,  *)
(* its events, its termination and the classification of its outcome.      *)
(*                                                                         *)
(* Source: executeProcess in packages/pi-subagents/src/process.ts.         *)
(*                                                                         *)
(* Every handler of the process, of its pipes, of a timer and of the       *)
(* job's abort signal is one step.  What the child and the operating       *)
(* system do is free: any exit, any order of the child's events, any pipe  *)
(* error.                                                                  *)
(***************************************************************************)
CONSTANTS
    HasTimeout,  \* request.timeout !== undefined
    Steers       \* calls of ChildControl.send

ASSUME ProcessAssumption == HasTimeout \in BOOLEAN

VARIABLES
    windows,    \* process.platform === "win32"; it never changes
    child,      \* none, starting, alive, exited (close to come), closed, failed
    killed,     \* SIGKILL was sent, or taskkill has ended
    aborted,    \* request.signal.aborted
    spawned, terminating, finishRequested, settled,
    cancelled, timedOut, completed, ready,
    timers,     \* which of deadline, escalation and forceClose are set
    termination,  \* the promise of terminateWindowsProcessTree
    inputFailed,  \* rpcInputError
    prompt,     \* the prompt command
    steer,      \* the steer commands
    turn,       \* what the child's events said so far
    outcome     \* the state executeProcess resolved with

flags == <<spawned, terminating, finishRequested, settled, cancelled, timedOut,
           completed, ready>>

vars == <<child, killed, aborted, flags, timers, termination, inputFailed,
          prompt, steer, turn, outcome>>

allVars == <<windows, vars>>

-----------------------------------------------------------------------------

Command == {"idle", "pending", "accepted", "rejected"}

(***************************************************************************)
(* turn: terminalStopReason, whether there is output, assistantFailed, and *)
(* whether errorMessage is set.                                            *)
(***************************************************************************)
Turn == [stop : {"none", "stop", "length"}, output : BOOLEAN,
         failed : BOOLEAN, error : BOOLEAN]

FlagsTyped ==
    /\ killed \in BOOLEAN /\ aborted \in BOOLEAN /\ inputFailed \in BOOLEAN
    /\ spawned \in BOOLEAN /\ terminating \in BOOLEAN /\ ready \in BOOLEAN
    /\ finishRequested \in BOOLEAN /\ settled \in BOOLEAN
    /\ cancelled \in BOOLEAN /\ timedOut \in BOOLEAN /\ completed \in BOOLEAN

TypeOK ==
    /\ FlagsTyped
    /\ child \in {"none", "starting", "alive", "exited", "closed", "failed"}
    /\ timers \subseteq {"deadline", "escalation", "forceClose"}
    /\ termination \in {"none", "pending", "done"}
    /\ prompt \in Command
    /\ steer \in [Steers -> Command]
    /\ turn \in Turn
    /\ outcome \in {"none", "completed", "partial", "failed", "cancelled", "timed_out"}

Init ==
    /\ windows \in BOOLEAN
    /\ child = "none" /\ killed = FALSE /\ aborted = FALSE
    /\ spawned = FALSE /\ terminating = FALSE
    /\ finishRequested = FALSE /\ settled = FALSE
    /\ cancelled = FALSE /\ timedOut = FALSE /\ completed = FALSE /\ ready = FALSE
    /\ timers = {}
    /\ termination = "none"
    /\ inputFailed = FALSE
    /\ prompt = "idle"
    /\ steer = [s \in Steers |-> "idle"]
    /\ turn = [stop |-> "none", output |-> FALSE, failed |-> FALSE, error |-> FALSE]
    /\ outcome = "none"

-----------------------------------------------------------------------------
(***************************************************************************)
(* Pieces of the handlers.                                                 *)
(***************************************************************************)
Rejected(cmd) == IF cmd = "pending" THEN "rejected" ELSE cmd

RejectPendingCommands ==
    /\ prompt' = Rejected(prompt)
    /\ steer' = [s \in Steers |-> Rejected(steer[s])]

\* Mutant: a timeout is reported although the job was cancelled as well.
ClassifiedByTimeout(isCancelled) ==
    IF timedOut THEN "timed_out"
    ELSE IF isCancelled THEN "cancelled"
    ELSE IF completed /\ turn.stop = "stop" /\ ~turn.failed /\ ~turn.error
         THEN "completed"
    ELSE IF turn.output THEN "partial" ELSE "failed"

\* The result after the settlement; cancelled comes first.
Classified(isCancelled) ==
    IF isCancelled THEN "cancelled"
    ELSE IF timedOut THEN "timed_out"
    ELSE IF completed /\ turn.stop = "stop" /\ ~turn.failed /\ ~turn.error
         THEN "completed"
    ELSE IF turn.output THEN "partial" ELSE "failed"

\* complete(), inside finish.
Complete ==
    /\ settled' = TRUE
    /\ timers' = {}
    /\ RejectPendingCommands
    /\ outcome' = Classified(cancelled)

\* Mutant: the end of the process tree is not waited for.
FinishAtOnce(rest) ==
    IF settled \/ finishRequested
    THEN timers' = rest /\ UNCHANGED <<finishRequested, settled, prompt, steer, outcome>>
    ELSE finishRequested' = TRUE /\ Complete

\* finish(): it completes at once, unless a termination promise is there.
\* rest: the timers that stay set when it does not.
Finish(rest) ==
    IF settled \/ finishRequested
    THEN timers' = rest /\ UNCHANGED <<finishRequested, settled, prompt, steer, outcome>>
    ELSE /\ finishRequested' = TRUE
         /\ IF termination = "none" THEN Complete
            ELSE timers' = rest /\ UNCHANGED <<settled, prompt, steer, outcome>>

\* Mutant: only the escalation is armed, and the pipes are never given up.
TerminateWithoutForce ==
    IF settled \/ terminating
    THEN UNCHANGED <<terminating, timers, termination>>
    ELSE /\ terminating' = TRUE
         /\ timers' = (timers \ {"deadline"}) \cup (IF windows THEN {} ELSE {"escalation"})
         /\ termination' = IF windows THEN "pending" ELSE "none"

(***************************************************************************)
(* terminate(): SIGTERM and the two timers, or taskkill and one timer.     *)
(***************************************************************************)
Terminate ==
    IF settled \/ terminating
    THEN UNCHANGED <<terminating, timers, termination>>
    ELSE /\ terminating' = TRUE
         /\ timers' = (timers \ {"deadline"}) \cup {"forceClose"}
                        \cup (IF windows THEN {} ELSE {"escalation"})
         /\ termination' = IF windows THEN "pending" ELSE "none"

\* The error is noted, and the process is terminated with code 1.
FailWithMessage ==
    /\ turn' = [turn EXCEPT !.error = TRUE]
    /\ Terminate

\* The catch of the prompt command.
PromptRejected ==
    IF settled \/ terminating THEN UNCHANGED <<turn, terminating, timers, termination>>
    ELSE FailWithMessage

-----------------------------------------------------------------------------
(***************************************************************************)
(* Start.                                                                  *)
(***************************************************************************)
\* spawn threw: finish(1, launchError).
SpawnThrows ==
    /\ child = "none"
    /\ ~finishRequested
    /\ Finish(timers)
    /\ child' = "failed"
    /\ UNCHANGED <<killed, aborted, spawned, terminating, cancelled, timedOut,
                   completed, ready, termination, inputFailed, turn>>

\* spawn returned; the credential pipe is there and took the credentials, or
\* the process is terminated at once.
Spawn ==
    /\ child = "none"
    /\ child' = "starting"
    /\ \/ UNCHANGED <<turn, terminating, timers, termination>>
       \/ FailWithMessage
    /\ UNCHANGED <<killed, aborted, spawned, finishRequested, settled, cancelled,
                   timedOut, completed, ready, inputFailed, prompt, steer, outcome>>

\* The "error" event of a process that never started.
SpawnFails ==
    /\ child = "starting"
    /\ child' = "failed"
    /\ Finish(timers)
    /\ turn' = [turn EXCEPT !.error = TRUE]
    /\ UNCHANGED <<killed, aborted, spawned, terminating, cancelled, timedOut,
                   completed, ready, termination, inputFailed>>

\* The "spawn" event: the task is sent as the prompt, if that is possible.
SpawnEvent ==
    /\ child = "starting"
    /\ child' = "alive"
    /\ spawned' = TRUE
    /\ IF settled \/ cancelled
       THEN UNCHANGED <<prompt, turn, terminating, timers, termination>>
       ELSE IF terminating \/ inputFailed
       THEN prompt' = "rejected" /\ PromptRejected
       ELSE prompt' = "pending" /\ UNCHANGED <<turn, terminating, timers, termination>>
    /\ UNCHANGED <<killed, aborted, finishRequested, settled, cancelled, timedOut,
                   completed, ready, inputFailed, steer, outcome>>

-----------------------------------------------------------------------------
(***************************************************************************)
(* Commands.  Output is read until the pipes are closed or given up, also  *)
(* after the child has exited.                                             *)
(***************************************************************************)
Readable == child \in {"alive", "exited"} /\ ~settled

\* onAccepted of the prompt: the deadline starts, and the job gets control.
PromptAccepted ==
    /\ Readable
    /\ prompt = "pending"
    /\ IF terminating \/ aborted
       THEN prompt' = "rejected" /\ UNCHANGED <<ready, timers>>
       ELSE /\ prompt' = "accepted"
            /\ ready' = TRUE
            /\ timers' = timers \cup (IF HasTimeout THEN {"deadline"} ELSE {})
    /\ UNCHANGED <<child, killed, aborted, spawned, terminating, finishRequested,
                   settled, cancelled, timedOut, completed, termination,
                   inputFailed, steer, turn, outcome>>

\* An error response, or none within RPC_RESPONSE_TIMEOUT_MS.
PromptFails ==
    /\ prompt = "pending"
    /\ prompt' = "rejected"
    /\ PromptRejected
    /\ UNCHANGED <<child, killed, aborted, spawned, finishRequested, settled,
                   cancelled, timedOut, completed, ready, inputFailed, steer, outcome>>

\* An error of stdin rejects every command, now and later.
InputFails ==
    /\ child \in {"alive", "exited"}
    /\ ~inputFailed
    /\ inputFailed' = TRUE
    /\ RejectPendingCommands
    /\ IF prompt = "pending" THEN PromptRejected
       ELSE UNCHANGED <<turn, terminating, timers, termination>>
    /\ UNCHANGED <<child, killed, aborted, spawned, finishRequested, settled,
                   cancelled, timedOut, completed, ready, outcome>>

\* A child ended by a signal has no exit code, and still seems active.
CanSteer == /\ ready /\ ~completed /\ ~terminating /\ ~settled
            /\ child \in {"alive", "exited"} /\ ~inputFailed

SendSteer(s) ==
    /\ ready
    /\ steer[s] = "idle"
    /\ \E answer \in {"rejected"} \cup (IF CanSteer THEN {"pending"} ELSE {}) :
          steer' = [steer EXCEPT ![s] = answer]
    /\ UNCHANGED <<child, killed, aborted, flags, timers, termination, inputFailed,
                   prompt, turn, outcome>>

SteerAnswered(s) ==
    /\ Readable
    /\ steer[s] = "pending"
    /\ steer' = [steer EXCEPT ![s] = "accepted"]
    /\ UNCHANGED <<child, killed, aborted, flags, timers, termination, inputFailed,
                   prompt, turn, outcome>>

SteerRejected(s) ==
    /\ steer[s] = "pending"
    /\ steer' = [steer EXCEPT ![s] = "rejected"]
    /\ UNCHANGED <<child, killed, aborted, flags, timers, termination, inputFailed,
                   prompt, turn, outcome>>

-----------------------------------------------------------------------------
(***************************************************************************)
(* Events of the child.                                                    *)
(***************************************************************************)
\* message_end of the assistant.
MessageEnd ==
    /\ Readable
    /\ \E stop \in {"none", "stop", "length"}, text, failed, error \in BOOLEAN :
          turn' = [stop |-> IF text /\ stop # "none" THEN stop ELSE turn.stop,
                   output |-> turn.output \/ text,
                   failed |-> turn.failed \/ failed,
                   error |-> turn.error \/ error]
    /\ UNCHANGED <<child, killed, aborted, flags, timers, termination, inputFailed,
                   prompt, steer, outcome>>

CompletesNormally == ~settled /\ ~terminating /\ ready

\* agent_settled: completeNormally.
AgentSettled ==
    /\ Readable
    /\ CompletesNormally
    /\ completed' = TRUE
    /\ Terminate
    /\ UNCHANGED <<child, killed, aborted, spawned, finishRequested, settled,
                   cancelled, timedOut, ready, inputFailed, prompt, steer, turn,
                   outcome>>

-----------------------------------------------------------------------------
(***************************************************************************)
(* Ends.                                                                   *)
(***************************************************************************)
\* The job's signal: onAbort, then the abort listener of the prompt.
Abort ==
    /\ ~aborted
    /\ child # "none"
    /\ aborted' = TRUE
    /\ IF settled
       THEN UNCHANGED <<cancelled, terminating, timers, termination, prompt>>
       ELSE cancelled' = TRUE /\ Terminate /\ prompt' = Rejected(prompt)
    /\ UNCHANGED <<child, killed, spawned, finishRequested, settled, timedOut,
                   completed, ready, inputFailed, steer, turn, outcome>>

DeadlineFires ==
    /\ "deadline" \in timers
    /\ timedOut' = TRUE
    /\ IF terminating
       THEN timers' = timers \ {"deadline"} /\ UNCHANGED <<terminating, termination>>
       ELSE Terminate
    /\ UNCHANGED <<child, killed, aborted, spawned, finishRequested, settled,
                   cancelled, completed, ready, inputFailed, prompt, steer, turn,
                   outcome>>

\* The "error" event of a running process, or of the credential pipe.
ProcessError ==
    /\ child \in {"starting", "alive", "exited"}
    /\ ~settled
    /\ FailWithMessage
    /\ UNCHANGED <<child, killed, aborted, spawned, finishRequested, settled,
                   cancelled, timedOut, completed, ready, inputFailed, prompt,
                   steer, outcome>>

\* The process exits: by itself, or killed.
ChildExits ==
    /\ child = "alive"
    /\ child' = "exited"
    /\ UNCHANGED <<killed, aborted, flags, timers, termination, inputFailed, prompt,
                   steer, turn, outcome>>

\* The "close" event: the process exited, and its pipes are closed.
Close ==
    /\ child = "exited"
    /\ child' = "closed"
    /\ Finish(timers)
    /\ UNCHANGED <<killed, aborted, spawned, terminating, cancelled, timedOut,
                   completed, ready, termination, inputFailed, turn>>

\* The grace period is over: SIGKILL to the process group.
Escalate ==
    /\ "escalation" \in timers
    /\ timers' = timers \ {"escalation"}
    /\ killed' = TRUE
    /\ UNCHANGED <<child, aborted, flags, termination, inputFailed, prompt, steer,
                   turn, outcome>>

\* The pipes do not close: the second timer gives them up.  It is set for
\* twice the grace period, so the escalation comes first.
ForceClose ==
    /\ "forceClose" \in timers
    /\ "escalation" \notin timers
    /\ Finish(timers \ {"forceClose"})
    /\ UNCHANGED <<child, killed, aborted, spawned, terminating, cancelled, timedOut,
                   completed, ready, termination, inputFailed, turn>>

\* taskkill ended, could not be started, or was given up after the grace
\* period; the child itself is killed then.
TerminationSettles ==
    /\ termination = "pending"
    /\ termination' = "done"
    /\ killed' = TRUE
    /\ UNCHANGED <<child, aborted, flags, timers, inputFailed, prompt, steer, turn,
                   outcome>>

\* termination.then(complete, complete).
CompletesAfterTermination ==
    /\ finishRequested /\ ~settled
    /\ termination = "done"
    /\ Complete
    /\ UNCHANGED <<child, killed, aborted, spawned, terminating, finishRequested,
                   cancelled, timedOut, completed, ready, termination, inputFailed,
                   turn>>

-----------------------------------------------------------------------------
Step ==
    \/ SpawnThrows \/ Spawn \/ SpawnFails \/ SpawnEvent
    \/ PromptAccepted \/ PromptFails \/ InputFails
    \/ \E s \in Steers : SendSteer(s) \/ SteerAnswered(s) \/ SteerRejected(s)
    \/ MessageEnd \/ AgentSettled
    \/ Abort \/ DeadlineFires \/ ProcessError
    \/ ChildExits \/ Close \/ Escalate \/ ForceClose
    \/ TerminationSettles \/ CompletesAfterTermination

Next == Step /\ UNCHANGED windows

Spec == Init /\ [][Next]_allVars

-----------------------------------------------------------------------------
(***************************************************************************)
(* Safety.                                                                 *)
(***************************************************************************)
(***************************************************************************)
(* A child is never both timed out and completed, whichever of its last    *)
(* event and its deadline comes first; the deadline runs only while the    *)
(* child works, and never outlives a termination.                          *)
(***************************************************************************)
OneCause ==
    /\ ~(timedOut /\ completed)
    /\ "deadline" \in timers => ready /\ ~terminating

(***************************************************************************)
(* Once the result is there, nothing is left behind: no timer is set, and  *)
(* every command has been answered, so no caller of send hangs.            *)
(***************************************************************************)
SettledLeavesNothing ==
    settled => /\ timers = {}
               /\ prompt # "pending"
               /\ \A s \in Steers : steer[s] # "pending"

(***************************************************************************)
(* A job is not reported as over while its child runs unharmed: when the   *)
(* result comes before the close of the process, the child was killed.     *)
(***************************************************************************)
AbandonedOnlyIfKilled == settled /\ child \in {"starting", "alive"} => killed

(***************************************************************************)
(* Only a child that accepted its task can complete: an early settlement   *)
(* event does not count as the end of the task.                            *)
(***************************************************************************)
CompletionFollowsPrompt ==
    completed \/ outcome = "completed" => prompt = "accepted" /\ completed

(***************************************************************************)
(* The end of a child is sound: one cause, nothing left behind, no child   *)
(* given up unharmed, no completion without a task.                        *)
(***************************************************************************)
EndsAreSound ==
    OneCause /\ SettledLeavesNothing /\ AbandonedOnlyIfKilled /\ CompletionFollowsPrompt

\* The runtime's view of the child.
Contract == INSTANCE ChildContract WITH
    control <- ready,
    steered <- {s \in Steers : steer[s] = "accepted"}

(***************************************************************************)
(* The process keeps the contract the runtime relies on.                   *)
(***************************************************************************)
MeetsContract == Contract!ContractSpec

-----------------------------------------------------------------------------
(***************************************************************************)
(* The inductive invariant behind the safety properties.                   *)
(***************************************************************************)
\* The flags of an end follow each other.
EndsInOrder ==
    /\ settled <=> outcome # "none"
    /\ settled => finishRequested
    /\ child \in {"closed", "failed"} => finishRequested
    /\ termination # "none" => terminating
    /\ termination = "done" => killed
    /\ "forceClose" \in timers => terminating
    /\ cancelled \/ timedOut \/ completed => terminating
    /\ cancelled => aborted
    /\ aborted /\ ~settled => cancelled

\* Commands and control come with the prompt.
CommandsFollowPrompt ==
    /\ prompt = "accepted" <=> ready
    /\ spawned <=> child \in {"alive", "exited", "closed"}
    /\ prompt # "idle" => spawned
    /\ \A s \in Steers : steer[s] # "idle" => ready

\* The end of the process is known, or the child was killed.
EndsAreSeen ==
    /\ child = "none" => ~terminating /\ ~finishRequested
    /\ finishRequested /\ child \in {"starting", "alive"} /\ termination = "none" => killed
    /\ terminating /\ ~settled /\ termination = "none" =>
          "escalation" \in timers \/ killed

IInv ==
    /\ TypeOK
    /\ EndsInOrder
    /\ CommandsFollowPrompt
    /\ EndsAreSeen
    /\ OneCause
    /\ SettledLeavesNothing
    /\ AbandonedOnlyIfKilled
    /\ CompletionFollowsPrompt

-----------------------------------------------------------------------------
(***************************************************************************)
(* Liveness.  Timers fire, spawn reports its success or failure, taskkill  *)
(* is given up after a grace period.  Nothing is assumed of the child: it  *)
(* may never answer, never exit and never close its pipes.                 *)
(***************************************************************************)
Fairness ==
    /\ WF_vars(SpawnThrows \/ Spawn)
    /\ WF_vars(SpawnEvent \/ SpawnFails)
    /\ WF_vars(PromptFails)
    /\ \A s \in Steers : WF_vars(SteerRejected(s))
    /\ WF_vars(DeadlineFires)
    /\ WF_vars(Escalate)
    /\ WF_vars(ForceClose)
    /\ WF_vars(TerminationSettles)
    /\ WF_vars(CompletesAfterTermination)

FairSpec == Spec /\ Fairness

(***************************************************************************)
(* The runtime's part of the contract: an aborted child is over some time, *)
(* whatever it does.                                                       *)
(***************************************************************************)
AbortResolves == Contract!AbortResolves

(***************************************************************************)
(* The child is ready or over some time, a child with a timeout is over    *)
(* some time, every steering command is answered, and an abort resolves.   *)
(***************************************************************************)
NeverStuck ==
    /\ <>(ready \/ settled)
    /\ HasTimeout => <>settled
    /\ \A s \in Steers : steer[s] = "pending" ~> steer[s] # "pending"
    /\ AbortResolves

=============================================================================

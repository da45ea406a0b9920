-------------------------- MODULE SubagentRuntime --------------------------
(***************************************************************************)
(* The job runtime of pi-subagents, composed with the message broker: jobs *)
(* from spawn to completion, cancellation and session shutdown, and the    *)
(* requests the main agent sends to a running child.                       *)
(*                                                                         *)
(* Source: packages/pi-subagents/src/runtime.ts, and the session lifecycle *)
(* of tools.ts.  The variables of the broker are those of SubagentBroker;  *)
(* the steps here call its operations, and its server, its timers and the  *)
(* children's connections go on beside them.                               *)
(*                                                                         *)
(* A step runs from one await to the next.  The child process is seen      *)
(* through runChild: it may become ready, it accepts or refuses steering   *)
(* messages, and it ends.                                                  *)
(***************************************************************************)
EXTENDS SubagentBroker, Sequences

CONSTANTS
    MaxSends,         \* bound of the model: calls of sendToJob
    MaxGeneration,    \* bound of the model: two for each session
    MaxActiveJobs,    \* MAX_ACTIVE_JOBS
    MaxRetainedJobs   \* MAX_RETAINED_TERMINAL_JOBS

ASSUME RuntimeAssumption ==
    /\ MaxSends \in Nat
    /\ MaxGeneration \in Nat
    /\ MaxActiveJobs \in Nat
    /\ MaxRetainedJobs \in Nat

VARIABLES
    lifecycle,      \* the head of the lifecycle queue of tools.ts
    sessionActive,  \* deliveryEnabled is set and cleared together with it
    generation,
    job,            \* the InternalJob records
    terminalJobs,   \* the terminal jobs kept in the Map, oldest first
    published,      \* completions handed to pi.sendMessage, per job
    send,           \* the calls of sendToJob, in the order they were made
    waitFor         \* the job each suspended subagent_wait names

runtimeVars == <<lifecycle, sessionActive, generation, job, terminalJobs,
                 published, send, waitFor>>

allVars == <<vars, runtimeVars>>

-----------------------------------------------------------------------------

SendIds == 1..MaxSends

(***************************************************************************)
(* A job.                                                                  *)
(*   task     the promise of its task: not begun, in runChild, or settled  *)
(*   stop     stopRequest: none, or what its deliver flag says             *)
(*   control  onControl gave the runtime a ChildControl                    *)
(***************************************************************************)
Active == {"queued", "running"}

Terminal == {"completed", "partial", "failed", "cancelled", "timed_out"}

Job == [state : {"new"} \cup Active \cup Terminal,
        task : {"none", "scheduled", "child", "settled"},
        stop : {"none", "deliver", "silent"},
        control : BOOLEAN,
        generation : Nat]

(***************************************************************************)
(* A call of sendToJob.                                                    *)
(*   chained     waits for the previous send of the job to settle          *)
(*   control     waits for controlReady                                    *)
(*   delivering  control.send is under way                                 *)
(*   queued      the steering message was accepted and marked              *)
(*   failed      the operation was rejected                                *)
(* aborted: the caller cancelled the call before delivery started.         *)
(***************************************************************************)
Unsettled == {"chained", "control", "delivering"}

Send == [pc : {"unused", "queued", "failed"} \cup Unsettled,
         job : Jobs,
         request : OptionalId,
         aborted : BOOLEAN]

RuntimeTypeOK ==
    /\ lifecycle \in {"idle", "closing", "reopening", "beginning", "starting"}
    /\ sessionActive \in BOOLEAN
    /\ generation \in Nat
    /\ job \in [Jobs -> Job]
    /\ terminalJobs \in Seq(Jobs)
    /\ Len(terminalJobs) <= MaxRetainedJobs
    /\ published \in [Jobs -> Nat]
    /\ send \in [SendIds -> Send]
    /\ waitFor \in [MainWaits -> Jobs]

NewJob == [state |-> "new", task |-> "none", stop |-> "none",
           control |-> FALSE, generation |-> 0]

UnusedSend == [pc |-> "unused", job |-> SomeJob, request |-> 0, aborted |-> FALSE]

RuntimeInit ==
    /\ Init
    /\ lifecycle = "idle"
    /\ sessionActive = FALSE
    /\ generation = 0
    /\ job = [j \in Jobs |-> NewJob]
    /\ terminalJobs = <<>>
    /\ published = [j \in Jobs |-> 0]
    /\ send = [s \in SendIds |-> UnusedSend]
    /\ waitFor = [w \in MainWaits |-> SomeJob]

-----------------------------------------------------------------------------
(***************************************************************************)
(* Questions the runtime asks of its jobs and sends.                       *)
(***************************************************************************)
IsTerminal(j) == job[j].state \in Terminal

IsActive(j) == job[j].state \in Active

RunningJobs == {j \in Jobs : IsActive(j)}

Stopped(j) == job[j].stop # "none"

\* The job belongs to the session that the runtime serves now.
Current(j) == job[j].generation = generation

\* The check a send repeats after each of its awaits.
AcceptsMessages(j) == IsActive(j) /\ ~Stopped(j) /\ Current(j)

(***************************************************************************)
(* prune: the terminal jobs that may be left of T.  The oldest go, the     *)
(* surplus always, others when 24 hours have passed since they finished.   *)
(***************************************************************************)
Pruned(T) ==
    {SubSeq(T, n + 1, Len(T)) :
        n \in {n \in 0..Len(T) : Len(T) - n <= MaxRetainedJobs}}

\* job.sendQueue as s found it: the operation of the send made just before.
PreviousSettled(s) ==
    \A t \in 1..(s - 1) :
        /\ send[t].job = send[s].job
        /\ \A u \in (t + 1)..(s - 1) : send[u].job # send[s].job
        => send[t].pc \notin Unsettled

\* Mutant: finish forgets to reject the promise.
ControlGiven(j) == job[j].control

\* controlReady was resolved by onControl, or rejected by finish.
ControlSettled(j) == job[j].control \/ IsTerminal(j)

-----------------------------------------------------------------------------
(***************************************************************************)
(* Calls of the broker that may have nothing left to do.                   *)
(***************************************************************************)
RevokeAny(S) ==
    IF S \cap ActiveJobs = {} THEN UNCHANGED vars ELSE RevokeJobs(S \cap ActiveJobs)

\* Mutant: a request that was answered meanwhile is taken back as well.
RollbackAnswered(r) ==
    IF r \in live
    THEN /\ live' = live \ {r}
         /\ UNCHANGED <<service, jobState, nextId, req, clock, conn,
                        pendingInboundResponse, listeners, received>>
    ELSE UNCHANGED vars

RollbackAny(r) ==
    IF CanRollBack(r) THEN RollbackMainRequest(r) ELSE UNCHANGED vars

ShutdownBroker == IF service = "down" THEN UNCHANGED vars ELSE Shutdown

-----------------------------------------------------------------------------
(***************************************************************************)
(* Jobs.                                                                   *)
(***************************************************************************)
StartJob(j) ==
    /\ sessionActive
    /\ Cardinality(RunningJobs) < MaxActiveJobs
    /\ IssueCredentials(j)
    /\ job' = [job EXCEPT ![j] = [NewJob EXCEPT !.state = "queued",
                                                !.task = "scheduled",
                                                !.generation = generation]]
    /\ terminalJobs' \in Pruned(terminalJobs)
    /\ UNCHANGED <<lifecycle, sessionActive, generation, published, send, waitFor>>

\* Mutant: the end of the session does not stop the delivery.
DeliversAlways(j, deliver) == deliver /\ published[j] = 0 /\ Current(j)

\* The guards of deliver.
Delivers(j, deliver) ==
    deliver /\ sessionActive /\ published[j] = 0 /\ Current(j)

(***************************************************************************)
(* finish, at the end of the job's task.  stop calls it too, for a task    *)
(* that settled without it; SettledTasksFinished says there is none.       *)
(***************************************************************************)
Finish(j, state, deliver) ==
    /\ job' = [job EXCEPT ![j].state = state, ![j].task = "settled"]
    /\ RevokeAny({j})
    /\ published' = IF Delivers(j, deliver)
                    THEN [published EXCEPT ![j] = @ + 1] ELSE published
    /\ terminalJobs' \in Pruned(Append(terminalJobs, j))
    /\ UNCHANGED <<lifecycle, sessionActive, generation, send, waitFor>>

\* The task returns early: the job is not one of the session any more.
TaskReturns(j) ==
    /\ job' = [job EXCEPT ![j].task = "settled"]
    /\ UNCHANGED <<vars, lifecycle, sessionActive, generation, terminalJobs,
                   published, send, waitFor>>

\* The task calls runChild.
ChildStarts(j) ==
    /\ job' = [job EXCEPT ![j].state = "running", ![j].task = "child"]
    /\ UNCHANGED <<vars, lifecycle, sessionActive, generation, terminalJobs,
                   published, send, waitFor>>

TaskBegins(j) ==
    /\ job[j].task = "scheduled"
    /\ IF ~Current(j) THEN TaskReturns(j)
       ELSE IF Stopped(j) THEN Finish(j, "cancelled", job[j].stop = "deliver")
       ELSE ChildStarts(j)

\* onControl: the child accepted its prompt and can be steered.
ChildReady(j) ==
    /\ job[j].task = "child"
    /\ ~job[j].control
    /\ AcceptsMessages(j)
    /\ job' = [job EXCEPT ![j].control = TRUE]
    /\ UNCHANGED <<vars, lifecycle, sessionActive, generation, terminalJobs,
                   published, send, waitFor>>

\* stopRequest ?? child.
Outcome(j, outcome) == IF Stopped(j) THEN "cancelled" ELSE outcome

\* runChild resolves; it reports a cancellation only after an abort.
ChildEnds(j, outcome) ==
    /\ job[j].task = "child"
    /\ outcome = "cancelled" => Stopped(j)
    /\ IF ~Current(j) THEN TaskReturns(j)
       ELSE Finish(j, Outcome(j, outcome), job[j].stop # "silent")

\* stop for the jobs of S, up to its await of their tasks.
Stop(S, how) ==
    /\ job' = [j \in Jobs |-> IF j \in S /\ ~Stopped(j)
                              THEN [job[j] EXCEPT !.stop = how] ELSE job[j]]
    /\ RevokeAny(S)

Cancel(j) ==
    /\ IsActive(j)
    /\ Stop({j}, "deliver")
    /\ terminalJobs' \in Pruned(terminalJobs)
    /\ UNCHANGED <<lifecycle, sessionActive, generation, published, send, waitFor>>

\* inspectJobs, and every call that prunes and then throws.
InspectJobs ==
    /\ terminalJobs' \in Pruned(terminalJobs)
    /\ UNCHANGED <<vars, lifecycle, sessionActive, generation, job, published,
                   send, waitFor>>

-----------------------------------------------------------------------------
(***************************************************************************)
(* The session lifecycle.  tools.ts runs one operation after the other:    *)
(*   closing, reopening  runtime.shutdown waits for the stopped jobs       *)
(*   beginning           runtime and broker are down, a session follows    *)
(*   starting            broker.start waits for the server                 *)
(***************************************************************************)
\* runtime.shutdown of an active session, up to its await.
CloseSession(next) ==
    /\ lifecycle = "idle"
    /\ sessionActive
    /\ next = "reopening" => generation + 2 <= MaxGeneration
    /\ lifecycle' = next
    /\ sessionActive' = FALSE
    /\ Stop(RunningJobs, "silent")
    /\ UNCHANGED <<generation, terminalJobs, published, send, waitFor>>

\* Mutant: queued jobs are not waited for.
NoneRuns == \A j \in Jobs : job[j].state # "running"

AllStopsSettled == RunningJobs = {}

\* The rest of runtime.shutdown, and broker.shutdown.
SessionClosed ==
    /\ lifecycle \in {"closing", "reopening"}
    /\ AllStopsSettled
    /\ generation' = generation + 1
    /\ lifecycle' = IF lifecycle = "closing" THEN "idle" ELSE "beginning"
    /\ ShutdownBroker
    /\ UNCHANGED <<sessionActive, job, terminalJobs, published, send, waitFor>>

\* startSession when there is no session to shut down first.
OpenSession ==
    /\ lifecycle = "idle"
    /\ ~sessionActive
    /\ generation < MaxGeneration
    /\ lifecycle' = "beginning"
    /\ ShutdownBroker
    /\ UNCHANGED <<sessionActive, generation, job, terminalJobs, published, send,
                   waitFor>>

\* beginSession, and broker.start up to its await.
BeginSession ==
    /\ lifecycle = "beginning"
    /\ lifecycle' = "starting"
    /\ sessionActive' = TRUE
    /\ generation' = generation + 1
    /\ terminalJobs' = <<>>
    /\ Start
    /\ UNCHANGED <<job, published, send, waitFor>>

\* broker.start settled; its rejection is dropped.
SessionStarted ==
    /\ lifecycle = "starting"
    /\ lifecycle' = "idle"
    /\ StartSettles
    /\ UNCHANGED <<sessionActive, generation, job, terminalJobs, published, send,
                   waitFor>>

-----------------------------------------------------------------------------
(***************************************************************************)
(* sendToJob.                                                              *)
(***************************************************************************)
SendBegins(s, j) ==
    /\ send[s].pc = "unused"
    /\ \A t \in 1..(s - 1) : send[t].pc # "unused"
    /\ IsActive(j) /\ ~Stopped(j)
    /\ CreateMainRequest(j)
    /\ send' = [send EXCEPT ![s] = [UnusedSend EXCEPT !.pc = "chained", !.job = j,
                                                      !.request = nextId]]
    /\ terminalJobs' \in Pruned(terminalJobs)
    /\ UNCHANGED <<lifecycle, sessionActive, generation, job, published, waitFor>>

SendOnly == UNCHANGED <<lifecycle, sessionActive, generation, job, terminalJobs,
                        published, waitFor>>

\* Mutant: the request is taken back only when the caller cancelled.
FailsKeepingRequest(s) ==
    /\ send' = [send EXCEPT ![s].pc = "failed"]
    /\ UNCHANGED vars

\* The operation is rejected, and its catch takes the request back.
SendFails(s) ==
    /\ send' = [send EXCEPT ![s].pc = "failed"]
    /\ RollbackAny(send[s].request)

\* The previous send settled; without an await, delivery starts if it can.
SendProceeds(s) ==
    /\ send[s].pc = "chained"
    /\ PreviousSettled(s)
    /\ IF AcceptsMessages(send[s].job)
       THEN /\ send' = [send EXCEPT ![s].pc = IF job[send[s].job].control
                                              THEN "delivering" ELSE "control"]
            /\ UNCHANGED vars
       ELSE SendFails(s)
    /\ SendOnly

SendHasControl(s) ==
    /\ send[s].pc = "control"
    /\ ControlSettled(send[s].job)
    /\ IF job[send[s].job].control /\ AcceptsMessages(send[s].job)
       THEN /\ send' = [send EXCEPT ![s].pc = "delivering"]
            /\ UNCHANGED vars
       ELSE SendFails(s)
    /\ SendOnly

\* The caller aborts while nothing was delivered; later, only it returns.
SendAborts(s) ==
    /\ send[s].pc \in {"chained", "control"}
    /\ send' = [send EXCEPT ![s].pc = "failed", ![s].aborted = TRUE]
    /\ RollbackAny(send[s].request)
    /\ SendOnly

\* The child's Pi process accepted the steering message.  The send fails if its
\* request is gone by then: it may have been answered, read and forgotten.
SteerAccepted(s) ==
    /\ send[s].pc = "delivering"
    /\ job[send[s].job].task = "child"
    /\ IF AcceptsMessages(send[s].job) /\ send[s].request \in live
       THEN /\ send' = [send EXCEPT ![s].pc = "queued"]
            /\ MarkMainRequestQueued(send[s].request)
       ELSE SendFails(s)
    /\ SendOnly

\* The command failed, timed out, or the child ended.
SteerFails(s) ==
    /\ send[s].pc = "delivering"
    /\ SendFails(s)
    /\ SendOnly

-----------------------------------------------------------------------------
(***************************************************************************)
(* subagent_wait, and what goes on in the broker meanwhile.                *)
(***************************************************************************)
WaitBegins(w, j) ==
    /\ IsActive(j)
    /\ BeginMainWait(w)
    /\ waitFor' = [waitFor EXCEPT ![w] = j]
    /\ terminalJobs' \in Pruned(terminalJobs)
    /\ UNCHANGED <<lifecycle, sessionActive, generation, job, published, send>>

\* Timeout or abort; or the job is terminal.
WaitEnds(w) == EndMainWait(w) /\ UNCHANGED runtimeVars

WaitSeesTerminal(w) == IsTerminal(waitFor[w]) /\ WaitEnds(w)

\* A child connects while it runs, and knows the requests it was steered to.
ChildConnects(c) ==
    \E j \in Jobs, op \in {"request", "reply", "wait"}, r \in OptionalId,
       timed \in BOOLEAN :
        /\ job[j].task = "child"
        /\ op = "reply" => \E s \in SendIds :
              /\ send[s].request = r
              /\ send[s].pc \notin {"unused", "chained", "control"}
        /\ Connect(c, j, op, r, timed)

ChildStep(c) ==
    \/ ChildConnects(c) \/ HandlesFrame(c) \/ WaitTimesOut(c) \/ Flushed(c)
    \/ ClientReceives(c) \/ ClientGivesUp(c) \/ SocketCloses(c)

BrokerStep ==
    /\ \/ Fail
       \/ Tick
       \/ \E r \in ReqIds, m \in Replies : ReplyFromMain(r, m)
       \/ \E c \in Conns : ChildStep(c)
    /\ UNCHANGED runtimeVars

JobStep(j) ==
    \/ StartJob(j) \/ TaskBegins(j) \/ ChildReady(j) \/ Cancel(j)
    \/ \E outcome \in Terminal : ChildEnds(j, outcome)

SessionStep ==
    \/ \E next \in {"closing", "reopening"} : CloseSession(next)
    \/ SessionClosed \/ OpenSession \/ BeginSession \/ SessionStarted
    \/ InspectJobs

SendStep(s) ==
    \/ \E j \in Jobs : SendBegins(s, j)
    \/ SendProceeds(s) \/ SendHasControl(s) \/ SendAborts(s)
    \/ SteerAccepted(s) \/ SteerFails(s)

WaitStep(w) == WaitEnds(w) \/ \E j \in Jobs : WaitBegins(w, j)

RuntimeNext ==
    \/ SessionStep
    \/ \E j \in Jobs : JobStep(j)
    \/ \E s \in SendIds : SendStep(s)
    \/ \E w \in MainWaits : WaitStep(w)
    \/ BrokerStep

RuntimeSpec == RuntimeInit /\ [][RuntimeNext]_allVars

-----------------------------------------------------------------------------
(***************************************************************************)
(* Safety.                                                                 *)
(***************************************************************************)
(***************************************************************************)
(* The broker serves exactly the jobs the runtime still wants to hear of:  *)
(* a token that is valid belongs to a queued or running job of the current *)
(* session that nobody has stopped.  A stopped child keeps running for     *)
(* seconds and may go on sending frames.                                   *)
(***************************************************************************)
TokensBelongToActiveJobs ==
    \A j \in Jobs : jobState[j] = "active" => AcceptsMessages(j) /\ sessionActive

(***************************************************************************)
(* A cancellation that was accepted is what the job reports, however the   *)
(* child ends in the meantime, and a job is stopped only before it ended.  *)
(***************************************************************************)
StopDecidesOutcome ==
    \A j \in Jobs : Stopped(j) /\ IsTerminal(j) => job[j].state = "cancelled"

(***************************************************************************)
(* The job of a settled task has finished, so nobody who awaited the task  *)
(* finds it unfinished; and only then.                                     *)
(***************************************************************************)
SettledTasksFinished ==
    \A j \in Jobs : job[j].task = "settled" <=> IsTerminal(j)

(***************************************************************************)
(* No job outlives its session: once the shutdown has returned, no job of  *)
(* the session is active, and the next session starts without any.         *)
(***************************************************************************)
NoJobOutlivesItsSession ==
    /\ \A j \in RunningJobs : Current(j)
    /\ lifecycle \notin {"closing", "reopening"} /\ ~sessionActive =>
          RunningJobs = {}

(***************************************************************************)
(* A job that finishes in its session is published to the main agent, and  *)
(* exactly once; nothing is published when the session is over.            *)
(***************************************************************************)
CompletionsArePublishedOnce ==
    [][\A j \in Jobs :
          published'[j] = published[j]
            + (IF IsActive(j) /\ IsTerminal(j)' /\ sessionActive THEN 1 ELSE 0)]_allVars

(***************************************************************************)
(* A request of the main agent that waits for its answer was delivered, or *)
(* is about to be: no failed, cancelled or timed-out send leaves one       *)
(* behind, which would use up the job's limit of outstanding requests for  *)
(* good ("Caller cancellation before RPC delivery starts rolls the request *)
(* back").                                                                 *)
(***************************************************************************)
NoOrphanRequests ==
    \A r \in live : req[r].origin = "main" /\ ~Answered(r) =>
        \E s \in SendIds : /\ send[s].request = r
                           /\ send[s].pc \in Unsettled \cup {"queued"}

(***************************************************************************)
(* Requests reach a child in the order they were sent, one at a time,      *)
(* unless the caller cancels a send in between: its place in the chain is  *)
(* then given up at once, and the sends behind it overtake the ones before *)
(* it.                                                                     *)
(***************************************************************************)
OvertakingNeedsAnAbort ==
    \A t \in SendIds : \A s \in 1..(t - 1) :
        /\ send[s].job = send[t].job
        /\ send[s].pc \in {"chained", "control"}
        /\ send[t].pc # "delivering" /\ send'[t].pc = "delivering"
        => \E u \in (s + 1)..(t - 1) : send[u].aborted

(***************************************************************************)
(* No step of a send, of the broker or of a session leaves an orphaned     *)
(* request behind or lets a send overtake without an abort.                *)
(***************************************************************************)
SendsAreOrderly == [][NoOrphanRequests' /\ OvertakingNeedsAnAbort]_allVars

-----------------------------------------------------------------------------
(***************************************************************************)
(* The inductive invariant behind the safety properties of the jobs.       *)
(***************************************************************************)
\* A job begins when its credentials are issued, and never twice.
JobsBeginWithTheirToken ==
    \A j \in Jobs : /\ jobState[j] = "new" <=> job[j].state = "new"
                    /\ job[j].state = "new" <=> job[j].task = "none"
                    /\ job[j].state = "new" => ~Stopped(j)

\* The queue knows whether there is a session.
SessionFollowsLifecycle ==
    /\ lifecycle \in {"closing", "reopening", "beginning"} => ~sessionActive
    /\ lifecycle = "starting" => sessionActive

\* A job is published when it ends and not before, and it is stopped silently
\* only by the end of its session.
UnpublishedUntilTerminal ==
    \A j \in Jobs : ~IsTerminal(j) =>
        /\ published[j] = 0
        /\ job[j].stop = "silent" => ~sessionActive

RuntimeIInv ==
    /\ RuntimeTypeOK
    /\ JobsBeginWithTheirToken
    /\ SessionFollowsLifecycle
    /\ UnpublishedUntilTerminal
    /\ TokensBelongToActiveJobs
    /\ StopDecidesOutcome
    /\ SettledTasksFinished
    /\ NoJobOutlivesItsSession

(***************************************************************************)
(* The same for the sends: they begin in the order of their numbers, an    *)
(* abort is the end of a send, and a send that has left its place in the   *)
(* chain while an earlier one has not started delivery was aborted itself, *)
(* or follows one that was.                                                *)
(***************************************************************************)
SendsBeginInOrder ==
    \A t \in SendIds : \A s \in 1..(t - 1) :
        send[t].pc # "unused" => send[s].pc # "unused"

AbortedSendsFailed == \A s \in SendIds : send[s].aborted => send[s].pc = "failed"

OvertakersFollowAborts ==
    \A t \in SendIds : \A s \in 1..(t - 1) :
        /\ send[s].job = send[t].job
        /\ send[s].pc \in {"chained", "control"}
        /\ send[t].pc \notin {"unused", "chained"}
        => \E u \in (s + 1)..t : send[u].aborted

SendsIInv ==
    /\ SendsBeginInOrder
    /\ AbortedSendsFailed
    /\ OvertakersFollowAborts
    /\ NoOrphanRequests

-----------------------------------------------------------------------------
(***************************************************************************)
(* Liveness.  Microtasks run, an aborted child ends (process.ts kills it), *)
(* a steering command is answered or times out, and the server's start     *)
(* settles.  Nothing is assumed of a child that nobody stopped.            *)
(***************************************************************************)
StoppedChildEnds(j) ==
    Stopped(j) /\ \E outcome \in Terminal : ChildEnds(j, outcome)

RuntimeFairness ==
    /\ \A j \in Jobs : WF_allVars(TaskBegins(j)) /\ WF_allVars(StoppedChildEnds(j))
    /\ \A s \in SendIds : /\ WF_allVars(SendProceeds(s))
                          /\ WF_allVars(SendHasControl(s))
                          /\ WF_allVars(SteerAccepted(s) \/ SteerFails(s))
    /\ \A w \in MainWaits : WF_allVars(WaitSeesTerminal(w))
    /\ WF_allVars(SessionClosed)
    /\ WF_allVars(BeginSession)
    /\ WF_allVars(SessionStarted)

FairRuntimeSpec == RuntimeSpec /\ RuntimeFairness

(***************************************************************************)
(* A stopped job ends, and a main wait for it returns.                     *)
(***************************************************************************)
StoppedJobsEnd ==
    \A j \in Jobs :
        /\ Stopped(j) ~> IsTerminal(j)
        /\ \A w \in MainWaits :
              w \in listeners /\ waitFor[w] = j /\ Stopped(j) ~> w \notin listeners

(***************************************************************************)
(* A send to a job that is stopped or has ended never hangs, wherever it   *)
(* waits: for another send, for the child to become ready, or for the      *)
(* answer to its command.                                                  *)
(***************************************************************************)
SendsSettle ==
    \A s \in SendIds :
        send[s].pc \in Unsettled /\ (Stopped(send[s].job) \/ IsTerminal(send[s].job))
            ~> send[s].pc \notin Unsettled

(***************************************************************************)
(* Session operations run one after the other, and none of them blocks the *)
(* queue.                                                                  *)
(***************************************************************************)
LifecycleNeverBlocks == lifecycle # "idle" ~> lifecycle = "idle"

(***************************************************************************)
(* What was begun ends: stopped jobs, waits, sends and session operations. *)
(***************************************************************************)
EverythingSettles == StoppedJobsEnd /\ SendsSettle /\ LifecycleNeverBlocks

=============================================================================

------------------------------- MODULE GoalRun -------------------------------
(***************************************************************************)
(* pi-goal lets the agent work on one objective until it is done: when Pi   *)
(* has settled it sends a continuation, and it stops at limits, blockers,   *)
(* waits and the user's wish.  The runtime has to tell the runs it caused   *)
(* from those it did not, through messages that Pi queues, retries,         *)
(* compactions, reloads, failed sends and commands at any moment.           *)
(*                                                                          *)
(* Source: packages/pi-goal/src/runtime.ts, lifecycle.ts, commands.ts,      *)
(* tools.ts, safety.ts and persistence.ts.  A goal instance is a number (its *)
(* goal_id); an objective, a token and a second are not modelled: usage is  *)
(* whether the budget is spent.  The runtime is one record, and what a       *)
(* handler does to it is an operator from records to records; the actions   *)
(* are the handlers.  What Pi does with messages and runs is external.      *)
(* Left out: texts, settings, menus, managed runs, legacy queues, and the   *)
(* budget wrap-up, which needs a goal that is active and budget_limited.    *)
(***************************************************************************)
EXTENDS Naturals, SequencesExt

CONSTANTS
    AutomaticTurns,     \* continuationLimits.automaticTurns
    NoProgressTurns,    \* continuationLimits.noProgressTurns
    Answers,            \* the ways in which the model answers
    Messages,           \* the messages of others: a subset of Kinds
    MaxGoals,           \* bound on the goal instances
    MaxQueue            \* bound on the messages of others that wait for Pi

ToolCalls == {"tool", "complete", "blocked", "wait", "waitTimed"}
Retryable == {"retryable", "overflow"}
Failures == Retryable \union {"aborted", "usage", "fatal"}
Kinds == {"user", "steer", "follow", "ext", "custom"}

ASSUME GoalRunAssumption ==
    /\ {AutomaticTurns, NoProgressTurns, MaxGoals, MaxQueue} \subseteq Nat \ {0}
    /\ Answers \subseteq ToolCalls \union Failures \union {"text"} /\ "aborted" \notin Answers
    /\ Messages \subseteq Kinds

VARIABLES
    rt,         \* GoalRuntime, with what it drives: mutex, session entry, messages
    phase,      \* where Pi is
    answer,     \* the response of the model that is being handled
    tools,      \* the goal tools are active
    nextId,     \* the next goal instance
    asked,      \* history: somebody asked for what the run does now
    solo,       \* history: responses that nobody asked for, since the user last did
    lull        \* history: a step that leaves an active goal with nothing to do

vars == <<rt, phase, answer, tools, nextId, asked, solo, lull>>
history == <<asked, solo, lull>>

-----------------------------------------------------------------------------
Unowned == 0                \* agentRunGoalId is undefined
Foreign == MaxGoals + 1     \* agentRunGoalId is null

Waitings == {"no", "open", "timed"}
NoGoal == [id |-> 0, status |-> "none", waiting |-> "no", turns |-> 0, repeats |-> 0,
           spent |-> FALSE, reset |-> FALSE]
NewGoal(id) == [NoGoal EXCEPT !.id = id, !.status = "active"]
NoRecovery == [kind |-> "none", auto |-> FALSE]
NoRun == [id |-> Unowned, auto |-> FALSE, tool |-> FALSE]
NoAnswer == [stop |-> "none", id |-> 0, ends |-> FALSE]

\* A message to the agent.  mark says in which map of the runtime the marker of
\* an owned prompt is: pending, delivered ("live") or cancelled.
Message(kind, id, reset, mark, at) ==
    [kind |-> kind, id |-> id, reset |-> reset, mark |-> mark, at |-> at]
GoalPrompt(id, reset) == Message("goal", id, reset, "pending", "sent")
Continuation(id) == Message("cont", id, FALSE, "live", "sent")
Other(kind, at) == Message(kind, 0, FALSE, "none", at)

Init ==
    /\ rt = [goal |-> NoGoal, intent |-> 0, delivery |-> 0, timer |-> FALSE,
             recovery |-> NoRecovery, run |-> NoRun, guard |-> 0, stale |-> FALSE,
             inputs |-> <<>>, retry |-> "none", alarm |-> FALSE, due |-> FALSE,
             exhausted |-> FALSE, owner |-> "none", saved |-> NoGoal,
             queue |-> <<>>, aborting |-> FALSE]
    /\ phase = "idle" /\ answer = NoAnswer /\ tools = TRUE
    /\ nextId = 1
    /\ asked = TRUE /\ solo = 0 /\ lull = FALSE

-----------------------------------------------------------------------------
\* The runtime

Active(r) == r.goal.status = "active"
Owns(r) == Active(r) /\ r.owner = "goal"
Waits(r) == r.goal.waiting # "no"
Stopped(r) == r.goal.status \in {"paused", "blocked", "usage_limited", "budget_limited"}
Queued(r) == \E i \in DOMAIN r.queue : r.queue[i].at = "queued"

Persist(r) == [r EXCEPT !.saved = r.goal]
ReleaseWorkflow(r) == [r EXCEPT !.owner = IF @ = "goal" THEN "none" ELSE @]
Abort(r) == [r EXCEPT !.aborting = phase # "idle"]
Dequeue(r, i) == [r EXCEPT !.queue = RemoveAt(@, i)]

CanRecord(r) == r.run.id \in {Unowned, r.goal.id}
RecordUsage(r) ==
    IF r.goal # NoGoal /\ CanRecord(r) THEN [r EXCEPT !.goal.spent = r.exhausted] ELSE r

CancelContinuation(r) ==
    [r EXCEPT !.timer = FALSE, !.intent = 0, !.delivery = 0,
              !.queue = [i \in DOMAIN @ |-> IF @[i].mark = "live"
                                            THEN [@[i] EXCEPT !.mark = "cancelled"] ELSE @[i]]]

ClearWaitTimer(r) == [r EXCEPT !.alarm = FALSE, !.retry = "none"]
RestoreWaitTimer(r) ==
    [ClearWaitTimer(r) EXCEPT !.due = FALSE, !.alarm = Owns(r) /\ r.goal.waiting = "timed"]

\* Mutant: the continuation that is under way is not cancelled.
EnterWaitOnly(r, waiting) ==
    RestoreWaitTimer(Persist([RecordUsage(r) EXCEPT
        !.recovery = NoRecovery, !.goal.waiting = waiting]))

EnterGoalWait(r, waiting) ==
    RestoreWaitTimer(Persist([CancelContinuation(RecordUsage(r)) EXCEPT
        !.recovery = NoRecovery, !.goal.waiting = waiting]))

ClearGoalWait(r) ==
    IF Owns(r) /\ Waits(r)
    THEN Persist([ClearWaitTimer(r) EXCEPT !.goal.waiting = "no", !.due = FALSE]) ELSE r

\* stopActiveGoal: what the kinds of stops have in common, and the effects in
\* which they differ.
Stop(r, status, effects) ==
    LET recorded == IF "usage" \in effects THEN RecordUsage(r) ELSE r
        quiet == CancelContinuation(ClearWaitTimer(recorded))
        stopped == [quiet EXCEPT
            !.recovery = NoRecovery, !.stale = "unblocked" \notin effects,
            !.guard = IF "guard" \in effects THEN r.goal.id ELSE @,
            !.aborting = @ \/ ("abort" \in effects /\ phase # "idle"),
            !.goal.status = status, !.goal.waiting = "no", !.due = FALSE]
    IN  ReleaseWorkflow(Persist(stopped))

SafetyPause(r, aborts) == Stop(r, "paused", IF aborts THEN {"abort", "guard"} ELSE {})
PauseForTools(r, aborts) ==
    Stop(r, "paused", {"usage"} \union IF aborts THEN {"abort"} ELSE {"unblocked"})

BudgetReached(r) == Active(r) /\ r.goal.spent
BudgetStop(r) == Stop(r, "budget_limited", {"abort"})
TurnsReached(r) == Active(r) /\ r.goal.turns >= AutomaticTurns
NoProgress(r) == Active(r) /\ r.goal.repeats >= NoProgressTurns

Fresh(goal) == [goal EXCEPT !.turns = 0, !.repeats = 0, !.reset = FALSE]
ResetEpoch(r) ==
    IF Active(r) THEN Persist([r EXCEPT !.goal = Fresh(@), !.run.auto = FALSE]) ELSE r

BeginRun(r, id, auto) == [r EXCEPT !.run = [id |-> id, auto |-> auto, tool |-> FALSE]]

\* beginNonGoalFollowUp
FollowUp(r, resets) ==
    LET run == BeginRun([r EXCEPT !.recovery = NoRecovery, !.stale = FALSE],
                        IF Active(r) THEN r.goal.id ELSE Foreign, FALSE)
    IN  IF resets THEN ResetEpoch(run) ELSE run

-----------------------------------------------------------------------------
\* Continuations.  way says how a send would end: "sent", "failed" (it throws)
\* or "busy" (Pi is not idle, or messages are pending).

RequestContinuation(r) ==
    IF Owns(r) /\ ~Waits(r) /\ r.goal.id \notin {r.intent, r.delivery}
    THEN [r EXCEPT !.intent = r.goal.id] ELSE r

Dispatch(r, way) ==
    IF ~Owns(r) THEN CancelContinuation(r)
    ELSE IF r.intent = 0 THEN r
    ELSE IF ~tools THEN PauseForTools(r, TRUE)
    ELSE IF r.intent # r.goal.id \/ Waits(r) THEN [r EXCEPT !.intent = 0]
    ELSE IF TurnsReached(r) \/ NoProgress(r) THEN SafetyPause(r, FALSE)
    ELSE IF way = "busy" THEN r
    ELSE IF way = "failed" THEN [r EXCEPT !.timer = FALSE]
    ELSE [r EXCEPT !.timer = FALSE, !.intent = 0, !.delivery = r.intent,
                   !.queue = Append(@, Continuation(r.intent))]

DeadlineFailed(r, exhausted) ==
    Persist([CancelContinuation(RecordUsage(r)) EXCEPT
        !.goal.waiting = "timed", !.due = FALSE, !.alarm = ~exhausted,
        !.retry = IF exhausted THEN "exhausted" ELSE "armed"])

WaitIsDue(r, way) ==
    /\ Owns(r) /\ r.goal.waiting = "timed" /\ r.retry # "exhausted"
    /\ r.due /\ way # "busy"

DispatchDueGoalWait(r, way) ==
    LET tried == Dispatch(RequestContinuation(ClearGoalWait(r)), way)
    IN  IF Active(tried) /\ tried.intent = r.goal.id
        THEN DeadlineFailed(tried, r.retry = "armed") ELSE tried

FinalizeSettledRecovery(r) ==
    LET cleared == [r EXCEPT !.recovery = NoRecovery]
    IN  IF r.recovery = NoRecovery \/ ~Owns(r) THEN cleared
        ELSE IF r.recovery.kind = "provider" THEN EnterGoalWait(cleared, "open")
        ELSE Stop(cleared, "blocked", {})

\* ctx.isIdle() and no pending messages; while the user compacts, a send throws.
Ways(where) ==
    IF where \notin {"idle", "starting", "compact_manual"} \/ Queued(rt) THEN {"busy"}
    ELSE IF where = "compact_manual" THEN {"failed"} ELSE {"sent", "failed"}
SendWays == IF phase = "compact_manual" THEN {"failed"} ELSE {"sent", "failed"}

-----------------------------------------------------------------------------
\* Messages that start

\* consumeQueuedNonGoalInput: the index of the entry that a message takes.
FirstInput(r, kinds) == SelectInSeq(r.inputs, LAMBDA kind : kind \in kinds)
TakenInput(r, kind, fallback) ==
    LET exact == FirstInput(r, {kind})
        steer == FirstInput(r, {"steer"})
    IN  IF exact # 0 \/ ~fallback THEN exact
        ELSE IF steer # 0 THEN steer ELSE FirstInput(r, {"follow", "ext"})

StartGoalPrompt(r, m) ==
    IF m.id # r.goal.id \/ ~Owns(r) THEN r
    ELSE LET rebased == IF r.run.id \in {Unowned, m.id} THEN r
                        ELSE [r EXCEPT !.exhausted = r.goal.spent]
             run == BeginRun(rebased, m.id, FALSE)
         IN  Persist([run EXCEPT !.goal = IF m.reset THEN Fresh(@) ELSE @])

StartUserMessage(r, m) ==
    LET i == TakenInput(r, m.kind, m.mark # "live")
        taken == [r EXCEPT !.inputs = RemoveAt(@, i)]
    IN  IF i = 0 THEN r
        ELSE IF r.inputs[i] = "steer" THEN taken
        ELSE FollowUp(taken, r.inputs[i] = "follow")

StartCustomMessage(r) ==
    FollowUp([ClearGoalWait(r) EXCEPT !.guard = IF @ = r.goal.id THEN 0 ELSE @], FALSE)

MessageStart(r, m) ==
    IF m.kind = "custom" THEN StartCustomMessage(r)
    ELSE IF m.kind = "goal" THEN StartGoalPrompt(r, m)
    ELSE StartUserMessage(r, m)

\* Mutant: a retry forgets that the run was automatic.
AgentStartAnew(r) ==
    IF r.run.id = Unowned /\ r.recovery # NoRecovery /\ ~(r.guard = r.goal.id /\ r.goal.status = "paused")
    THEN BeginRun(r, r.goal.id, FALSE) ELSE r

\* agent_start of a run that no prompt starts.
AgentStart(r) ==
    LET follow == FirstInput(r, {"follow", "ext"})
    IN  IF r.guard = r.goal.id /\ r.goal.status = "paused"
        THEN IF follow = 0 \/ FirstInput(r, {"steer"}) # 0 THEN r
             ELSE BeginRun([r EXCEPT !.inputs = RemoveAt(@, follow), !.guard = 0,
                                     !.stale = FALSE], Foreign, FALSE)
        ELSE IF r.run.id = Unowned /\ r.recovery # NoRecovery
        THEN BeginRun(r, r.goal.id, r.recovery.auto) ELSE r

-----------------------------------------------------------------------------
\* Commands of the user.  They run at any moment, also while the agent works.

\* leaves: the goal, if it is still active, is left alone.
Asks(leaves) == asked' = TRUE /\ solo' = 0 /\ lull' = (leaves /\ Owns(rt'))
Room == Len(rt.queue) < MaxQueue
Send(r, id, reset) == [r EXCEPT !.queue = Append(@, GoalPrompt(id, reset))]

\* cancelContinuationWork, clearGoalRecovery and the wait timer, before a goal takes over.
Quiet(r) == [CancelContinuation(ClearWaitTimer(r)) EXCEPT !.recovery = NoRecovery, !.due = FALSE]
Cleared(r) == ReleaseWorkflow(Persist([Quiet(r) EXCEPT
                  !.stale = FALSE, !.goal = NoGoal, !.exhausted = FALSE]))

\* Mutant: what the failed activation acquired is not given back.
RollBackKeeping(r, goal) ==
    LET back == [r EXCEPT !.goal = goal, !.stale = goal.status # "active"]
    IN  IF goal = NoGoal THEN Cleared(back)
        ELSE IF goal.status = "active"
        THEN RestoreWaitTimer(Persist([back EXCEPT !.owner = "goal"]))
        ELSE Persist([back EXCEPT !.owner = "goal"])

\* A send has failed: the earlier goal comes back, and with it what it held.
RollBack(r, goal) ==
    LET back == [r EXCEPT !.goal = goal, !.stale = goal.status # "active"]
    IN  IF goal = NoGoal THEN Cleared(back)
        ELSE IF goal.status = "active"
        THEN RestoreWaitTimer(Persist([back EXCEPT !.owner = "goal"]))
        ELSE ReleaseWorkflow(Persist(back))

\* startGoal after the confirmation; existing is the goal that was confirmed.
Refused(existing) ==
    IF existing.status = "active" /\ Active(rt) THEN PauseForTools(rt, TRUE)
    ELSE IF existing.status = "active" THEN [rt EXCEPT !.owner = "goal"] ELSE rt

Activate(existing, way) ==
    IF rt.owner = "other" THEN /\ UNCHANGED <<rt, nextId>>
                               /\ Asks(lull)
    ELSE IF ~tools THEN /\ rt' = Refused(existing)
                        /\ UNCHANGED nextId
                        /\ Asks(lull)
    ELSE IF way = "sent"
    THEN /\ rt' = Send(Persist([Quiet(rt) EXCEPT
                      !.stale = FALSE, !.goal = NewGoal(nextId), !.exhausted = FALSE,
                      !.owner = "goal"]), nextId, TRUE)
         /\ nextId' = nextId + 1
         /\ Asks(FALSE)
    ELSE /\ LET quiet == Quiet([rt EXCEPT !.goal = existing])
            IN  rt' = RollBack(quiet, RecordUsage(quiet).goal)
         /\ UNCHANGED nextId
         /\ Asks(TRUE)

StartGoal ==
    /\ rt.goal = NoGoal /\ nextId <= MaxGoals /\ Room
    /\ \E way \in SendWays : Activate(NoGoal, way)
    /\ UNCHANGED <<phase, answer, tools>>

\* "Replace goal?" may have been open for long, and only the identity of the goal is
\* compared when it is confirmed.  What the code then goes by is the goal as it was when
\* the dialog opened: as it is now, or as it was before this instance stopped or waited.
Earlier(waiting, turns) ==
    [rt.goal EXCEPT !.status = "active", !.waiting = waiting, !.turns = turns]
Confirmed == {rt.goal} \union
    {Earlier(waiting, turns) : waiting \in Waitings, turns \in 0 .. AutomaticTurns}
ReplaceGoal ==
    /\ rt.goal # NoGoal /\ nextId <= MaxGoals /\ Room
    /\ \E existing \in Confirmed, way \in SendWays : Activate(existing, way)
    /\ UNCHANGED <<phase, answer, tools>>

PauseGoal ==
    /\ Active(rt)
    /\ rt' = Stop(rt, "paused", {"usage", "abort"})
    /\ Asks(FALSE)
    /\ UNCHANGED <<phase, answer, tools, nextId>>

ClearGoal ==
    /\ rt.goal # NoGoal
    /\ rt' = Cleared(rt)
    /\ Asks(FALSE)
    /\ UNCHANGED <<phase, answer, tools, nextId>>

CanResume == Stopped(rt) /\ ~rt.goal.spent /\ rt.owner # "other"
ResumeGoal ==
    /\ CanResume /\ nextId <= MaxGoals /\ Room
    /\ \/ /\ ~tools
          /\ rt' = ReleaseWorkflow(rt) /\ UNCHANGED nextId /\ Asks(lull)
       \/ /\ tools
          /\ rt' = Send(Persist([Quiet(rt) EXCEPT
                       !.stale = FALSE, !.owner = "goal", !.goal.id = nextId,
                       !.goal.status = "active", !.goal.reset = TRUE]), nextId, TRUE)
          /\ nextId' = nextId + 1 /\ Asks(FALSE)
       \/ /\ tools
          /\ rt' = ReleaseWorkflow(Persist([Quiet(rt) EXCEPT !.stale = TRUE]))
          /\ UNCHANGED nextId /\ Asks(lull)
    /\ UNCHANGED <<phase, answer, tools>>

ResumeWaiting ==
    /\ Owns(rt) /\ Waits(rt) /\ tools /\ Room
    /\ \E way \in SendWays :
          /\ rt' = IF way = "sent" THEN Send(ClearGoalWait(rt), rt.goal.id, FALSE)
                   ELSE EnterGoalWait(ClearGoalWait(rt), rt.goal.waiting)
          /\ Asks(lull /\ way # "sent")
    /\ UNCHANGED <<phase, answer, tools, nextId>>

\* editGoal.  budget says what becomes of it: "kept", "raised" above or "lowered"
\* below the usage.
EditedStatus(goal) ==
    IF goal.status \in {"paused", "blocked", "usage_limited"} THEN goal.status
    ELSE IF goal.spent THEN "budget_limited" ELSE "active"

Edited(budget) ==
    LET recorded == RecordUsage(rt)
        spent == budget = "lowered" \/ (budget = "kept" /\ recorded.goal.spent)
        next == [recorded.goal EXCEPT !.id = nextId, !.waiting = "no", !.spent = spent]
        status == EditedStatus(next)
    IN  Persist([Quiet(recorded) EXCEPT
            !.exhausted = IF budget = "kept" THEN @ ELSE spent,
            !.stale = status # "active",
            !.owner = IF status = "active" THEN "goal" ELSE @,
            !.goal = [next EXCEPT !.status = status, !.reset = @ \/ status = "active"]])

IntendsActive == rt.goal.status \in {"active", "budget_limited"}
EditGoal(budget) ==
    /\ rt.goal # NoGoal /\ nextId <= MaxGoals /\ Room
    /\ rt.goal.status = "budget_limited" => budget = "raised"
    /\ IntendsActive => rt.owner # "other"
    /\ \/ /\ IntendsActive /\ ~tools
          /\ rt' = IF Active(rt) THEN PauseForTools(rt, TRUE) ELSE rt
          /\ UNCHANGED nextId /\ Asks(lull)
       \/ /\ ~IntendsActive \/ tools
          /\ ~Active(Edited(budget))
          /\ rt' = ReleaseWorkflow(Edited(budget))
          /\ nextId' = nextId + 1 /\ Asks(lull)
       \/ /\ tools /\ Active(Edited(budget))
          /\ rt' = Send(Edited(budget), nextId, TRUE)
          /\ nextId' = nextId + 1 /\ Asks(FALSE)
       \/ /\ tools /\ Active(Edited(budget))
          /\ rt' = RollBack(Quiet(RecordUsage(rt)), RecordUsage(rt).goal)
          /\ UNCHANGED nextId /\ Asks(TRUE)
    /\ UNCHANGED <<phase, answer, tools>>

-----------------------------------------------------------------------------
\* Messages and events from outside

Running == phase \notin {"idle", "starting", "compact_manual"}
FirstAt(at) == SelectInSeq(rt.queue, LAMBDA m : m.at = at)

\* input of an owned prompt: dropped, started or queued.
Dropped(m) ==
    \/ m.mark = "cancelled"
    \/ m.kind = "goal" /\ ~(Active(rt) /\ rt.goal.id = m.id)
Input ==
    LET i == FirstAt("sent") IN
    /\ i # 0 /\ phase \notin {"starting", "compact_manual"}
    /\ IF Dropped(rt.queue[i]) THEN rt' = Dequeue(rt, i) /\ UNCHANGED phase
       ELSE IF phase = "idle"
       THEN rt' = [rt EXCEPT !.queue[i].at = "starting"] /\ phase' = "starting"
       ELSE rt' = [rt EXCEPT !.queue[i].at = "queued"] /\ UNCHANGED phase
    /\ UNCHANGED <<answer, tools, nextId, history>>

Arrives(r, kind) ==
    IF phase = "idle"
    THEN /\ rt' = [r EXCEPT !.queue = Append(@, Other(kind, "starting"))]
         /\ phase' = "starting"
    ELSE /\ rt' = [r EXCEPT !.queue = Append(@, Other(kind, "queued")),
                           !.inputs = Append(@, kind)]
         /\ UNCHANGED phase

\* Another extension sends a message, as a follow-up when the agent works.  Between a
\* failure and its retry that disowns the retry, which then counts as asked for.
ExtInput ==
    /\ Room /\ "ext" \in Messages
    /\ phase = "idle" \/ Running
    /\ Arrives([ClearGoalWait(rt) EXCEPT !.recovery = NoRecovery], "ext")
    /\ asked' = (asked \/ rt.recovery # NoRecovery)
    /\ UNCHANGED <<answer, tools, nextId, solo, lull>>

UserInput(kind) ==
    /\ Room /\ kind \in Messages
    /\ IF kind = "user" THEN phase = "idle" ELSE Running
    /\ Arrives(IF kind = "follow" THEN ClearGoalWait(rt)
               ELSE ResetEpoch([ClearGoalWait(rt) EXCEPT
                        !.recovery = NoRecovery, !.stale = FALSE]), kind)
    /\ IF kind = "follow" THEN UNCHANGED history ELSE Asks(lull)
    /\ UNCHANGED <<answer, tools, nextId>>

\* A custom message that triggers a turn: there is no input event and, when Pi is
\* idle, no before_agent_start.
CustomMessage ==
    /\ Room /\ "custom" \in Messages
    /\ \/ /\ phase = "idle" /\ phase' = "model"
          /\ rt' = StartCustomMessage(AgentStart(rt))
          /\ asked' = TRUE /\ UNCHANGED <<solo, lull>>
       \/ /\ Running
          /\ rt' = [rt EXCEPT !.queue = Append(@, Other("custom", "queued"))]
          /\ UNCHANGED <<phase, history>>
    /\ UNCHANGED <<answer, tools, nextId>>

UserAborts ==
    /\ Running /\ ~rt.aborting
    /\ rt' = Abort(rt)
    /\ UNCHANGED <<phase, answer, tools, nextId, history>>

OtherWorkflow ==
    /\ rt.owner # "goal"
    /\ rt' = [rt EXCEPT !.owner = IF @ = "none" THEN "other" ELSE "none"]
    /\ UNCHANGED <<phase, answer, tools, nextId, history>>

ToolsChange ==
    /\ tools' = ~tools
    /\ UNCHANGED <<rt, phase, answer, nextId, history>>

-----------------------------------------------------------------------------
\* Runs

\* Mutant: the delivery of a continuation is not settled when it starts.
BeforeUnsettled(r, m) ==
    LET clear == [r EXCEPT !.run = NoRun, !.guard = 0]
        recovers == r.recovery # NoRecovery /\ r.recovery.auto
    IN  IF m.kind = "cont" THEN [run |-> clear, auto |-> TRUE]
        ELSE IF m.kind = "goal" THEN [run |-> clear, auto |-> recovers]
        ELSE [run |-> ClearGoalWait(CancelContinuation(clear)), auto |-> recovers]

\* before_agent_start of an idle agent, then agent_start and message_start, which
\* find nothing left to do: the marker is claimed and no other input is noted.
Before(r, m) ==
    LET clear == [r EXCEPT !.run = NoRun, !.guard = 0]
        recovers == r.recovery # NoRecovery /\ r.recovery.auto
    IN  IF m.kind = "goal" THEN [run |-> clear, auto |-> recovers]
        ELSE IF m.kind = "cont"
        THEN [run |-> IF m.mark = "live" THEN [clear EXCEPT !.delivery = 0] ELSE clear,
              auto |-> TRUE]
        ELSE [run |-> ClearGoalWait(CancelContinuation(clear)), auto |-> recovers]

AgentStarts(r, m) ==
    LET before == Before(r, m)
        owned == m.kind \in {"goal", "cont"}
        stale == BeginRun(before.run, m.id, before.auto)
        run == BeginRun(before.run, r.goal.id, before.auto)
    IN  IF owned /\ m.id # r.goal.id
        THEN Abort(IF Active(stale) /\ ~tools THEN PauseForTools(stale, FALSE) ELSE stale)
        ELSE IF ~Owns(before.run) THEN before.run
        ELSE IF ~tools THEN PauseForTools(run, owned)
        ELSE IF m.reset THEN Persist([run EXCEPT !.goal = Fresh(@)]) ELSE run

PromptStarts ==
    /\ phase = "starting" /\ phase' = "model"
    /\ LET i == FirstAt("starting")
           m == rt.queue[i]
       IN  /\ rt' = AgentStarts(Dequeue(rt, i), m)
           /\ asked' = (m.kind # "cont")
           /\ solo' = IF m.reset /\ m.id = rt.goal.id THEN 0 ELSE solo
    /\ UNCHANGED <<answer, tools, nextId, lull>>

Ended == answer.ends \/ answer.stop \in Failures \union {"text"}

\* turn_end: recordAutomaticTurn
RecordTurn(r, stop) ==
    LET counted == Persist(RecordUsage([r EXCEPT !.goal.turns = @ + 1])) IN
    IF ~Active(r) \/ r.run.id # r.goal.id \/ ~r.run.auto \/ stop = "aborted" THEN r
    ELSE IF stop \notin Failures /\ TurnsReached(counted)
    THEN SafetyPause(counted, TRUE) ELSE counted

\* A response that nobody asked for, for a goal that is active or has reached its limit.
IsSolo(r) == /\ ~asked /\ solo <= AutomaticTurns
             /\ Active(r) \/ (r.goal.status = "paused" /\ r.goal.turns >= AutomaticTurns)
TurnEnds(r, stop) ==
    /\ rt' = RecordTurn(r, stop)
    /\ solo' = IF stop # "aborted" /\ IsSolo(r) THEN solo + 1 ELSE solo
    /\ lull' = (lull /\ Owns(rt'))
    /\ phase' = "boundary"

\* A response of the model, which a guarded or aborted run does not get.  It names the
\* goal of the moment; a call that names another is refused, and is "tool".
Guarded == rt.goal.status = "paused" /\ rt.guard = rt.goal.id
GoalCalls == ToolCalls \ {"tool"}
Respond ==
    /\ phase = "model"
    /\ \/ /\ Guarded \/ rt.aborting
          /\ answer' = [NoAnswer EXCEPT !.stop = "aborted"]
          /\ TurnEnds(rt, "aborted")
       \/ /\ ~Guarded /\ ~rt.aborting
          /\ \E stop \in Answers, spends \in IF rt.goal = NoGoal THEN {FALSE} ELSE BOOLEAN :
               LET r == [rt EXCEPT !.exhausted = @ \/ spends] IN
               /\ answer' = [NoAnswer EXCEPT
                     !.stop = stop, !.id = IF stop \in GoalCalls THEN rt.goal.id ELSE 0]
               /\ IF stop \in ToolCalls THEN rt' = r /\ phase' = "tool" /\ UNCHANGED <<solo, lull>>
                  ELSE TurnEnds(r, stop)
    /\ UNCHANGED <<tools, nextId, asked>>

\* goal_complete, goal_blocked and goal_wait; every other tool only takes its turn.  That
\* a tool was called is noted of an automatic run: of no other it is read.
Accepts(r) ==
    /\ answer.stop # "tool"
    /\ Owns(r) /\ r.run.id # Foreign /\ answer.id = r.goal.id
    /\ answer.stop \in {"wait", "waitTimed"} => ~Waits(r)
Execute(r) ==
    CASE answer.stop = "complete" -> Cleared(r)
      [] answer.stop = "blocked" -> Stop(r, "blocked", {"usage"})
      [] answer.stop = "wait" -> EnterGoalWait(r, "open")
      [] OTHER -> EnterGoalWait(r, "timed")

ToolEnds(r) ==
    LET recorded == Persist(RecordUsage(r)) IN
    IF ~Owns(r) \/ ~CanRecord(r) THEN r
    ELSE IF BudgetReached(recorded) THEN BudgetStop(recorded)
    ELSE IF ~tools THEN PauseForTools(recorded, TRUE) ELSE recorded

CallTool ==
    /\ phase = "tool"
    /\ LET attempted == [rt EXCEPT !.run.tool = @ \/ rt.run.auto]
           fresh == [attempted EXCEPT !.stale = FALSE]
           accepted == ~(rt.stale /\ Stopped(rt)) /\ Accepts(fresh)
       IN  /\ TurnEnds(IF rt.stale /\ Stopped(rt) THEN Abort(attempted)
                       ELSE ToolEnds(IF accepted THEN Execute(fresh) ELSE fresh), "tool")
           /\ answer' = [NoAnswer EXCEPT !.stop = "tool", !.ends = accepted]
    /\ UNCHANGED <<tools, nextId, asked>>

\* Pi takes steers before the next response and the others when the run would end.
Steers == {i \in DOMAIN rt.queue :
              rt.queue[i].at = "queued" /\ rt.queue[i].kind \in {"steer", "custom"}}
FollowUps == {i \in DOMAIN rt.queue :
                 rt.queue[i].at = "queued" /\ rt.queue[i].kind # "steer"}
Deliverable ==
    IF answer.stop \in Failures THEN {}
    ELSE IF Ended /\ Steers = {} /\ ~rt.aborting THEN FollowUps ELSE Steers

Delivered(m, asks) ==
    /\ asked' = (asks \/ m.kind # "cont")
    /\ solo' = IF m.kind = "follow" \/ (m.reset /\ m.id = rt.goal.id) THEN 0 ELSE solo

DeliverQueued ==
    /\ phase = "boundary" /\ phase' = "model"
    /\ \E i \in Deliverable :
          /\ rt' = MessageStart(Dequeue(rt, i), rt.queue[i])
          /\ Delivered(rt.queue[i], asked)
          /\ lull' = (lull \/ rt.queue[i].mark = "live")
    /\ answer' = NoAnswer
    /\ UNCHANGED <<tools, nextId>>

NextTurn ==
    /\ phase = "boundary" /\ ~Ended /\ Steers = {}
    /\ phase' = "model" /\ answer' = NoAnswer
    /\ UNCHANGED <<rt, tools, nextId, history>>

\* agent_end.  same says whether the text of the run repeats the one before.
Progressed(r, run, same) ==
    IF ~run.auto THEN r
    ELSE Persist([r EXCEPT !.goal.repeats =
             IF run.tool THEN 0 ELSE IF same /\ @ > 0 THEN @ + 1 ELSE 1])

Limited(r) ==
    IF BudgetReached(r) THEN BudgetStop(r)
    ELSE IF ~tools THEN PauseForTools(r, TRUE) ELSE r

RunStopped(r, run, same) ==
    LET limited == Limited([r EXCEPT !.recovery = NoRecovery])
        progressed == Progressed(limited, run, same)
    IN  IF ~Active(limited) THEN limited
        ELSE IF run.auto /\ NoProgress(progressed) THEN SafetyPause(progressed, FALSE)
        ELSE RequestContinuation(Persist(progressed))

RunInterrupted(r, run) ==
    LET limited == Limited(r) IN
    IF run.auto /\ TurnsReached(r) THEN SafetyPause(r, TRUE)
    ELSE IF ~Active(limited) THEN limited
    ELSE Persist([CancelContinuation(limited) EXCEPT !.recovery =
             [kind |-> IF answer.stop = "overflow" THEN "compaction" ELSE "provider",
              auto |-> run.auto]])

FailedStatus == IF answer.stop = "aborted" THEN "paused"
                ELSE IF answer.stop = "usage" THEN "usage_limited" ELSE "blocked"

RunEnds(r, run, same) ==
    LET recorded == RecordUsage(r) IN
    IF run.id \notin {Unowned, r.goal.id} \/ ~Owns(r) THEN r
    ELSE IF answer.stop \in Retryable THEN RunInterrupted(recorded, run)
    ELSE IF answer.stop \in Failures THEN Stop(recorded, FailedStatus, {"abort"})
    ELSE RunStopped(recorded, run, same)

\* Whatever was to be aborted has ended.
AgentEnd ==
    /\ phase = "boundary" /\ Ended /\ Deliverable = {}
    /\ phase' = "ended"
    /\ \E same \in BOOLEAN :
          rt' = [RunEnds([rt EXCEPT !.run = NoRun], rt.run, same) EXCEPT !.aborting = FALSE]
    /\ answer' = IF answer.stop \in Retryable THEN answer ELSE NoAnswer
    /\ lull' = (Owns(rt') /\ rt'.intent = 0 /\ (lull \/ rt.run.id = Foreign))
    /\ UNCHANGED <<tools, nextId, asked, solo>>

\* Pi tries again, or goes on with messages that came late: runs without a prompt.
Retry ==
    /\ phase = "ended" /\ answer.stop = "retryable"
    /\ phase' = "model" /\ answer' = NoAnswer
    /\ rt' = AgentStart(rt)
    /\ asked' = (asked \/ rt'.run.id = Foreign)
    /\ UNCHANGED <<tools, nextId, solo, lull>>

ContinueQueued ==
    /\ phase = "ended" /\ phase' = "model"
    /\ \E i \in IF Steers # {} THEN Steers ELSE FollowUps :
          /\ rt' = MessageStart(AgentStart(Dequeue(rt, i)), rt.queue[i])
          /\ Delivered(rt.queue[i], asked)
          /\ lull' = (lull \/ rt.queue[i].mark = "live")
    /\ answer' = NoAnswer
    /\ UNCHANGED <<tools, nextId>>

AgentSettled ==
    /\ phase = "ended" /\ ~Queued(rt) /\ phase' = "idle"
    /\ \E way \in Ways("idle") :
          LET final == FinalizeSettledRecovery(rt)
              done == IF WaitIsDue(final, way) THEN DispatchDueGoalWait(final, way)
                      ELSE Dispatch(final, way)
          IN  rt' = [done EXCEPT !.guard = 0, !.inputs = <<>>, !.run = NoRun,
                                 !.aborting = FALSE]
    /\ answer' = NoAnswer
    /\ UNCHANGED <<tools, nextId, history>>

DispatchTimer ==
    /\ rt.timer
    /\ \E way \in Ways(phase) : rt' = Dispatch([rt EXCEPT !.timer = FALSE], way)
    /\ UNCHANGED <<phase, answer, tools, nextId, history>>

DeadlinePasses ==
    /\ rt.alarm
    /\ LET late == [rt EXCEPT !.alarm = FALSE, !.due = TRUE] IN
       \E way \in Ways(phase) :
          rt' = IF WaitIsDue(late, way) THEN DispatchDueGoalWait(late, way) ELSE late
    /\ UNCHANGED <<phase, answer, tools, nextId, history>>

-----------------------------------------------------------------------------
\* Compaction: of the user, at the end of a run, or to retry after an overflow.

BeforeCompact(r) ==
    LET recorded == Persist(RecordUsage(CancelContinuation(r))) IN
    IF ~Owns(r) \/ ~CanRecord(r) THEN r
    ELSE IF BudgetReached(recorded) THEN BudgetStop(recorded) ELSE recorded

Compacting == {"compact_manual", "compact_auto", "compact_retry"}
CompactBegins(where) ==
    /\ where = "compact_manual" => phase = "idle" /\ rt.queue = <<>>
    /\ where # "compact_manual" => phase = "ended" /\ ~Queued(rt)
    /\ where = "compact_retry" => answer.stop = "overflow"
    /\ rt' = BeforeCompact(rt)
    /\ lull' = (lull \/ rt.intent # 0 \/ rt.delivery # 0)
    /\ phase' = IF (Owns(rt) /\ ~Owns(rt'))
                  \/ (where = "compact_retry" /\ rt.goal.status = "budget_limited")
                THEN phase ELSE where
    /\ answer' = IF where = "compact_auto" THEN NoAnswer ELSE answer
    /\ UNCHANGED <<tools, nextId, asked, solo>>

SessionCompact(r) ==
    LET loaded == RecordUsage([r EXCEPT !.goal = r.saved])
        kept == IF CanRecord(r) THEN Persist(loaded) ELSE [r EXCEPT !.goal = r.saved]
    IN  IF ~Owns(r) THEN [r EXCEPT !.recovery = NoRecovery]
        ELSE IF BudgetReached(kept) THEN BudgetStop(kept)
        ELSE IF ~CanRecord(r) \/ phase = "compact_retry" THEN kept
        ELSE [RequestContinuation([kept EXCEPT !.recovery = NoRecovery]) EXCEPT !.timer = TRUE]

CompactEnds ==
    /\ phase \in Compacting
    /\ LET done == SessionCompact(rt) IN
       /\ rt' = IF phase = "compact_retry" THEN AgentStart(done) ELSE done
       /\ phase' = IF phase = "compact_retry" THEN "model"
                   ELSE IF phase = "compact_auto" THEN "ended" ELSE "idle"
    /\ answer' = IF phase = "compact_retry" THEN NoAnswer ELSE answer
    /\ asked' = (asked \/ rt'.run.id = Foreign)
    /\ UNCHANGED <<tools, nextId, solo, lull>>

CompactFails ==
    /\ phase \in Compacting
    /\ phase' = IF phase = "compact_manual" THEN "idle" ELSE "ended"
    /\ answer' = NoAnswer
    /\ UNCHANGED <<rt, tools, nextId, history>>

-----------------------------------------------------------------------------
\* Sessions

\* session_start: the goal is read from the session, whatever else there was is gone.
Restored(r) ==
    LET goal == r.saved
        bare == [r EXCEPT
            !.goal = goal, !.intent = 0, !.delivery = 0, !.timer = FALSE,
            !.recovery = NoRecovery, !.run = NoRun, !.guard = 0, !.stale = FALSE,
            !.inputs = <<>>, !.retry = "none", !.alarm = FALSE, !.due = FALSE,
            !.owner = IF @ = "goal" THEN "none" ELSE @,
            !.queue = <<>>, !.aborting = FALSE]
        owned == RecordUsage([bare EXCEPT !.owner = "goal",
                                          !.goal = IF @.reset THEN Fresh(@) ELSE @])
    IN  IF goal.status # "active" THEN bare
        ELSE IF bare.owner = "other"
        THEN Persist([bare EXCEPT !.goal.status = "paused", !.goal.waiting = "no"])
        ELSE IF BudgetReached(owned) THEN BudgetStop(owned)
        ELSE IF TurnsReached(owned) \/ NoProgress(owned) THEN SafetyPause(owned, FALSE)
        ELSE IF ~tools THEN PauseForTools(owned, FALSE)
        ELSE RestoreWaitTimer(Persist(owned))

Starts(r) ==
    \E owner \in IF r.owner = "goal" THEN {"goal"} ELSE {"none", "other"} :
        rt' = [Restored([r EXCEPT !.owner = owner]) EXCEPT !.aborting = FALSE]
SessionStart(r) ==
    /\ Starts(r)
    /\ phase' = "idle" /\ answer' = NoAnswer
    /\ asked' = TRUE /\ lull' = Owns(rt')
    /\ solo' = IF r.saved.reset THEN 0 ELSE solo
    /\ UNCHANGED <<tools, nextId>>

\* session_shutdown of an idle agent, and the next session_start.
Reload ==
    /\ phase = "idle"
    /\ SessionStart(ReleaseWorkflow(Persist(IF Active(rt) THEN RecordUsage(rt) ELSE rt)))
Crash ==
    /\ rt.goal # NoGoal
    /\ SessionStart(ReleaseWorkflow(rt))

-----------------------------------------------------------------------------
UserCommand == \/ StartGoal \/ ReplaceGoal \/ PauseGoal \/ ClearGoal
               \/ ResumeGoal \/ ResumeWaiting
               \/ \E budget \in {"kept", "raised", "lowered"} : EditGoal(budget)
Outside == \/ ExtInput \/ CustomMessage \/ UserAborts \/ OtherWorkflow \/ ToolsChange
           \/ \E kind \in {"user", "steer", "follow"} : UserInput(kind)
Run == \/ Input \/ PromptStarts \/ Respond \/ CallTool \/ DeliverQueued
       \/ NextTurn \/ AgentEnd \/ Retry \/ ContinueQueued \/ AgentSettled
       \/ DispatchTimer \/ DeadlinePasses
       \/ \E where \in Compacting : CompactBegins(where)
       \/ CompactEnds \/ CompactFails

Next == UserCommand \/ Outside \/ Run \/ Reload \/ Crash
Spec == Init /\ [][Next]_vars

-----------------------------------------------------------------------------
\* Properties

\* The runtime, Pi and the histories have their types; nothing of a run outlives it,
\* and at most one prompt is being prepared.
Statuses == {"none", "active", "paused", "blocked", "usage_limited", "budget_limited"}
TypeOK ==
    /\ rt.goal.id \in 0 .. MaxGoals /\ rt.goal.status \in Statuses
    /\ {rt.goal.turns, rt.goal.repeats} \subseteq Nat
    /\ rt.goal.waiting \in Waitings /\ Waits(rt) => Active(rt)
    /\ rt.run.id \in 0 .. Foreign /\ {rt.intent, rt.delivery, rt.guard} \subseteq 0 .. MaxGoals
    /\ rt.retry \in {"none", "armed", "exhausted"} /\ rt.owner \in {"none", "goal", "other"}
    /\ phase \in {"idle", "starting", "model", "tool", "boundary", "ended"}
                 \union Compacting
    /\ phase \in {"idle", "starting"} => rt.inputs = <<>> /\ rt.guard = 0
    /\ (phase = "starting") <=> (FirstAt("starting") # 0)
    /\ solo \in 0 .. AutomaticTurns + 1 /\ {asked, lull, tools} \subseteq BOOLEAN

\* Between two things that the user asks for, pi-goal makes the model respond at most
\* AutomaticTurns times, however runs are retried, compacted, queued and restored;
\* the counters stop at their limits, but for a last response that has failed.
AutomaticWorkIsBounded ==
    /\ solo <= AutomaticTurns
    /\ rt.goal.turns <= AutomaticTurns + 1 /\ rt.goal.repeats <= NoProgressTurns

\* When Pi is idle and no message is on its way, an active goal waits, or its
\* continuation is being sent or is to be sent; it is left alone only after the steps
\* named by lull.  A timed wait is watched by an alarm unless its retry has failed too.
ActiveGoalsMove ==
    /\ (phase = "idle" /\ rt.queue = <<>> /\ Owns(rt) /\ ~Waits(rt)) =>
           rt.intent = rt.goal.id \/ lull
    /\ (phase = "idle" /\ rt.goal.waiting = "timed") =>
           rt.alarm \/ rt.retry = "exhausted" \/ rt.queue # <<>>

\* Goal holds the workflow of the session as long as a goal is active, and no longer:
\* an activation that fails, a stop and a restoration give it back.  The exception is a
\* disagreement with the README: a replacement that is confirmed after the goal has
\* stopped and the tools are gone keeps what it has acquired.
KeepsWhatItTook == Stopped(rt) /\ ~tools /\ rt' = [rt EXCEPT !.owner = "goal"]
GroupFollows == (rt.owner = "goal") <=> Active(rt)
GroupFollowsGoal ==
    [][GroupFollows /\ ~KeepsWhatItTook => GroupFollows']_vars

\* What is requested or sent on behalf of a goal is for the goal that is active now,
\* and it is one thing: no second continuation, none for a goal that waits.
OwnedWorkIsCurrent ==
    /\ {rt.intent, rt.delivery} \subseteq {0, rt.goal.id}
    /\ rt.intent = 0 \/ rt.delivery = 0
    /\ (rt.intent # 0 \/ rt.delivery # 0) => Owns(rt) /\ ~Waits(rt)
    /\ rt.timer => Owns(rt)
    /\ \A i, j \in DOMAIN rt.queue : {rt.queue[i].mark, rt.queue[j].mark} = {"live"} => i = j

\* The state is well-formed, and what is requested or sent is current.
GoalIsSound == TypeOK /\ OwnedWorkIsCurrent
=============================================================================

------------------------------ MODULE PlanMode ------------------------------
(***************************************************************************)
(* pi-plan-mode keeps a session in a mode in which the agent plans and does *)
(* not change files.  The mode, the plan and the frozen tool policy live    *)
(* in memory and, branch by branch, in the session; the workflow mutex, the *)
(* contract that the model reads, queued messages and questions that are    *)
(* still open must follow them through runs, tree navigation, reloads,      *)
(* crashes and other workflows.                                             *)
(*                                                                          *)
(* Source: packages/pi-plan-mode/src/plan-mode.ts with its coordinators     *)
(* finalization-request.ts, implementation-retention.ts, plan-export.ts,    *)
(* saved-plan-preflight.ts, fresh-implementation.ts and state.ts.  A plan   *)
(* and a tool are values; where a plan came from, the thinking level, the   *)
(* texts and the rules of single tools and shell commands are left out.  Of *)
(* the menus and prompts that await, one is open at a time.                 *)
(***************************************************************************)
EXTENDS Naturals, Sequences

CONSTANTS
    Plans,          \* the plans that a run may complete
    Tools,          \* the registered tools that the policy can allow
    Selections,     \* the sets of tools that a workflow may ask for
    Retentions,     \* the retentions of an implementation that may be configured
    Tree,           \* the points of the session's tree to which the user may go
    MaxQueue,       \* bound on the messages that wait for the agent
    None            \* stands for undefined

ASSUME PlanModeAssumption ==
    /\ None \notin Plans
    /\ Selections \subseteq SUBSET Tools
    /\ Retentions \subseteq {"clear-on-start", "clear-after-first-run", "keep"}
    /\ MaxQueue \in Nat \ {0}

VARIABLES
    session,    \* "none", "starting", "on" or "closing"
    holder,     \* who holds the agent-workflow group: "free", "plan", "other"
    helpers,    \* the helper tools of Plan mode are active
    active,     \* the other tools that are active
    st,         \* PlanModeState, in memory
    branch,     \* what the current branch of the session holds
    relevant,   \* modeContractsRelevant
    allowed,    \* workflowAllowedToolNames
    pending,    \* pendingWorkflowToolPolicy
    final,      \* the pending finalization request
    ready,      \* the plan of readyPresentationIntent
    awaiting,   \* restoredImplementationAwaitingContext is the implementation
    given,      \* implementationWithDeliveredContext is the implementation
    refresh,    \* refreshStateBeforeFirstAgentStart
    installs,   \* the state that session_start read before its await
    arriving,   \* what a fresh session still gets from the planning session
    run,        \* the agent: "idle", "running" or "settling"
    told,       \* the contract in the last request of the run
    queue,      \* messages that wait for the agent
    op,         \* the command that awaits: a menu, an export, a preflight
    asked,      \* history: how far the last request to finalize has come
    shown       \* history: what a run has seen of the implementation

vars == <<session, holder, helpers, active, st, branch, relevant, allowed, pending, final,
          ready, awaiting, given, refresh, installs, arriving, run, told, queue, op, asked, shown>>

environment == <<session, helpers, active, refresh, installs, arriving>>
retention == <<awaiting, given, shown>>
agent == <<run, told, queue>>

-----------------------------------------------------------------------------
Off == [enabled |-> FALSE, plan |-> None, saved |-> None, impl |-> None, policy |-> None]
NewBranch == [state |-> Off, contract |-> "none", said |-> {}]
NewRequest == [retried |-> FALSE, ended |-> FALSE]

Message(kind, plan) == [kind |-> kind, plan |-> plan]
Prompt == Message("prompt", None)
Finalize == Message("finalize", None)
Retry == Message("retry", None)

\* What starts an implementation: an injected plan has a handoff of its own.
Implementation(plan, keeps) ==
    IF keeps = "clear-on-start" THEN None ELSE [plan |-> plan, keeps |-> keeps]
Implementations == {None} \cup [plan : Plans, keeps : Retentions \ {"clear-on-start"}]
Handoff(impl) == IF impl = None THEN Prompt ELSE Message("handoff", impl.plan)
Messages == {Prompt, Finalize, Retry} \cup {Message("handoff", plan) : plan \in Plans}

Init ==
    /\ session = "none" /\ holder = "free" /\ helpers = TRUE /\ active = Tools
    /\ st = Off /\ branch = NewBranch /\ relevant = FALSE
    /\ allowed = {} /\ pending = "none" /\ final = None /\ ready = None
    /\ awaiting = FALSE /\ given = FALSE /\ refresh = FALSE
    /\ installs = Off /\ arriving = None
    /\ run = "idle" /\ told = "unsent" /\ queue = <<>>
    /\ op = None /\ asked = "no" /\ shown = "no"

-----------------------------------------------------------------------------
Owns == holder = "plan"                 \* workflowMutex.isOwner(workflowOwner)
Idle == run # "running"                 \* ctx.isIdle()
Mode(s) == IF s.enabled THEN "plan" ELSE "normal"
Expected(s) == [branch EXCEPT !.state = s, !.contract = Mode(s)]
Persisted(s) == [branch EXCEPT !.state = s]

\* A command that awaits notices that its lifecycle is over, whatever else it knows, or,
\* an export, that the state is another object than the one it read.
Commands ==
    [kind : {"launch", "implement", "fresh", "export"}, plan : Plans \cup {None},
     ready : BOOLEAN, current : BOOLEAN, same : BOOLEAN]
ASSUME CommandsAssumption == None \notin Commands

Superseded ==
    IF op = None THEN None
    ELSE [kind |-> op.kind, plan |-> None, ready |-> FALSE, current |-> FALSE, same |-> FALSE]
Reassigned == IF op # None /\ op.kind = "export" THEN [op EXCEPT !.same = FALSE] ELSE op

\* advanceWorkflowGeneration: the counter is compared by what must not outlive
\* it, which is marked here as outdated.
AdvanceWorkflow == pending' = "none" /\ final' = None /\ op' = Superseded /\ asked' = "no"

\* Pi takes a message: at once when it is idle, else as a follow-up.
CanSend == Len(queue) < IF Idle THEN 1 ELSE MaxQueue
Send(message) == queue' = Append(queue, message)
Without(i) == [j \in 1..(Len(queue) - 1) |-> queue[IF j < i THEN j ELSE j + 1]]
FinalizeQueued == \E i \in 1..Len(queue) : queue[i] = Finalize
RetrySent == Len(queue') > Len(queue) /\ queue'[Len(queue')] = Retry

-----------------------------------------------------------------------------
\* The tool policy

Workflow(selection) ==
    [desired |-> selection, allowed |-> selection \cap active, resolved |-> FALSE, frozen |-> {}]

ResolvedPolicy(policy) == policy.desired \cap active
\* Mutant: revalidation starts from what was asked for instead of what was frozen.
RevalidatedFromDesired(policy) == policy.desired \cap active

RevalidatedPolicy(policy) == policy.allowed \cap active

\* The policy that the first request of a workflow freezes; frozen is history.
SettledPolicy(policy) ==
    IF policy.resolved
    THEN [policy EXCEPT !.allowed = RevalidatedPolicy(policy)]
    ELSE [policy EXCEPT !.allowed = ResolvedPolicy(policy), !.resolved = TRUE,
                        !.frozen = ResolvedPolicy(policy)]

RestoredPolicy(policy) ==
    IF policy.resolved THEN policy ELSE [policy EXCEPT !.allowed = ResolvedPolicy(policy)]

RestoreWorkflowToolPolicy(policy) ==
    /\ allowed' = IF policy.resolved THEN RevalidatedPolicy(policy) ELSE policy.allowed
    /\ pending' = IF policy.resolved THEN "revalidate" ELSE "resolve"

-----------------------------------------------------------------------------
\* Restoring the state of a branch

RestorePlanModeState(s) ==
    [s EXCEPT !.plan = IF s.enabled THEN s.plan ELSE None,
              !.policy = IF s.enabled THEN s.policy ELSE None,
              !.impl = IF s.enabled THEN None ELSE s.impl,
              !.saved = IF s.enabled \/ s.impl # None THEN None ELSE s.saved]

\* What a branch can hold, and with it a point of the session's tree.
Policies ==
    {policy \in [desired : Selections, allowed : SUBSET Tools, resolved : BOOLEAN,
                 frozen : SUBSET Tools] :
        IF policy.resolved
        THEN policy.allowed \subseteq policy.frozen /\ policy.frozen \subseteq policy.desired
        ELSE policy.allowed \subseteq policy.desired /\ policy.frozen = {}}

States ==
    {s \in [enabled : BOOLEAN, plan : Plans \cup {None}, saved : Plans \cup {None},
            impl : Implementations, policy : Policies \cup {None}] :
        IF s.enabled
        THEN s.policy \in Policies /\ s.saved = None /\ s.impl = None
        ELSE s.policy = None /\ s.plan = None /\ (s.saved = None \/ s.impl = None)}

Points ==
    {point \in [state : States, contract : {"none", "plan", "normal"}, said : SUBSET Plans] :
        /\ point.contract = "none" => point.state = Off /\ point.said = {}
        /\ point.state.saved # None => point.contract = "normal"}

ASSUME TreeAssumption == Tree \subseteq Points

\* restoreModeContractTracking: later contexts carry a contract
TracksContracts(b, s) ==
    \/ b.contract # "none" \/ s.enabled \/ s.saved # None \/ s.impl # None

\* Mutant: the state is assigned before the group is asked for.
InstallRefusedLate(candidate) ==
    /\ candidate.enabled
    /\ holder = "other" \/ ~helpers
    /\ st' = candidate /\ allowed' = {} /\ pending' = "none"
    /\ awaiting' = FALSE
    /\ UNCHANGED holder

\* The mutex is acquired first and given back only if it was acquired here.
InstallRefused(candidate) ==
    /\ candidate.enabled
    /\ holder = "other" \/ ~helpers
    /\ st' = Off /\ allowed' = {} /\ pending' = "none"
    /\ awaiting' = FALSE
    /\ UNCHANGED holder

InstallDone(candidate) ==
    /\ candidate.enabled => holder # "other" /\ helpers
    /\ IF candidate.enabled
       THEN LET policy == RestoredPolicy(candidate.policy)
            IN /\ st' = [candidate EXCEPT !.policy = policy]
               /\ RestoreWorkflowToolPolicy(policy)
               /\ holder' = "plan"
       ELSE /\ st' = candidate
            /\ allowed' = {} /\ pending' = "none"
            /\ holder' = IF st.enabled THEN "free" ELSE holder
    /\ awaiting' = (st'.impl # None /\ st'.impl.keeps # "keep")

\* installRestoredState and what follows it in each handler: a changed policy is
\* persisted, and an implementation waits for its first context.
InstallRestored(candidate, b) ==
    /\ InstallRefused(candidate) \/ InstallDone(candidate)
    /\ branch' = IF st'.enabled /\ st'.policy # candidate.policy
                 THEN [b EXCEPT !.state = st'] ELSE b
    /\ given' = FALSE
    /\ shown' = IF awaiting' THEN "restored" ELSE "no"

-----------------------------------------------------------------------------
\* The session

Volatile ==
    /\ pending' = "none" /\ final' = None /\ ready' = None /\ op' = None
    /\ allowed' = {} /\ given' = FALSE /\ awaiting' = FALSE
    /\ asked' = "no" /\ shown' = "no"

\* session_start up to its await: what it found on the branch is installed later.
\* A fresh session begins with an empty branch, and destination comes later.
Begin(b, destination, isNew) ==
    /\ session' = "starting" /\ holder' = "free"
    /\ st' = Off /\ Volatile
    /\ refresh' = isNew
    /\ branch' = b
    /\ installs' = RestorePlanModeState(b.state)
    /\ relevant' = TracksContracts(b, RestorePlanModeState(b.state))
    /\ arriving' = destination
    /\ run' = "idle" /\ told' = "unsent" /\ queue' = <<>>
    /\ UNCHANGED <<helpers, active>>

SessionStart ==
    /\ session = "none"
    /\ Begin(branch, None, FALSE)

\* Settings have been read.
SessionStarted ==
    /\ session = "starting"
    /\ session' = "on" /\ installs' = Off
    /\ InstallRestored(installs, branch)
    /\ UNCHANGED <<helpers, active, relevant, final, ready, refresh, arriving, agent, op, asked>>

\* setup of newSession: the destination's state and contract reach its branch.
SetUpDestination ==
    /\ session \in {"starting", "on"} /\ run = "idle"
    /\ arriving # None /\ arriving.at = "setup"
    /\ branch' = [branch EXCEPT !.contract = "normal",
                    !.state = IF arriving.impl = None THEN branch.state
                              ELSE [Off EXCEPT !.impl = arriving.impl]]
    /\ arriving' = [arriving EXCEPT !.at = "kickoff"]
    /\ UNCHANGED <<session, holder, helpers, active, st, relevant, allowed, pending,
                   final, ready, retention, refresh, installs, agent, op, asked>>

\* withSession: the handoff is sent to the destination, or cannot be.
KickOff ==
    /\ session = "on" /\ run = "idle" /\ queue = <<>>
    /\ arriving # None /\ arriving.at = "kickoff"
    /\ \/ Send(Handoff(arriving.impl))
       \/ UNCHANGED queue
    /\ arriving' = None
    /\ UNCHANGED <<session, holder, helpers, active, st, branch, relevant, allowed,
                   pending, final, ready, retention, refresh, installs, run, told, op, asked>>

\* session_tree: the user goes to another point of the tree.
SessionTree(point) ==
    /\ session = "on" /\ run = "idle" /\ queue = <<>> /\ arriving = None
    /\ final' = None /\ asked' = "no" /\ ready' = None /\ op' = Superseded
    /\ LET candidate == RestorePlanModeState(point.state)
       IN /\ relevant' = TracksContracts(point, candidate)
          /\ InstallRestored(candidate, point)
    /\ UNCHANGED <<environment, agent>>

\* session_shutdown up to its await of settings that are being written.
ShutdownBegins ==
    /\ session = "on"
    /\ session' = "closing"
    /\ final' = None /\ asked' = "no" /\ ready' = None /\ op' = None /\ refresh' = FALSE
    /\ allowed' = {} /\ pending' = "none"
    /\ awaiting' = FALSE /\ given' = FALSE /\ shown' = "no"
    /\ run' = "idle" /\ told' = "unsent" /\ queue' = <<>> /\ arriving' = None
    /\ UNCHANGED <<holder, helpers, active, st, branch, relevant, installs>>

ShutdownEnds ==
    /\ session = "closing"
    /\ session' = "none" /\ holder' = "free"
    /\ branch' = Persisted(st)
    /\ UNCHANGED <<helpers, active, st, relevant, allowed, pending, final, ready,
                   retention, refresh, installs, arriving, agent, op, asked>>

\* The process dies; the branch is what the next session restores.
Crash ==
    /\ session # "none"
    /\ session' = "none" /\ holder' = "free" /\ st' = Off /\ Volatile
    /\ refresh' = FALSE /\ arriving' = None /\ installs' = Off
    /\ run' = "idle" /\ told' = "unsent" /\ queue' = <<>>
    /\ UNCHANGED <<helpers, active, branch, relevant>>

-----------------------------------------------------------------------------
\* Entering Plan mode

\* enterPlanMode when admitted: nothing of it happens if the group is held, the
\* helper tools are inactive or the contract cannot be published.
Entered(selection) ==
    [st EXCEPT !.enabled = TRUE, !.saved = None, !.impl = None, !.policy = Workflow(selection)]

CanEnter == session = "on" /\ Idle /\ ~st.enabled /\ holder = "free" /\ helpers

\* beginWorkflowToolPolicy follows advanceWorkflowGeneration.
Enter(selection) ==
    /\ st' = Entered(selection)
    /\ branch' = Expected(st')
    /\ holder' = "plan" /\ relevant' = TRUE
    /\ allowed' = st'.policy.allowed
    /\ pending' = "resolve" /\ final' = None /\ asked' = "no"
    /\ awaiting' = FALSE /\ given' = FALSE /\ shown' = "no"

\* savedPlanBlocksNewWorkflow
SavedPlanBlocks == st.saved # None

\* /plan start, the shortcut, and the menu of an active implementation.
StartPlan(selection) ==
    /\ CanEnter /\ ~SavedPlanBlocks
    /\ Enter(selection) /\ op' = Superseded
    /\ UNCHANGED <<environment, ready, agent>>

\* /plan <prompt>: rollbackNewActivation undoes it if the prompt cannot be sent;
\* the Normal contract may fail as well.
StartWithPrompt(selection) ==
    /\ CanEnter /\ ~SavedPlanBlocks /\ queue = <<>>
    /\ op' = Superseded
    /\ \/ Enter(selection) /\ Send(Prompt) /\ UNCHANGED ready
       \/ \E contract \in {"plan", "normal"} :
              /\ branch' = [branch EXCEPT !.state = st, !.contract = contract]
              /\ relevant' = TRUE
              /\ pending' = "none" /\ final' = None /\ asked' = "no"
              /\ ready' = None /\ allowed' = {}
              /\ UNCHANGED <<holder, st, retention, queue>>
    /\ UNCHANGED <<environment, run, told>>

\* A command or menu that awaits something: a launch menu, an export of a ready
\* plan, the preflight of a saved plan, or a fresh implementation.
Open(kind, plan) ==
    [kind |-> kind, plan |-> plan, ready |-> st.enabled, current |-> TRUE, same |-> TRUE]

LaunchMenuOpens ==
    /\ session = "on" /\ op = None
    /\ ~st.enabled /\ ~SavedPlanBlocks
    /\ op' = Open("launch", None)
    /\ UNCHANGED <<environment, holder, st, branch, relevant, allowed, pending, final, ready,
                   retention, agent, asked>>

\* isCurrent of the lifecycle that captureMenuLifecycle has captured.
Current == op.current /\ (st.enabled => Owns)

\* start and startWithTools of the launch menu look at no saved plan.
LaunchMenuStarts(selection) ==
    /\ op # None /\ op.kind = "launch"
    /\ op' = None
    /\ IF Current /\ CanEnter
       THEN Enter(selection)
       ELSE UNCHANGED <<holder, st, branch, relevant, allowed, pending, final, asked, retention>>
    /\ UNCHANGED <<environment, ready, agent>>

-----------------------------------------------------------------------------
\* Leaving Plan mode; a transition waits for an idle agent (allowModeTransition)

\* The Normal contract is published, or nothing happens.
Leave(s) ==
    /\ st' = s
    /\ branch' = [branch EXCEPT !.state = s,
                    !.contract = IF st.enabled \/ relevant THEN "normal" ELSE branch.contract]
    /\ pending' = "none" /\ final' = None /\ asked' = "no"
    /\ ready' = None /\ allowed' = {}
    /\ holder' = IF st.enabled THEN "free" ELSE holder
    /\ UNCHANGED relevant

ExitPlanMode ==
    /\ Leave(Off)
    /\ awaiting' = FALSE /\ given' = FALSE /\ shown' = "no"

\* /plan exit, off and the shortcut; it also clears a saved or an active plan.
Exit ==
    /\ session = "on" /\ Idle
    /\ ExitPlanMode /\ op' = Superseded
    /\ UNCHANGED <<environment, agent>>

SavePlanForLater ==
    /\ session = "on" /\ Idle /\ st.enabled /\ st.plan # None
    /\ Leave([Off EXCEPT !.saved = st.plan]) /\ op' = Superseded
    /\ UNCHANGED <<environment, retention, agent>>

\* startImplementation from plan on.  If the handoff cannot be sent, the state
\* before it is restored, with a Plan contract where that can be published.
Implement(plan, keeps) ==
    LET impl == Implementation(plan, keeps)
    IN \/ /\ Leave([Off EXCEPT !.impl = impl])
          /\ Send(Handoff(impl))
          /\ awaiting' = FALSE /\ given' = FALSE
          /\ shown' = IF impl # None /\ plan \in branch.said THEN "heard" ELSE "no"
       \/ /\ pending' = "none" /\ final' = None /\ asked' = "no"
          /\ ~st.enabled /\ allowed' = {} /\ UNCHANGED st
          /\ branch' = [branch EXCEPT !.state = st, !.contract = "normal"]
          /\ UNCHANGED <<holder, relevant, ready, retention, queue>>
       \/ /\ final' = None /\ asked' = "no"
          /\ st.enabled
          /\ st' = [st EXCEPT !.policy = RestoredPolicy(st.policy)]
          /\ RestoreWorkflowToolPolicy(st'.policy)
          /\ \E contract \in {"plan", "normal"} :
                 branch' = [branch EXCEPT !.state = st', !.contract = contract]
          /\ UNCHANGED <<holder, relevant, ready, retention, queue>>

ImplementReady(keeps) ==
    /\ session = "on" /\ Idle /\ queue = <<>>
    /\ st.enabled /\ st.plan # None
    /\ Implement(st.plan, keeps) /\ op' = Superseded
    /\ UNCHANGED <<environment, run, told>>

\* The preflight of a saved plan asks for the model's credential.
ImplementSavedBegins ==
    /\ session = "on" /\ Idle /\ op = None
    /\ ~st.enabled /\ st.saved # None
    /\ op' = Open("implement", st.saved)
    /\ UNCHANGED <<environment, holder, st, branch, relevant, allowed, pending, final, ready,
                   retention, agent, asked>>

ImplementSavedEnds(keeps) ==
    /\ op # None /\ op.kind = "implement"
    /\ op' = None
    /\ \/ /\ op.current /\ ~st.enabled /\ st.saved = op.plan /\ Idle /\ queue = <<>>
          /\ Implement(op.plan, keeps)
       \/ UNCHANGED <<holder, st, branch, relevant, allowed, pending, final, ready, retention,
                      queue, asked>>
    /\ UNCHANGED <<environment, run, told>>

\* Start fresh and implement: waits for the agent and the model's credential.
FreshBegins ==
    /\ session = "on" /\ op = None /\ arriving = None
    /\ \E plan \in {st.plan, st.saved} \ {None} : op' = Open("fresh", plan)
    /\ UNCHANGED <<environment, holder, st, branch, relevant, allowed, pending, final, ready,
                   retention, agent, asked>>

FreshRefused ==
    /\ op # None /\ op.kind = "fresh"
    /\ op' = None
    /\ UNCHANGED <<environment, holder, st, branch, relevant, allowed, pending, final, ready,
                   retention, agent, asked>>

FreshIsCurrent ==
    /\ Current /\ st.enabled = op.ready
    /\ op.plan = IF st.enabled THEN st.plan ELSE st.saved

\* The planning session is shut down and the destination begins.
FreshStarts(keeps) ==
    /\ op # None /\ op.kind = "fresh"
    /\ run = "idle" /\ FreshIsCurrent
    /\ Begin(NewBranch, [impl |-> Implementation(op.plan, keeps), at |-> "setup"], TRUE)

\* The file of a ready plan is written; the plan is done with only if it is still
\* the one that was exported.
ExportBegins ==
    /\ session = "on" /\ Idle /\ op = None
    /\ st.enabled /\ st.plan # None
    /\ op' = Open("export", st.plan)
    /\ UNCHANGED <<environment, holder, st, branch, relevant, allowed, pending, final, ready,
                   retention, agent, asked>>

\* Mutant: the lifecycle is compared, the state that was exported is not.
ExportOfSomePlan == Current /\ Idle

ExportIsCurrent == Current /\ Idle /\ op.same

ExportEnds ==
    /\ op # None /\ op.kind = "export"
    /\ op' = None
    /\ \/ ExportIsCurrent /\ ExitPlanMode
       \/ UNCHANGED <<holder, st, branch, relevant, allowed, pending, final, ready, retention,
                      asked>>
    /\ UNCHANGED <<environment, agent>>

-----------------------------------------------------------------------------
\* The runs of the agent

\* before_agent_start: the first one of a new session restores what its setup has
\* written, and no plan is ready then; each other one gives up the ready plan.
AgentStart ==
    /\ session = "on" /\ run = "idle" /\ queue # <<>>
    /\ run' = "running" /\ told' = "unprompted"
    /\ refresh' = FALSE
    /\ \/ /\ refresh
          /\ InstallRestored(RestorePlanModeState(branch.state), branch)
          /\ relevant' = TracksContracts(branch, RestorePlanModeState(branch.state))
          /\ op' = Reassigned
          /\ UNCHANGED ready
       \/ /\ ~refresh
          /\ IF st.enabled /\ Owns /\ st.plan # None
             THEN /\ st' = [st EXCEPT !.plan = None]
                  /\ branch' = Persisted(st')
                  /\ ready' = None /\ op' = Reassigned
             ELSE UNCHANGED <<st, branch, ready, op>>
          /\ UNCHANGED <<holder, allowed, pending, relevant, retention>>
    /\ UNCHANGED <<session, helpers, active, installs, arriving, final, queue, asked>>

\* message_start: the finalization prompt is a request whoever has sent it.  The
\* handoff of an implementation is among the messages from now on.
MessageStart ==
    /\ session = "on" /\ run = "running" /\ queue # <<>>
    /\ LET message == Head(queue)
       IN /\ IF message = Finalize /\ st.enabled
             THEN final' = NewRequest /\ asked' = "heard"
             ELSE UNCHANGED <<final, asked>>
          /\ IF message.kind = "handoff"
             THEN /\ branch' = [branch EXCEPT !.said = @ \cup {message.plan}]
                  /\ shown' = IF shown = "no" /\ st.impl # None /\ st.impl.plan = message.plan
                              THEN "heard" ELSE shown
             ELSE UNCHANGED <<branch, shown>>
    /\ queue' = Tail(queue)
    /\ told' = "unsent"
    /\ UNCHANGED <<environment, holder, st, relevant, allowed, pending, ready, awaiting, given,
                   run, op>>

\* The first request of a workflow freezes its policy; later ones only narrow it.
ResolvePendingPolicy ==
    /\ pending' = "none"
    /\ IF pending = "none" \/ ~st.enabled \/ ~Owns
       THEN UNCHANGED <<st, branch, allowed, op>>
       ELSE /\ st' = [st EXCEPT !.policy = SettledPolicy(st.policy)]
            /\ allowed' = st'.policy.allowed
            /\ branch' = IF st' = st THEN branch ELSE Persisted(st')
            /\ op' = Reassigned

\* Mutant: a restored implementation waits for its handoff again.
DeliversByHandoff == ~st.enabled /\ st.impl # None /\ st.impl.plan \in branch.said

\* The context has the plan that is implemented: a new one by its handoff, a
\* restored one by the first request after it.
Delivers ==
    /\ ~st.enabled /\ st.impl # None
    /\ awaiting \/ st.impl.plan \in branch.said

\* context, before each request.
Context ==
    /\ session = "on" /\ run = "running" /\ told # "unprompted"
    /\ ResolvePendingPolicy
    /\ awaiting' = (awaiting /\ ~Delivers)
    /\ given' = (given \/ (Delivers /\ st.impl.keeps = "clear-after-first-run"))
    /\ shown' = IF ~st.enabled /\ st.impl # None /\ shown # "no" THEN "delivered" ELSE shown
    /\ told' = IF st.enabled \/ relevant THEN Mode(st) ELSE branch.contract
    /\ UNCHANGED <<environment, holder, relevant, final, ready, run, queue, asked>>

\* plan_mode_question asks the user, which answers a request to finalize.
AskQuestion ==
    /\ session = "on" /\ run = "running" /\ told \in {"plan", "normal", "none"}
    /\ st.enabled /\ Owns
    /\ final' = None /\ asked' = "no"
    /\ UNCHANGED <<environment, holder, st, branch, relevant, allowed, pending, ready, retention,
                   agent, op>>

\* acceptCompletedPlan; the plan that is ready already is not ready anew.
Accept(plan) ==
    /\ final' = None /\ asked' = "no"
    /\ IF st.plan = plan
       THEN UNCHANGED <<st, branch, ready, op>>
       ELSE /\ st' = [st EXCEPT !.plan = plan]
            /\ branch' = Persisted(st')
            /\ ready' = plan /\ op' = Reassigned

\* plan_mode_complete
CompletePlan(plan) ==
    /\ session = "on" /\ run = "running" /\ told \in {"plan", "normal", "none"}
    /\ st.enabled /\ Owns
    /\ Accept(plan)
    /\ UNCHANGED <<environment, holder, relevant, allowed, pending, retention, agent>>

\* History: the run that ends has answered a request that it has heard.
AskedAfter(outcome) ==
    IF outcome # "normal" THEN "no" ELSE IF asked = "heard" THEN "answered" ELSE asked

\* Mutant: a run that was aborted or has failed counts as an answer too.
ObserveAnyRunEnd(outcome) ==
    /\ final' = IF final = None THEN None ELSE [final EXCEPT !.ended = TRUE]
    /\ asked' = AskedAfter(outcome)

\* observeRunEnd: only a run that ends normally counts as an answer, whatever it
\* was about.
ObserveRunEnd(outcome) ==
    /\ final' = IF final = None \/ outcome # "normal" THEN None ELSE [final EXCEPT !.ended = TRUE]
    /\ asked' = AskedAfter(outcome)

\* agent_end, with a plan in the last message or without one.  Pi takes messages
\* that wait back when the user aborts the run.
AgentEnd(outcome, plan) ==
    /\ session = "on" /\ run = "running" /\ told # "unprompted"
    /\ run' = "settling"
    /\ queue' = IF outcome = "cancelled" THEN <<>> ELSE queue
    /\ IF ~(st.enabled /\ Owns)
       THEN UNCHANGED <<st, branch, final, ready, op>> /\ asked' = "no"
       ELSE \/ plan # None /\ Accept(plan)
            \/ /\ plan = None
               /\ ObserveRunEnd(outcome)
               /\ branch' = Persisted(st)
               /\ UNCHANGED <<st, ready, op>>
    /\ UNCHANGED <<environment, holder, relevant, allowed, pending, retention, told>>

\* Pi goes on by itself after agent_end, with a retry or a message that waits.
AgentContinues ==
    /\ session = "on" /\ run = "settling"
    /\ run' = "running" /\ told' = "unsent"
    /\ UNCHANGED <<environment, holder, st, branch, relevant, allowed, pending, final, ready,
                   retention, queue, op, asked>>

\* agent_settled, first part: the implementation of this run has had its plan.
Settled == given /\ st.impl # None /\ st.impl.keeps = "clear-after-first-run"

ClearActiveImplementation ==
    /\ st' = [st EXCEPT !.impl = None]
    /\ branch' = Persisted(st')
    /\ AdvanceWorkflow
    /\ given' = FALSE /\ shown' = "no"
    /\ UNCHANGED <<ready, queue, awaiting>>

\* Second part: one retry for a request that its run has not answered.
RetryDue == final # None /\ st.enabled /\ Owns /\ final.ended /\ ~final.retried

RetryFinalization ==
    /\ Send(Retry)
    /\ final' = [retried |-> TRUE, ended |-> FALSE]
    /\ asked' = "no"
    /\ UNCHANGED <<st, branch, pending, ready, op, retention>>

\* Third part: the ready plan is presented once.
PresentReady ==
    /\ final' = IF final # None /\ st.enabled /\ Owns /\ final.ended THEN None ELSE final
    /\ ready' = IF st.enabled /\ Owns /\ st.plan = ready THEN None ELSE ready
    /\ UNCHANGED <<st, branch, pending, queue, op, retention, asked>>

AgentSettled ==
    /\ session = "on" /\ run = "settling"
    /\ run' = "idle" /\ told' = "unsent"
    /\ \/ Settled /\ ClearActiveImplementation
       \/ /\ ~Settled /\ queue # <<>>
          /\ UNCHANGED <<st, branch, pending, final, ready, queue, op, retention, asked>>
       \/ ~Settled /\ queue = <<>> /\ RetryDue /\ RetryFinalization
       \/ ~Settled /\ queue = <<>> /\ PresentReady     \* no retry due, or not sent
    /\ UNCHANGED <<environment, holder, relevant, allowed>>

\* /plan finalize
RequestFinalPlan ==
    /\ session = "on" /\ st.enabled
    /\ asked' = "no"
    /\ \/ CanSend /\ final' = NewRequest /\ Send(Finalize)
       \/ final' = None /\ UNCHANGED queue
    /\ UNCHANGED <<environment, holder, st, branch, relevant, allowed, pending, ready, retention,
                   run, told, op>>

-----------------------------------------------------------------------------
\* Others

UserPrompts(message) ==
    /\ session = "on" /\ CanSend /\ arriving = None
    /\ Send(message)
    /\ UNCHANGED <<environment, holder, st, branch, relevant, allowed, pending, final, ready,
                   retention, run, told, op, asked>>

\* Pi gives a message up after it has taken it: it finds that it has no model or
\* no credential, or the user takes a follow-up back.  A request to finalize that
\* was still to be heard stays pending.
MessageLost ==
    /\ session = "on"
    /\ \E i \in 1..Len(queue) :
         /\ told = "unprompted" => i # 1     \* the run has begun with the first
         /\ queue' = Without(i)
    /\ asked' = IF asked = "no" /\ final # None /\ FinalizeQueued /\ ~FinalizeQueued'
                THEN "lost" ELSE asked
    /\ UNCHANGED <<environment, holder, st, branch, relevant, allowed, pending, final, ready,
                   retention, run, told, op>>

\* Another workflow of the session, a goal, acquires and releases the group.
OtherWorkflow ==
    /\ session \in {"starting", "on"}
    /\ \/ holder = "free" /\ holder' = "other"
       \/ holder = "other" /\ holder' = "free"
    /\ UNCHANGED <<environment, st, branch, relevant, allowed, pending, final, ready, retention,
                   agent, op, asked>>

\* Another extension changes the active tools.
ToolsChange ==
    /\ session \in {"starting", "on"}
    /\ helpers' \in BOOLEAN /\ active' \in SUBSET Tools
    /\ <<helpers, active>>' # <<helpers, active>>
    /\ UNCHANGED <<session, holder, st, branch, relevant, allowed, pending, final, ready,
                   retention, refresh, installs, arriving, agent, op, asked>>

SessionNext ==
    \/ SessionStart \/ SessionStarted \/ SetUpDestination \/ KickOff
    \/ \E point \in Tree : SessionTree(point)
    \/ ShutdownBegins \/ ShutdownEnds \/ Crash

CommandNext ==
    \/ \E selection \in Selections :
           StartPlan(selection) \/ StartWithPrompt(selection) \/ LaunchMenuStarts(selection)
    \/ LaunchMenuOpens
    \/ Exit \/ SavePlanForLater \/ RequestFinalPlan
    \/ \E keeps \in Retentions :
           ImplementReady(keeps) \/ ImplementSavedEnds(keeps) \/ FreshStarts(keeps)
    \/ ImplementSavedBegins \/ FreshBegins \/ FreshRefused \/ ExportBegins \/ ExportEnds

AgentNext ==
    \/ UserPrompts(Prompt) \/ UserPrompts(Finalize) \/ MessageLost
    \/ AgentStart \/ MessageStart \/ Context \/ AskQuestion
    \/ \E plan \in Plans : CompletePlan(plan) \/ AgentEnd("normal", plan)
    \/ \E outcome \in {"normal", "cancelled", "error"} : AgentEnd(outcome, None)
    \/ AgentContinues \/ AgentSettled

Next == SessionNext \/ CommandNext \/ AgentNext \/ OtherWorkflow \/ ToolsChange

Spec == Init /\ [][Next]_vars

-----------------------------------------------------------------------------
(***************************************************************************)
(* Every value has its type; what session_tree may meet is what the branch *)
(* can be (Points).                                                        *)
(***************************************************************************)
TypeOK ==
    /\ session \in {"none", "starting", "on", "closing"}
    /\ holder \in {"free", "plan", "other"}
    /\ helpers \in BOOLEAN /\ active \subseteq Tools
    /\ st \in States /\ branch \in Points /\ installs \in States
    /\ relevant \in BOOLEAN /\ allowed \subseteq Tools
    /\ pending \in {"none", "resolve", "revalidate"}
    /\ final \in {None} \cup [retried : BOOLEAN, ended : BOOLEAN]
    /\ ready \in Plans \cup {None}
    /\ awaiting \in BOOLEAN /\ given \in BOOLEAN /\ refresh \in BOOLEAN
    /\ run \in {"idle", "running", "settling"}
    /\ told \in {"unprompted", "unsent", "none", "plan", "normal"}
    /\ queue \in Seq(Messages) /\ Len(queue) <= MaxQueue
    /\ op \in {None} \cup Commands
    /\ arriving \in {None} \cup [impl : Implementations, at : {"setup", "kickoff"}]
    /\ asked \in {"no", "heard", "answered", "lost"}
    /\ shown \in {"no", "restored", "heard", "delivered"}

(***************************************************************************)
(* A session that plans holds the agent-workflow group, whatever way it    *)
(* came to plan: started, restored by a reload, after a crash or by tree   *)
(* navigation, or put back after a handoff that failed.  Otherwise a goal  *)
(* could run in a session whose tools are restricted.                      *)
(***************************************************************************)
PlanningIsOwned == session = "on" /\ st.enabled => Owns

(***************************************************************************)
(* The state is well-formed, and a session that plans owns the group.      *)
(***************************************************************************)
PlanningIsSound == TypeOK /\ PlanningIsOwned

(***************************************************************************)
(* The contract that the model reads in the requests of a run is that of   *)
(* the mode whose tool rules are enforced, though contracts are entries of *)
(* a branch and the mode is state in memory.                               *)
(***************************************************************************)
ModelHearsItsMode ==
    run = "running" /\ told \in {"none", "plan", "normal"} => (told = "plan") = st.enabled

(***************************************************************************)
(* A workflow sends no request before its policy is frozen, and from then  *)
(* on allows no tool that it did not allow at its first request, not even  *)
(* after reloads, crashes and tree navigation.                             *)
(***************************************************************************)
FrozenPolicyOnlyNarrows ==
    st.enabled =>
        /\ run = "running" /\ told = "plan" => st.policy.resolved
        /\ st.policy.resolved => allowed \cup st.policy.allowed \subseteq st.policy.frozen

(***************************************************************************)
(* The mode that the model reads, the rules that are enforced and the      *)
(* frozen policy agree.                                                    *)
(***************************************************************************)
ModeIsEnforced == ModelHearsItsMode /\ FrozenPolicyOnlyNarrows

(***************************************************************************)
(* A retry blames the agent for not having finalized the plan: it follows  *)
(* only a run that has heard the request, has ended normally and has       *)
(* neither asked a question nor completed a plan, and it follows once.     *)
(* Unless Pi has lost a request before a run heard it: that one stays      *)
(* pending, and the next run that ends normally is blamed.  A request that *)
(* still waits for the agent is not held against the run before it, nor is *)
(* one against a run that was aborted or has failed.                       *)
(***************************************************************************)
RetryFollowsItsRequest == [][RetrySent => asked \in {"answered", "lost"}]_vars

(***************************************************************************)
(* An implementation that lasts through its first run is given up when a   *)
(* run settles exactly if that run, or one before it, was its own: a       *)
(* request of it had the handoff (or an equal, older one) in its context,  *)
(* or was the first after the implementation was restored.  One that is    *)
(* kept is not given up.                                                   *)
(***************************************************************************)
FirstRunRetention ==
    [][run = "settling" /\ run' = "idle" /\ session' = "on" /\ st.impl # None =>
          (st'.impl = None)
        = (st.impl.keeps = "clear-after-first-run" /\ shown = "delivered")]_vars

(***************************************************************************)
(* A command that has waited for its user, a file or a credential acts on  *)
(* the plan that it was called for, and a menu that starts Plan mode       *)
(* never overwrites a saved plan.                                          *)
(***************************************************************************)
CommandsActOnTheirPlan ==
    [][op # None /\ op' = None /\ st' # st /\ session = "on" /\ session' \in {"on", "starting"} =>
          CASE op.kind = "launch"    -> st.saved = None
            [] op.kind = "export"    -> st.enabled /\ st.plan = op.plan
            [] op.kind = "implement" -> ~st.enabled /\ st.saved = op.plan
            [] op.kind = "fresh"     -> op.plan \in {st.plan, st.saved}]_vars
=============================================================================

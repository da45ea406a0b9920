--------------------------- MODULE PlanMode_proofs ---------------------------
(***************************************************************************)
(* Proofs about PlanMode.  The state in memory, the branch of the session, *)
(* the queue of messages and the command that awaits are tied together by  *)
(* one inductive invariant, IInv; each invariant and action property that  *)
(* the run checks follows from it.                                         *)
(***************************************************************************)
EXTENDS PlanMode, SequenceTheorems, TLAPS

(***************************************************************************)
(* What runs only in a session, and what a session that starts has not got *)
(* yet.                                                                    *)
(***************************************************************************)
Phases ==
    /\ op # None \/ run # "idle" => session = "on"
    /\ refresh => run = "idle"
    /\ session = "starting" => st = Off /\ final = None

(***************************************************************************)
(* A state that is not Off has a branch with a contract, and later         *)
(* contexts carry contracts; without that the branch has no Plan contract. *)
(***************************************************************************)
Carries(s) ==
    /\ s # Off => branch.contract # "none" /\ relevant
    /\ s.saved # None => branch.contract = "normal"

HandoffQueued == \E i \in 1..Len(queue) : queue[i].kind = "handoff"
HandoffArrives == arriving # None /\ arriving.at = "kickoff"

ContractInv ==
    /\ session \in {"on", "closing"} => Carries(st)
    /\ session = "starting" => Carries(installs)
    /\ session \in {"starting", "on"} /\ ~relevant => branch.contract # "plan"
    /\ HandoffQueued \/ HandoffArrives => branch.contract # "none"

(***************************************************************************)
(* A workflow whose policy is not pending, or whose contract the model has *)
(* read, has resolved it, and the tools that are allowed come from the     *)
(* policy that it has frozen.                                              *)
(***************************************************************************)
PolicyInv ==
    st.enabled =>
        /\ session = "on" /\ pending = "none" => st.policy.resolved
        /\ run = "running" /\ told = "plan" => st.policy.resolved
        /\ st.policy.resolved => allowed \subseteq st.policy.frozen

(***************************************************************************)
(* A request to finalize that has not been retried still waits for the     *)
(* agent, or has been heard or lost; one that a run has ended with is not  *)
(* waiting for its answer.  The retry is never behind another message.     *)
(***************************************************************************)
RequestInv ==
    /\ \A i \in 2..Len(queue) : queue[i] # Retry
    /\ session = "on" /\ refresh /\ ~st.enabled => final = None
    /\ session = "on" /\ st.enabled /\ final # None /\ ~final.retried =>
          /\ FinalizeQueued \/ asked # "no"
          /\ final.ended => asked # "heard"

(***************************************************************************)
(* The coordinator's view of an implementation, awaiting and given, agrees *)
(* with the history of what a run has had of it.                           *)
(***************************************************************************)
RetentionInv ==
    session = "on" /\ st.impl # None /\ st.impl.keeps = "clear-after-first-run" =>
        /\ given = (shown = "delivered")
        /\ ~given => (shown # "no") = (awaiting \/ st.impl.plan \in branch.said)

(***************************************************************************)
(* What a command that awaits may rely on while it has not been told       *)
(* otherwise; the state that a fresh session restores at its first run     *)
(* brings no saved plan from nowhere.                                      *)
(***************************************************************************)
CommandInv ==
    /\ refresh /\ session \in {"starting", "on"} =>
          branch.state.saved = None \/ st.saved # None
    /\ op # None /\ op.current =>
          /\ op.kind = "launch" => st.saved = None
          /\ op.kind # "launch" => op.plan # None
          /\ op.kind = "export" /\ op.same => st.enabled /\ st.plan = op.plan

IInv ==
    /\ TypeOK /\ PlanningIsOwned /\ Phases /\ ContractInv
    /\ ModelHearsItsMode /\ PolicyInv /\ RequestInv /\ RetentionInv /\ CommandInv

-----------------------------------------------------------------------------
\* The shape of a state

LEMMA OffFields ==
    /\ Off.enabled = FALSE /\ Off.plan = None /\ Off.saved = None /\ Off.impl = None
    /\ Off.policy = None
    /\ Off \in States
BY DEF Off, States, Implementations

LEMMA ImplementationType ==
    ASSUME NEW plan \in Plans, NEW keeps \in Retentions
    PROVE  Implementation(plan, keeps) \in Implementations
BY DEF Implementation, Implementations

LEMMA SavedState ==
    ASSUME NEW plan \in Plans
    PROVE  /\ [Off EXCEPT !.saved = plan] \in States
           /\ [Off EXCEPT !.saved = plan].saved = plan
           /\ [Off EXCEPT !.saved = plan].enabled = FALSE
           /\ [Off EXCEPT !.saved = plan].impl = None
BY PlanModeAssumption DEF Off, States, Implementations

LEMMA ImplementingState ==
    ASSUME NEW impl \in Implementations
    PROVE  /\ [Off EXCEPT !.impl = impl] \in States
           /\ [Off EXCEPT !.impl = impl].impl = impl
           /\ [Off EXCEPT !.impl = impl].enabled = FALSE
           /\ [Off EXCEPT !.impl = impl].saved = None
BY DEF Off, States

LEMMA StateFields ==
    ASSUME NEW s \in States
    PROVE  /\ s.enabled \in BOOLEAN
           /\ s.plan \in Plans \cup {None} /\ s.saved \in Plans \cup {None}
           /\ s.impl \in Implementations
           /\ s.enabled => s.policy \in Policies /\ s.saved = None /\ s.impl = None
           /\ ~s.enabled => s.policy = None /\ s.plan = None /\ (s.saved = None \/ s.impl = None)
BY DEF States

\* What happens to the plan, the policy and the implementation of a state.
LEMMA PlanChanged ==
    ASSUME NEW s \in States, s.enabled, NEW plan \in Plans \cup {None}
    PROVE  /\ [s EXCEPT !.plan = plan] \in States
           /\ [s EXCEPT !.plan = plan].enabled
           /\ [s EXCEPT !.plan = plan].plan = plan
           /\ [s EXCEPT !.plan = plan].policy = s.policy
BY DEF States

LEMMA PolicyChanged ==
    ASSUME NEW s \in States, s.enabled, NEW policy \in Policies
    PROVE  /\ [s EXCEPT !.policy = policy] \in States
           /\ [s EXCEPT !.policy = policy].enabled
           /\ [s EXCEPT !.policy = policy].plan = s.plan
           /\ [s EXCEPT !.policy = policy].policy = policy
BY DEF States

LEMMA ImplementationCleared ==
    ASSUME NEW s \in States, s.impl # None
    PROVE  /\ [s EXCEPT !.impl = None] \in States
           /\ [s EXCEPT !.impl = None].enabled = FALSE
           /\ [s EXCEPT !.impl = None].saved = None
           /\ [s EXCEPT !.impl = None].impl = None
BY DEF States, Implementations

LEMMA EnteredState ==
    ASSUME NEW s \in States, ~s.enabled, NEW policy \in Policies
    PROVE  /\ [s EXCEPT !.enabled = TRUE, !.saved = None, !.impl = None, !.policy = policy]
                 \in States
           /\ [s EXCEPT !.enabled = TRUE, !.saved = None, !.impl = None,
                        !.policy = policy].enabled
           /\ [s EXCEPT !.enabled = TRUE, !.saved = None, !.impl = None,
                        !.policy = policy].policy = policy
BY DEF States, Implementations

\* What is restored from a branch is what the branch holds.
LEMMA RestoredIsHeld ==
    ASSUME NEW s \in States
    PROVE  RestorePlanModeState(s) = s
BY DEF States, RestorePlanModeState

-----------------------------------------------------------------------------
\* The tool policy

LEMMA PolicyFields ==
    ASSUME NEW policy \in Policies
    PROVE  /\ policy.desired \in Selections /\ policy.desired \subseteq Tools
           /\ policy.allowed \subseteq Tools /\ policy.frozen \subseteq Tools
           /\ policy.resolved \in BOOLEAN
           /\ policy.resolved => policy.allowed \subseteq policy.frozen
BY PlanModeAssumption DEF Policies

LEMMA NewWorkflowPolicy ==
    ASSUME NEW selection \in Selections, active \subseteq Tools
    PROVE  Workflow(selection) \in Policies /\ ~Workflow(selection).resolved
BY PlanModeAssumption DEF Policies, Workflow

LEMMA PolicySettles ==
    ASSUME NEW policy \in Policies, active \subseteq Tools
    PROVE  SettledPolicy(policy) \in Policies /\ SettledPolicy(policy).resolved
<1>1. CASE policy.resolved
  BY <1>1 DEF Policies, SettledPolicy, RevalidatedPolicy
<1>2. CASE ~policy.resolved
  BY <1>2, PlanModeAssumption DEF Policies, SettledPolicy, ResolvedPolicy
<1>3. QED
  BY <1>1, <1>2

LEMMA PolicyRestores ==
    ASSUME NEW policy \in Policies, active \subseteq Tools
    PROVE  /\ RestoredPolicy(policy) \in Policies
           /\ RestoredPolicy(policy).resolved = policy.resolved
<1>1. CASE policy.resolved
  BY <1>1 DEF RestoredPolicy
<1>2. CASE ~policy.resolved
  BY <1>2, PlanModeAssumption DEF Policies, RestoredPolicy, ResolvedPolicy
<1>3. QED
  BY <1>1, <1>2

\* What is allowed after a policy has been restored, before the next request.
LEMMA RestoredTools ==
    ASSUME NEW policy \in Policies, active \subseteq Tools, RestoreWorkflowToolPolicy(policy)
    PROVE  /\ allowed' \subseteq Tools
           /\ pending' \in {"resolve", "revalidate"}
           /\ policy.resolved => allowed' \subseteq policy.frozen
BY PolicyFields DEF RestoreWorkflowToolPolicy, RevalidatedPolicy

-----------------------------------------------------------------------------
\* What the branch of a session can be

LEMMA PointFields ==
    ASSUME NEW b \in Points
    PROVE  /\ b.state \in States /\ b.contract \in {"none", "plan", "normal"}
           /\ b.said \subseteq Plans
           /\ b.contract = "none" => b.state = Off /\ b.said = {}
           /\ b.state.saved # None => b.contract = "normal"
BY DEF Points

LEMMA StatePersists ==
    ASSUME NEW b \in Points, NEW s \in States,
           s # Off => b.contract # "none",
           s.saved # None => b.contract = "normal"
    PROVE  /\ [b EXCEPT !.state = s] \in Points
           /\ [b EXCEPT !.state = s].state = s
           /\ [b EXCEPT !.state = s].contract = b.contract
           /\ [b EXCEPT !.state = s].said = b.said
BY DEF Points

\* installRestoredState and what follows it
Installed(candidate, b) ==
    /\ st' \in States /\ branch' \in Points
    /\ branch'.contract = b.contract /\ branch'.said = b.said
    /\ branch'.state = b.state \/ (st'.enabled /\ branch'.state = st')
    /\ st' # Off => candidate # Off
    /\ st'.enabled => candidate.enabled
    /\ st'.saved # None => candidate.saved # None
    /\ candidate.saved # None => st' = candidate
    /\ holder' \in {"free", "plan", "other"} /\ (st'.enabled => holder' = "plan")
    /\ allowed' \subseteq Tools /\ pending' \in {"none", "resolve", "revalidate"}
    /\ st'.enabled => /\ pending' # "none"
                      /\ st'.policy.resolved => allowed' \subseteq st'.policy.frozen
    /\ awaiting' \in BOOLEAN /\ given' = FALSE
    /\ st'.impl # None => awaiting' = (st'.impl.keeps # "keep")
    /\ shown' = IF awaiting' THEN "restored" ELSE "no"

LEMMA RefusedInstall ==
    ASSUME TypeOK, NEW candidate \in States, NEW b \in Points,
           InstallRestored(candidate, b), InstallRefused(candidate)
    PROVE  Installed(candidate, b)
<1>1. /\ st' = Off /\ allowed' = {} /\ pending' = "none" /\ awaiting' = FALSE
      /\ holder' = holder /\ candidate.enabled
  BY DEF InstallRefused
<1>2. st'.enabled = FALSE /\ st'.saved = None /\ st'.impl = None /\ st' \in States
  BY <1>1, OffFields
<1>3. branch' = b /\ given' = FALSE /\ shown' = "no"
  BY <1>1, <1>2 DEF InstallRestored
<1>4. candidate.saved = None
  BY <1>1, StateFields
<1>5. QED
  BY <1>1, <1>2, <1>3, <1>4 DEF Installed, TypeOK

LEMMA PlanInstalled ==
    ASSUME TypeOK, NEW candidate \in States, NEW b \in Points,
           candidate # Off => b.contract # "none",
           InstallRestored(candidate, b), InstallDone(candidate), candidate.enabled
    PROVE  Installed(candidate, b)
<1> DEFINE policy == RestoredPolicy(candidate.policy)
<1>1. /\ st' = [candidate EXCEPT !.policy = policy] /\ RestoreWorkflowToolPolicy(policy)
      /\ holder' = "plan"
      /\ awaiting' = (st'.impl # None /\ st'.impl.keeps # "keep")
  BY DEF InstallDone
<1>2. candidate.policy \in Policies
  BY StateFields
<1>3. policy \in Policies
  BY <1>2, PolicyRestores DEF TypeOK
<1> HIDE DEF policy
<1>4. st' \in States /\ st'.enabled /\ st'.policy = policy
  BY <1>1, <1>3, PolicyChanged
<1>5. st'.saved = None /\ st'.impl = None /\ candidate.saved = None
  BY <1>4, StateFields
<1>6. /\ allowed' \subseteq Tools /\ pending' \in {"resolve", "revalidate"}
      /\ policy.resolved => allowed' \subseteq policy.frozen
  BY <1>1, <1>3, RestoredTools DEF TypeOK
<1>7. candidate # Off
  BY OffFields
<1>8. /\ branch' \in Points /\ branch'.contract = b.contract /\ branch'.said = b.said
      /\ branch'.state = b.state \/ branch'.state = st'
  <2>1. branch' = b \/ branch' = [b EXCEPT !.state = st']
    BY DEF InstallRestored
  <2>2. b.contract # "none"
    BY <1>7
  <2>3. /\ [b EXCEPT !.state = st'] \in Points
        /\ [b EXCEPT !.state = st'].state = st'
        /\ [b EXCEPT !.state = st'].contract = b.contract
        /\ [b EXCEPT !.state = st'].said = b.said
    BY <1>4, <1>5, <2>2, StatePersists
  <2>4. CASE branch' = b
    BY <2>4
  <2>5. QED
    BY <2>1, <2>3, <2>4
<1>9. awaiting' = FALSE /\ given' = FALSE /\ shown' = "no"
  BY <1>1, <1>5 DEF InstallRestored
<1>10. QED
  BY <1>1, <1>4, <1>5, <1>6, <1>7, <1>8, <1>9 DEF Installed

LEMMA NoPlanInstalled ==
    ASSUME TypeOK, NEW candidate \in States, NEW b \in Points,
           InstallRestored(candidate, b), InstallDone(candidate), ~candidate.enabled
    PROVE  Installed(candidate, b)
<1>1. /\ st' = candidate /\ allowed' = {} /\ pending' = "none"
      /\ holder' = IF st.enabled THEN "free" ELSE holder
      /\ awaiting' = (st'.impl # None /\ st'.impl.keeps # "keep")
  BY DEF InstallDone
<1>2. branch' = b /\ given' = FALSE /\ shown' = IF awaiting' THEN "restored" ELSE "no"
  BY <1>1 DEF InstallRestored
<1>3. holder' \in {"free", "plan", "other"}
  BY <1>1 DEF TypeOK
<1>4. QED
  BY <1>1, <1>2, <1>3 DEF Installed

LEMMA InstallEffect ==
    ASSUME TypeOK, NEW candidate \in States, NEW b \in Points,
           candidate # Off => b.contract # "none",
           InstallRestored(candidate, b)
    PROVE  Installed(candidate, b)
<1>1. InstallRefused(candidate) \/ InstallDone(candidate)
  BY DEF InstallRestored
<1>2. QED
  BY <1>1, RefusedInstall, PlanInstalled, NoPlanInstalled

-----------------------------------------------------------------------------
\* The messages that wait for the agent

LEMMA MessageFields ==
    /\ Prompt \in Messages /\ Finalize \in Messages /\ Retry \in Messages
    /\ Prompt # Retry /\ Finalize # Retry /\ Prompt # Finalize
    /\ Prompt.kind # "handoff" /\ Finalize.kind # "handoff" /\ Retry.kind # "handoff"
    /\ \A message \in Messages : message.kind = "handoff" => message.plan \in Plans
BY DEF Messages, Prompt, Finalize, Retry, Message

LEMMA HandoffFields ==
    ASSUME NEW impl \in Implementations
    PROVE  Handoff(impl) \in Messages /\ Handoff(impl) # Retry
<1>1. CASE impl = None
  BY <1>1, MessageFields DEF Handoff
<1>2. CASE impl # None
  BY <1>2 DEF Handoff, Implementations, Messages, Message, Retry
<1>3. QED
  BY <1>1, <1>2

LEMMA QueueGrows ==
    ASSUME queue \in Seq(Messages), NEW message \in Messages, Send(message)
    PROVE  /\ queue' \in Seq(Messages) /\ Len(queue') = Len(queue) + 1
           /\ queue' # queue /\ queue'[Len(queue')] = message
           /\ HandoffQueued' => HandoffQueued \/ message.kind = "handoff"
           /\ FinalizeQueued \/ message = Finalize => FinalizeQueued'
           /\ \A i \in 2..Len(queue') : queue'[i] = Retry =>
                 \/ i \in 2..Len(queue) /\ queue[i] = Retry
                 \/ message = Retry /\ queue # <<>>
<1>1. queue' = Append(queue, message)
  BY DEF Send
<1>2. /\ queue' \in Seq(Messages) /\ Len(queue') = Len(queue) + 1
      /\ \A i \in 1..Len(queue) : queue'[i] = queue[i]
      /\ queue'[Len(queue) + 1] = message
  BY <1>1
<1>3. Len(queue) \in Nat
  OBVIOUS
<1>4. HandoffQueued' => HandoffQueued \/ message.kind = "handoff"
  BY <1>2, <1>3 DEF HandoffQueued
<1>5. FinalizeQueued \/ message = Finalize => FinalizeQueued'
  BY <1>2, <1>3 DEF FinalizeQueued
<1>6. ASSUME NEW i \in 2..Len(queue'), queue'[i] = Retry
      PROVE  \/ i \in 2..Len(queue) /\ queue[i] = Retry
             \/ message = Retry /\ queue # <<>>
  <2>1. CASE i = Len(queue) + 1
    BY <1>2, <1>3, <1>6, <2>1
  <2>2. CASE i # Len(queue) + 1
    BY <1>2, <1>3, <1>6, <2>2
  <2>3. QED
    BY <2>1, <2>2
<1>7. QED
  BY <1>2, <1>3, <1>4, <1>5, <1>6

LEMMA QueueShrinks ==
    ASSUME queue \in Seq(Messages), queue # <<>>, queue' = Tail(queue)
    PROVE  /\ Head(queue) \in Messages
           /\ queue' \in Seq(Messages) /\ Len(queue') = Len(queue) - 1
           /\ HandoffQueued' => HandoffQueued
           /\ Head(queue).kind = "handoff" => HandoffQueued
           /\ FinalizeQueued => FinalizeQueued' \/ Head(queue) = Finalize
           /\ \A i \in 1..Len(queue') : queue'[i] = queue[i + 1] /\ i + 1 \in 2..Len(queue)
<1>1. /\ queue' \in Seq(Messages) /\ Len(queue') = Len(queue) - 1
      /\ \A i \in 1..Len(queue') : queue'[i] = queue[i + 1]
      /\ Head(queue) = queue[1] /\ Head(queue) \in Messages /\ Len(queue) \in Nat \ {0}
  OBVIOUS
<1>2. \A i \in 1..Len(queue') : i + 1 \in 2..Len(queue)
  BY <1>1
<1>3. HandoffQueued' => HandoffQueued
  BY <1>1, <1>2 DEF HandoffQueued
<1>4. Head(queue).kind = "handoff" => HandoffQueued
  BY <1>1 DEF HandoffQueued
<1>5. FinalizeQueued => FinalizeQueued' \/ Head(queue) = Finalize
  <2>1. SUFFICES ASSUME NEW i \in 1..Len(queue), queue[i] = Finalize, Head(queue) # Finalize
                 PROVE  FinalizeQueued'
    BY DEF FinalizeQueued
  <2>2. i # 1 /\ i - 1 \in 1..Len(queue')
    BY <1>1, <2>1
  <2>3. queue'[i - 1] = queue[i]
    BY <1>1, <2>2
  <2>4. QED
    BY <2>1, <2>2, <2>3 DEF FinalizeQueued
<1>6. QED
  BY <1>1, <1>2, <1>3, <1>4, <1>5

LEMMA QueueLoses ==
    ASSUME queue \in Seq(Messages), NEW i \in 1..Len(queue), queue' = Without(i)
    PROVE  /\ queue' \in Seq(Messages) /\ Len(queue') = Len(queue) - 1
           /\ HandoffQueued' => HandoffQueued
           /\ \A j \in 2..Len(queue') : \E k \in 2..Len(queue) : queue'[j] = queue[k]
<1>1. i \in Nat \ {0} /\ Len(queue) \in Nat \ {0} /\ i <= Len(queue)
  OBVIOUS
<1> DEFINE n == Len(queue) - 1
           from(j) == IF j < i THEN j ELSE j + 1
<1>2. n \in Nat /\ \A j \in 1..n : from(j) \in 1..Len(queue) /\ from(j) >= j
  BY <1>1
<1>3. queue' = [j \in 1..n |-> queue[from(j)]]
  BY DEF Without
<1> HIDE DEF n, from
<1>4. \A j \in 1..n : queue[from(j)] \in Messages
  BY <1>2
<1>5. queue' \in Seq(Messages) /\ Len(queue') = n
  BY <1>2, <1>3, <1>4
<1>6. \A j \in 1..n : queue'[j] = queue[from(j)]
  BY <1>3
<1>7. HandoffQueued' => HandoffQueued
  BY <1>2, <1>5, <1>6 DEF HandoffQueued
<1>8. ASSUME NEW j \in 2..Len(queue')
      PROVE  \E k \in 2..Len(queue) : queue'[j] = queue[k]
  <2>1. j \in 1..n /\ j >= 2
    BY <1>2, <1>5
  <2>2. from(j) \in 2..Len(queue)
    BY <1>1, <1>2, <2>1
  <2>3. QED
    BY <1>6, <2>1, <2>2
<1>9. QED
  BY <1>5, <1>7, <1>8 DEF n

-----------------------------------------------------------------------------
\* The steps that change neither the mode nor the plan

LEMMA KickOffKeeps ==
    ASSUME IInv, KickOff
    PROVE  IInv'
<1> USE DEF IInv, environment, retention, agent, KickOff
<1>1. TypeOK'
  <2>1. arriving \in [impl : Implementations, at : {"setup", "kickoff"}]
    BY DEF TypeOK
  <2>2. Handoff(arriving.impl) \in Messages
    BY <2>1, HandoffFields
  <2>3. queue' \in Seq(Messages) /\ Len(queue') <= MaxQueue
    <3>1. CASE queue' = queue
      BY <3>1 DEF TypeOK
    <3>2. CASE Send(Handoff(arriving.impl))
      <4>1. queue' = <<Handoff(arriving.impl)>>
        BY <3>2 DEF Send
      <4>2. QED
        BY <2>2, <4>1, PlanModeAssumption
    <3>3. QED
      BY <3>1, <3>2
  <2>4. QED
    BY <2>3 DEF TypeOK
<1>2. PlanningIsOwned' /\ Phases'
  BY OffFields DEF PlanningIsOwned, Phases, Owns, Open
<1>3. ContractInv'
  <2>1. HandoffQueued' => branch.contract # "none"
    BY QueueGrows, HandoffFields DEF ContractInv, HandoffArrives, HandoffQueued, TypeOK
  <2>2. QED
    BY <2>1 DEF ContractInv, Carries, HandoffQueued, HandoffArrives
<1>4. ModelHearsItsMode' /\ PolicyInv'
  BY OffFields DEF ModelHearsItsMode, PolicyInv, Phases
<1>5. RequestInv'
  <2>1. \A i \in 2..Len(queue') : queue'[i] # Retry
    <3>1. CASE queue' = queue
      BY <3>1 DEF RequestInv
    <3>2. CASE Send(Handoff(arriving.impl))
      <4>1. queue' = <<Handoff(arriving.impl)>>
        BY <3>2 DEF Send
      <4>2. QED
        BY <4>1
    <3>3. QED
      BY <3>1, <3>2
  <2>2. FinalizeQueued => FinalizeQueued'
    BY DEF FinalizeQueued
  <2>3. QED
    BY <2>1, <2>2 DEF RequestInv, FinalizeQueued
<1>6. RetentionInv'
  BY OffFields DEF RetentionInv
<1>7. CommandInv'
  BY OffFields DEF CommandInv, Open, SavedPlanBlocks, Phases
<1>8. QED
  BY <1>1, <1>2, <1>3, <1>4, <1>5, <1>6, <1>7

LEMMA CrashKeeps ==
    ASSUME IInv, Crash
    PROVE  IInv'
<1> USE DEF IInv, environment, retention, agent, Crash
<1>1. TypeOK'
  <2>1. queue' \in Seq(Messages) /\ Len(queue') <= MaxQueue
    BY PlanModeAssumption
  <2>2. QED
    BY <2>1, OffFields DEF TypeOK, Volatile
<1>2. PlanningIsOwned' /\ Phases'
  BY OffFields DEF PlanningIsOwned, Phases, Volatile
<1>3. ContractInv'
  BY OffFields DEF ContractInv, Carries, HandoffQueued, HandoffArrives
<1>4. ModelHearsItsMode' /\ PolicyInv'
  BY OffFields DEF ModelHearsItsMode, PolicyInv, Phases
<1>5. RequestInv'
  BY OffFields DEF RequestInv, FinalizeQueued, Phases
<1>6. RetentionInv'
  BY OffFields DEF RetentionInv
<1>7. CommandInv'
  BY DEF CommandInv, Volatile
<1>8. QED
  BY <1>1, <1>2, <1>3, <1>4, <1>5, <1>6, <1>7

LEMMA ShutdownBeginsKeeps ==
    ASSUME IInv, ShutdownBegins
    PROVE  IInv'
<1> USE DEF IInv, environment, retention, agent, ShutdownBegins
<1>1. TypeOK'
  <2>1. queue' \in Seq(Messages) /\ Len(queue') <= MaxQueue
    BY PlanModeAssumption
  <2>2. QED
    BY <2>1 DEF TypeOK
<1>2. PlanningIsOwned' /\ Phases'
  BY OffFields DEF PlanningIsOwned, Phases, Owns, Open
<1>3. ContractInv'
  BY OffFields DEF ContractInv, Carries, HandoffQueued, HandoffArrives
<1>4. ModelHearsItsMode' /\ PolicyInv'
  BY OffFields DEF ModelHearsItsMode, PolicyInv, Phases
<1>5. RequestInv'
  BY OffFields DEF RequestInv, FinalizeQueued, Phases
<1>6. RetentionInv'
  BY OffFields DEF RetentionInv
<1>7. CommandInv'
  BY OffFields DEF CommandInv, Open, SavedPlanBlocks, Phases
<1>8. QED
  BY <1>1, <1>2, <1>3, <1>4, <1>5, <1>6, <1>7

LEMMA ShutdownEndsKeeps ==
    ASSUME IInv, ShutdownEnds
    PROVE  IInv'
<1> USE DEF IInv, environment, retention, agent, ShutdownEnds
<1>1. TypeOK'
  <2>1. st # Off => branch.contract # "none"
    BY DEF ContractInv, Carries
  <2>2. st.saved # None => branch.contract = "normal"
    BY DEF ContractInv, Carries
  <2>3. branch' \in Points
    BY <2>1, <2>2, StatePersists DEF Persisted, TypeOK
  <2>4. QED
    BY <2>3 DEF TypeOK
<1>2. PlanningIsOwned' /\ Phases'
  BY OffFields DEF PlanningIsOwned, Phases, Owns, Open
<1>3. ContractInv'
  <2>1. branch'.contract = branch.contract
    BY PointFields DEF Persisted, TypeOK, Points
  <2>2. QED
    BY <2>1 DEF ContractInv, HandoffQueued, HandoffArrives
<1>4. ModelHearsItsMode' /\ PolicyInv'
  BY OffFields DEF ModelHearsItsMode, PolicyInv, Phases
<1>5. RequestInv'
  BY OffFields DEF RequestInv, FinalizeQueued, Phases
<1>6. RetentionInv'
  BY OffFields DEF RetentionInv
<1>7. CommandInv'
  BY OffFields DEF CommandInv, Open, SavedPlanBlocks, Phases
<1>8. QED
  BY <1>1, <1>2, <1>3, <1>4, <1>5, <1>6, <1>7

LEMMA SetUpDestinationKeeps ==
    ASSUME IInv, SetUpDestination
    PROVE  IInv'
<1> USE DEF IInv, environment, retention, agent, SetUpDestination
<1>0. /\ branch' \in Points /\ branch'.contract = "normal" /\ branch'.said = branch.said
      /\ branch'.state.saved # None => branch'.state = branch.state
      /\ arriving' \in [impl : Implementations, at : {"setup", "kickoff"}]
  <2>1. arriving \in [impl : Implementations, at : {"setup", "kickoff"}]
    BY DEF TypeOK
  <2> DEFINE state == IF arriving.impl = None THEN branch.state
                      ELSE [Off EXCEPT !.impl = arriving.impl]
  <2>2. /\ state \in States
        /\ state.saved # None => state = branch.state
    BY <2>1, ImplementingState, PointFields DEF TypeOK
  <2> HIDE DEF state
  <2>3. branch' = [branch EXCEPT !.contract = "normal", !.state = state]
    BY DEF state
  <2>4. /\ branch' \in Points /\ branch'.contract = "normal" /\ branch'.said = branch.said
        /\ branch'.state = state
    BY <2>2, <2>3 DEF Points, TypeOK
  <2>5. arriving' \in [impl : Implementations, at : {"setup", "kickoff"}]
    BY <2>1
  <2>6. QED
    BY <2>2, <2>4, <2>5
<1>1. TypeOK'
  BY <1>0 DEF TypeOK
<1>2. PlanningIsOwned' /\ Phases'
  BY OffFields DEF PlanningIsOwned, Phases, Owns, Open
<1>3. ContractInv'
  BY <1>0 DEF ContractInv, Carries, HandoffQueued, HandoffArrives
<1>4. ModelHearsItsMode' /\ PolicyInv'
  BY OffFields DEF ModelHearsItsMode, PolicyInv, Phases
<1>5. RequestInv'
  BY OffFields DEF RequestInv, FinalizeQueued, Phases
<1>6. RetentionInv'
  BY <1>0 DEF RetentionInv
<1>7. CommandInv'
  BY <1>0 DEF CommandInv
<1>8. QED
  BY <1>1, <1>2, <1>3, <1>4, <1>5, <1>6, <1>7

LEMMA LaunchMenuOpensKeeps ==
    ASSUME IInv, LaunchMenuOpens
    PROVE  IInv'
<1> USE DEF IInv, environment, retention, agent, LaunchMenuOpens
<1>1. TypeOK'
  BY OffFields, StateFields, PointFields DEF TypeOK, Open, Commands
<1>2. PlanningIsOwned' /\ Phases'
  BY OffFields DEF PlanningIsOwned, Phases, Owns, Open
<1>3. ContractInv'
  BY OffFields DEF ContractInv, Carries, HandoffQueued, HandoffArrives
<1>4. ModelHearsItsMode' /\ PolicyInv'
  BY OffFields DEF ModelHearsItsMode, PolicyInv, Phases
<1>5. RequestInv'
  BY OffFields DEF RequestInv, FinalizeQueued, Phases
<1>6. RetentionInv'
  BY OffFields DEF RetentionInv
<1>7. CommandInv'
  BY OffFields DEF CommandInv, Open, SavedPlanBlocks, Phases
<1>8. QED
  BY <1>1, <1>2, <1>3, <1>4, <1>5, <1>6, <1>7

LEMMA ImplementSavedBeginsKeeps ==
    ASSUME IInv, ImplementSavedBegins
    PROVE  IInv'
<1> USE DEF IInv, environment, retention, agent, ImplementSavedBegins
<1>1. TypeOK'
  BY OffFields, StateFields, PointFields DEF TypeOK, Open, Commands
<1>2. PlanningIsOwned' /\ Phases'
  BY OffFields DEF PlanningIsOwned, Phases, Owns, Open
<1>3. ContractInv'
  BY OffFields DEF ContractInv, Carries, HandoffQueued, HandoffArrives
<1>4. ModelHearsItsMode' /\ PolicyInv'
  BY OffFields DEF ModelHearsItsMode, PolicyInv, Phases
<1>5. RequestInv'
  BY OffFields DEF RequestInv, FinalizeQueued, Phases
<1>6. RetentionInv'
  BY OffFields DEF RetentionInv
<1>7. CommandInv'
  BY OffFields DEF CommandInv, Open, SavedPlanBlocks, Phases
<1>8. QED
  BY <1>1, <1>2, <1>3, <1>4, <1>5, <1>6, <1>7

LEMMA FreshBeginsKeeps ==
    ASSUME IInv, FreshBegins
    PROVE  IInv'
<1> USE DEF IInv, environment, retention, agent, FreshBegins
<1>1. TypeOK'
  BY OffFields, StateFields, PointFields DEF TypeOK, Open, Commands
<1>2. PlanningIsOwned' /\ Phases'
  BY OffFields DEF PlanningIsOwned, Phases, Owns, Open
<1>3. ContractInv'
  BY OffFields DEF ContractInv, Carries, HandoffQueued, HandoffArrives
<1>4. ModelHearsItsMode' /\ PolicyInv'
  BY OffFields DEF ModelHearsItsMode, PolicyInv, Phases
<1>5. RequestInv'
  BY OffFields DEF RequestInv, FinalizeQueued, Phases
<1>6. RetentionInv'
  BY OffFields DEF RetentionInv
<1>7. CommandInv'
  BY OffFields DEF CommandInv, Open, SavedPlanBlocks, Phases
<1>8. QED
  BY <1>1, <1>2, <1>3, <1>4, <1>5, <1>6, <1>7

LEMMA FreshRefusedKeeps ==
    ASSUME IInv, FreshRefused
    PROVE  IInv'
<1> USE DEF IInv, environment, retention, agent, FreshRefused
<1>1. TypeOK'
  BY OffFields, StateFields, PointFields DEF TypeOK, Open, Commands
<1>2. PlanningIsOwned' /\ Phases'
  BY OffFields DEF PlanningIsOwned, Phases, Owns, Open
<1>3. ContractInv'
  BY OffFields DEF ContractInv, Carries, HandoffQueued, HandoffArrives
<1>4. ModelHearsItsMode' /\ PolicyInv'
  BY OffFields DEF ModelHearsItsMode, PolicyInv, Phases
<1>5. RequestInv'
  BY OffFields DEF RequestInv, FinalizeQueued, Phases
<1>6. RetentionInv'
  BY OffFields DEF RetentionInv
<1>7. CommandInv'
  BY OffFields DEF CommandInv, Open, SavedPlanBlocks, Phases
<1>8. QED
  BY <1>1, <1>2, <1>3, <1>4, <1>5, <1>6, <1>7

LEMMA ExportBeginsKeeps ==
    ASSUME IInv, ExportBegins
    PROVE  IInv'
<1> USE DEF IInv, environment, retention, agent, ExportBegins
<1>1. TypeOK'
  BY OffFields, StateFields, PointFields DEF TypeOK, Open, Commands
<1>2. PlanningIsOwned' /\ Phases'
  BY OffFields DEF PlanningIsOwned, Phases, Owns, Open
<1>3. ContractInv'
  BY OffFields DEF ContractInv, Carries, HandoffQueued, HandoffArrives
<1>4. ModelHearsItsMode' /\ PolicyInv'
  BY OffFields DEF ModelHearsItsMode, PolicyInv, Phases
<1>5. RequestInv'
  BY OffFields DEF RequestInv, FinalizeQueued, Phases
<1>6. RetentionInv'
  BY OffFields DEF RetentionInv
<1>7. CommandInv'
  BY OffFields DEF CommandInv, Open, SavedPlanBlocks, Phases
<1>8. QED
  BY <1>1, <1>2, <1>3, <1>4, <1>5, <1>6, <1>7

LEMMA AskQuestionKeeps ==
    ASSUME IInv, AskQuestion
    PROVE  IInv'
<1> USE DEF IInv, environment, retention, agent, AskQuestion
<1>1. TypeOK'
  BY OffFields, StateFields, PointFields DEF TypeOK, Open, Commands
<1>2. PlanningIsOwned' /\ Phases'
  BY OffFields DEF PlanningIsOwned, Phases, Owns, Open
<1>3. ContractInv'
  BY OffFields DEF ContractInv, Carries, HandoffQueued, HandoffArrives
<1>4. ModelHearsItsMode' /\ PolicyInv'
  BY OffFields DEF ModelHearsItsMode, PolicyInv, Phases
<1>5. RequestInv'
  BY OffFields DEF RequestInv, FinalizeQueued, Phases
<1>6. RetentionInv'
  BY OffFields DEF RetentionInv
<1>7. CommandInv'
  BY OffFields DEF CommandInv, Open, SavedPlanBlocks, Phases
<1>8. QED
  BY <1>1, <1>2, <1>3, <1>4, <1>5, <1>6, <1>7

LEMMA AgentContinuesKeeps ==
    ASSUME IInv, AgentContinues
    PROVE  IInv'
<1> USE DEF IInv, environment, retention, agent, AgentContinues
<1>1. TypeOK'
  BY OffFields, StateFields, PointFields DEF TypeOK, Open, Commands
<1>2. PlanningIsOwned' /\ Phases'
  BY OffFields DEF PlanningIsOwned, Phases, Owns, Open
<1>3. ContractInv'
  BY OffFields DEF ContractInv, Carries, HandoffQueued, HandoffArrives
<1>4. ModelHearsItsMode' /\ PolicyInv'
  BY OffFields DEF ModelHearsItsMode, PolicyInv, Phases
<1>5. RequestInv'
  BY OffFields DEF RequestInv, FinalizeQueued, Phases
<1>6. RetentionInv'
  BY OffFields DEF RetentionInv
<1>7. CommandInv'
  BY OffFields DEF CommandInv, Open, SavedPlanBlocks, Phases
<1>8. QED
  BY <1>1, <1>2, <1>3, <1>4, <1>5, <1>6, <1>7

LEMMA OtherWorkflowKeeps ==
    ASSUME IInv, OtherWorkflow
    PROVE  IInv'
<1> USE DEF IInv, environment, retention, agent, OtherWorkflow
<1>1. TypeOK'
  BY OffFields, StateFields, PointFields DEF TypeOK, Open, Commands
<1>2. PlanningIsOwned' /\ Phases'
  BY OffFields DEF PlanningIsOwned, Phases, Owns, Open
<1>3. ContractInv'
  BY OffFields DEF ContractInv, Carries, HandoffQueued, HandoffArrives
<1>4. ModelHearsItsMode' /\ PolicyInv'
  BY OffFields DEF ModelHearsItsMode, PolicyInv, Phases
<1>5. RequestInv'
  BY OffFields DEF RequestInv, FinalizeQueued, Phases
<1>6. RetentionInv'
  BY OffFields DEF RetentionInv
<1>7. CommandInv'
  BY OffFields DEF CommandInv, Open, SavedPlanBlocks, Phases
<1>8. QED
  BY <1>1, <1>2, <1>3, <1>4, <1>5, <1>6, <1>7

LEMMA ToolsChangeKeeps ==
    ASSUME IInv, ToolsChange
    PROVE  IInv'
<1> USE DEF IInv, environment, retention, agent, ToolsChange
<1>1. TypeOK'
  BY OffFields, StateFields, PointFields DEF TypeOK, Open, Commands
<1>2. PlanningIsOwned' /\ Phases'
  BY OffFields DEF PlanningIsOwned, Phases, Owns, Open
<1>3. ContractInv'
  BY OffFields DEF ContractInv, Carries, HandoffQueued, HandoffArrives
<1>4. ModelHearsItsMode' /\ PolicyInv'
  BY OffFields DEF ModelHearsItsMode, PolicyInv, Phases
<1>5. RequestInv'
  BY OffFields DEF RequestInv, FinalizeQueued, Phases
<1>6. RetentionInv'
  BY OffFields DEF RetentionInv
<1>7. CommandInv'
  BY OffFields DEF CommandInv, Open, SavedPlanBlocks, Phases
<1>8. QED
  BY <1>1, <1>2, <1>3, <1>4, <1>5, <1>6, <1>7

-----------------------------------------------------------------------------
\* Messages that the agent gets

LEMMA RequestType ==
    /\ NewRequest \in [retried : BOOLEAN, ended : BOOLEAN]
    /\ ~NewRequest.retried /\ ~NewRequest.ended
BY DEF NewRequest

LEMMA MessageStartKeeps ==
    ASSUME IInv, MessageStart
    PROVE  IInv'
<1> USE DEF IInv, environment
<1> DEFINE message == Head(queue)
<1>1. /\ queue \in Seq(Messages) /\ queue # <<>> /\ queue' = Tail(queue)
      /\ message \in Messages /\ Len(queue') = Len(queue) - 1 /\ queue' \in Seq(Messages)
      /\ Len(queue') <= MaxQueue
  <2>1. queue \in Seq(Messages) /\ queue # <<>> /\ queue' = Tail(queue)
    BY DEF MessageStart, TypeOK
  <2>2. message \in Messages /\ Len(queue') = Len(queue) - 1 /\ queue' \in Seq(Messages)
    BY <2>1, QueueShrinks
  <2>3. Len(queue) \in Nat /\ Len(queue) <= MaxQueue
    BY <2>1 DEF TypeOK
  <2>4. QED
    BY <2>1, <2>2, <2>3, PlanModeAssumption
<1>2. message.kind = "handoff" => message.plan \in Plans /\ branch.contract # "none"
  BY <1>1, MessageFields, QueueShrinks DEF ContractInv
<1>3. /\ branch' \in Points /\ branch'.contract = branch.contract
      /\ branch'.state = branch.state
      /\ branch'.said = IF message.kind = "handoff" THEN branch.said \cup {message.plan}
                        ELSE branch.said
  <2>1. CASE message.kind = "handoff"
    <3>1. branch' = [branch EXCEPT !.said = branch.said \cup {message.plan}]
      BY <2>1 DEF MessageStart
    <3>2. QED
      BY <1>2, <2>1, <3>1 DEF TypeOK, Points
  <2>2. CASE message.kind # "handoff"
    BY <2>2 DEF MessageStart, TypeOK
  <2>3. QED
    BY <2>1, <2>2
<1>4. TypeOK'
  <2>1. final' \in {None} \cup [retried : BOOLEAN, ended : BOOLEAN]
    BY RequestType DEF MessageStart, TypeOK
  <2>2. QED
    BY <1>1, <1>3, <2>1 DEF MessageStart, TypeOK
<1>5. PlanningIsOwned' /\ Phases'
  BY DEF PlanningIsOwned, Phases, Owns, MessageStart
<1>6. ContractInv'
  <2>1. HandoffQueued' => HandoffQueued
    BY <1>1, QueueShrinks
  <2>2. HandoffArrives' => HandoffArrives
    BY DEF HandoffArrives, MessageStart
  <2>3. session = "on" /\ session' = "on" /\ st' = st /\ relevant' = relevant
    BY DEF MessageStart
  <2>4. QED
    BY <1>3, <2>1, <2>2, <2>3 DEF ContractInv, Carries
<1>7. ModelHearsItsMode' /\ PolicyInv'
  BY DEF ModelHearsItsMode, PolicyInv, MessageStart
<1>8. RequestInv'
  <2>1. \A i \in 2..Len(queue') : queue'[i] # Retry
    <3>1. \A i \in 1..Len(queue') : queue'[i] = queue[i + 1] /\ i + 1 \in 2..Len(queue)
      BY <1>1, QueueShrinks
    <3>2. \A i \in 2..Len(queue') : i \in 1..Len(queue')
      OBVIOUS
    <3>3. QED
      BY <3>1, <3>2 DEF RequestInv
  <2>2. ~refresh' /\ st' = st /\ session = "on"
    BY DEF MessageStart, Phases
  <2>3. CASE message = Finalize /\ st.enabled
    BY <2>1, <2>2, <2>3 DEF RequestInv, MessageStart, NewRequest
  <2>4. CASE ~(message = Finalize /\ st.enabled)
    <3>1. final' = final /\ asked' = asked
      BY <2>4 DEF MessageStart
    <3>2. st.enabled => (FinalizeQueued => FinalizeQueued')
      BY <1>1, <2>4, QueueShrinks
    <3>3. QED
      BY <2>1, <2>2, <3>1, <3>2 DEF RequestInv
  <2>5. QED
    BY <2>3, <2>4
<1>9. RetentionInv'
  <2>1. st' = st /\ given' = given /\ awaiting' = awaiting /\ session' = session
    BY DEF MessageStart
  <2>2. shown' = IF message.kind = "handoff" /\ shown = "no" /\ st.impl # None
                    /\ st.impl.plan = message.plan
                 THEN "heard" ELSE shown
    BY DEF MessageStart
  <2> HIDE DEF message
  <2>3. QED
    BY <1>3, <2>1, <2>2 DEF RetentionInv, TypeOK
<1>10. CommandInv'
  BY <1>3 DEF CommandInv, MessageStart
<1>11. QED
  BY <1>4, <1>5, <1>6, <1>7, <1>8, <1>9, <1>10

LEMMA UserPromptsKeeps ==
    ASSUME IInv, NEW message \in {Prompt, Finalize}, UserPrompts(message)
    PROVE  IInv'
<1> USE DEF IInv, environment, retention, UserPrompts
<1>1. /\ queue' \in Seq(Messages) /\ Len(queue') <= MaxQueue
      /\ HandoffQueued' => HandoffQueued
      /\ FinalizeQueued => FinalizeQueued'
      /\ \A i \in 2..Len(queue') : queue'[i] # Retry
  <2>1. /\ message \in Messages /\ message.kind # "handoff" /\ message # Retry
        /\ Send(message) /\ queue \in Seq(Messages)
    BY MessageFields DEF TypeOK
  <2>2. Len(queue) \in Nat /\ Len(queue) < MaxQueue
    BY <2>1, PlanModeAssumption DEF CanSend
  <2>3. QED
    BY <2>1, <2>2, QueueGrows, PlanModeAssumption DEF RequestInv
<1>2. TypeOK'
  BY <1>1 DEF TypeOK
<1>3. PlanningIsOwned' /\ Phases'
  BY DEF PlanningIsOwned, Phases, Owns
<1>4. ContractInv'
  BY <1>1 DEF ContractInv, Carries, HandoffArrives
<1>5. ModelHearsItsMode' /\ PolicyInv'
  BY DEF ModelHearsItsMode, PolicyInv
<1>6. RequestInv'
  BY <1>1 DEF RequestInv
<1>7. RetentionInv' /\ CommandInv'
  BY DEF RetentionInv, CommandInv
<1>8. QED
  BY <1>2, <1>3, <1>4, <1>5, <1>6, <1>7

LEMMA MessageLostKeeps ==
    ASSUME IInv, MessageLost
    PROVE  IInv'
<1> USE DEF IInv, environment, retention
<1>1. /\ queue' \in Seq(Messages) /\ Len(queue') <= MaxQueue
      /\ HandoffQueued' => HandoffQueued
      /\ \A j \in 2..Len(queue') : queue'[j] # Retry
  <2>1. PICK i \in 1..Len(queue) : queue' = Without(i)
    BY DEF MessageLost
  <2>2. queue \in Seq(Messages) /\ Len(queue) \in Nat /\ Len(queue) <= MaxQueue
    BY DEF TypeOK
  <2>3. /\ queue' \in Seq(Messages) /\ Len(queue') = Len(queue) - 1
        /\ HandoffQueued' => HandoffQueued
        /\ \A j \in 2..Len(queue') : \E k \in 2..Len(queue) : queue'[j] = queue[k]
    BY <2>1, <2>2, QueueLoses
  <2>4. QED
    BY <2>2, <2>3, PlanModeAssumption DEF RequestInv
<1>2. UNCHANGED <<environment, holder, st, branch, relevant, allowed, pending, final, ready,
                  retention, run, told, op>>
  BY DEF MessageLost
<1>3. asked' = IF asked = "no" /\ final # None /\ FinalizeQueued /\ ~FinalizeQueued'
               THEN "lost" ELSE asked
  BY DEF MessageLost
<1>4. TypeOK'
  BY <1>1, <1>2, <1>3 DEF TypeOK
<1>5. PlanningIsOwned' /\ Phases'
  BY <1>2 DEF PlanningIsOwned, Phases, Owns
<1>6. ContractInv'
  BY <1>1, <1>2 DEF ContractInv, Carries, HandoffArrives
<1>7. ModelHearsItsMode' /\ PolicyInv'
  BY <1>2 DEF ModelHearsItsMode, PolicyInv
<1>8. RequestInv'
  BY <1>1, <1>2, <1>3 DEF RequestInv
<1>9. RetentionInv' /\ CommandInv'
  BY <1>2 DEF RetentionInv, CommandInv
<1>10. QED
  BY <1>4, <1>5, <1>6, <1>7, <1>8, <1>9

LEMMA RequestFinalPlanKeeps ==
    ASSUME IInv, RequestFinalPlan
    PROVE  IInv'
<1> USE DEF IInv, environment, retention, RequestFinalPlan
<1>1. /\ queue' \in Seq(Messages) /\ Len(queue') <= MaxQueue
      /\ HandoffQueued' => HandoffQueued
      /\ final' = None \/ FinalizeQueued'
      /\ \A i \in 2..Len(queue') : queue'[i] # Retry
  <2>1. CASE final' = None /\ queue' = queue
    BY <2>1 DEF TypeOK, RequestInv, HandoffQueued
  <2>2. CASE CanSend /\ Send(Finalize)
    <3>1. Len(queue) \in Nat /\ Len(queue) < MaxQueue /\ queue \in Seq(Messages)
      BY <2>2, PlanModeAssumption DEF CanSend, TypeOK
    <3>2. QED
      BY <2>2, <3>1, QueueGrows, MessageFields, PlanModeAssumption DEF RequestInv
  <2>3. QED
    BY <2>1, <2>2
<1>2. TypeOK'
  BY <1>1, RequestType DEF TypeOK
<1>3. PlanningIsOwned' /\ Phases'
  BY DEF PlanningIsOwned, Phases, Owns
<1>4. ContractInv'
  BY <1>1 DEF ContractInv, Carries, HandoffArrives
<1>5. ModelHearsItsMode' /\ PolicyInv'
  BY DEF ModelHearsItsMode, PolicyInv
<1>6. RequestInv'
  BY <1>1 DEF RequestInv
<1>7. RetentionInv' /\ CommandInv'
  BY DEF RetentionInv, CommandInv
<1>8. QED
  BY <1>2, <1>3, <1>4, <1>5, <1>6, <1>7

-----------------------------------------------------------------------------
\* Sessions that begin and branches that are restored

LEMMA Beginning ==
    ASSUME TypeOK, NEW b \in Points, NEW destination, NEW isNew \in BOOLEAN,
           Begin(b, destination, isNew),
           \/ destination = None
           \/ /\ destination \in [impl : Implementations, at : {"setup", "kickoff"}]
              /\ destination.at = "setup",
           isNew => b = NewBranch
    PROVE  IInv'
<1> USE DEF IInv
<1>1. /\ session' = "starting" /\ holder' = "free" /\ st' = Off /\ refresh' = isNew
      /\ branch' = b /\ arriving' = destination /\ run' = "idle" /\ told' = "unsent"
      /\ queue' = <<>> /\ helpers' = helpers /\ active' = active
      /\ installs' = RestorePlanModeState(b.state)
      /\ relevant' = TracksContracts(b, RestorePlanModeState(b.state))
  BY DEF Begin
<1>2. /\ pending' = "none" /\ final' = None /\ ready' = None /\ op' = None
      /\ allowed' = {} /\ given' = FALSE /\ awaiting' = FALSE
      /\ asked' = "no" /\ shown' = "no"
  BY DEF Begin, Volatile
<1>3. b.state \in States /\ installs' = b.state /\ (b.contract # "none" => relevant')
  <2>1. b.state \in States
    BY PointFields
  <2>2. RestorePlanModeState(b.state) = b.state
    BY <2>1, RestoredIsHeld
  <2>3. QED
    BY <1>1, <2>1, <2>2 DEF TracksContracts
<1>4. relevant' \in BOOLEAN
  BY <1>1 DEF TracksContracts
<1>5. isNew => b.state.saved = None
  BY OffFields DEF NewBranch
<1>6. TypeOK'
  <2>1. queue' \in Seq(Messages) /\ Len(queue') <= MaxQueue
    BY <1>1, PlanModeAssumption
  <2>2. QED
    BY <1>1, <1>2, <1>3, <1>4, <2>1, OffFields DEF TypeOK
<1>7. PlanningIsOwned' /\ Phases'
  BY <1>1, <1>2, OffFields DEF PlanningIsOwned, Phases
<1>8. ContractInv'
  <2>1. ~HandoffQueued'
    BY <1>1 DEF HandoffQueued
  <2>2. ~HandoffArrives'
    BY <1>1 DEF HandoffArrives
  <2>3. QED
    BY <1>1, <1>3, <2>1, <2>2, PointFields DEF ContractInv, Carries
<1>9. ModelHearsItsMode' /\ PolicyInv'
  BY <1>1, OffFields DEF ModelHearsItsMode, PolicyInv
<1>10. RequestInv' /\ RetentionInv' /\ CommandInv'
  <2>1. \A i \in 2..Len(queue') : queue'[i] # Retry
    BY <1>1
  <2>2. QED
    BY <1>1, <1>2, <1>5, <2>1 DEF RequestInv, RetentionInv, CommandInv
<1>11. QED
  BY <1>6, <1>7, <1>8, <1>9, <1>10

LEMMA SessionStartKeeps ==
    ASSUME IInv, SessionStart
    PROVE  IInv'
<1>1. /\ branch \in Points /\ Begin(branch, None, FALSE) /\ TypeOK
  BY DEF SessionStart, IInv, TypeOK
<1>2. QED
  BY <1>1, Beginning, Zenon

LEMMA FreshStartsKeeps ==
    ASSUME IInv, NEW keeps \in Retentions, FreshStarts(keeps)
    PROVE  IInv'
<1> DEFINE destination == [impl |-> Implementation(op.plan, keeps), at |-> "setup"]
<1>1. op \in Commands /\ FreshIsCurrent /\ Begin(NewBranch, destination, TRUE)
  BY DEF FreshStarts, IInv, TypeOK
<1>2. Implementation(op.plan, keeps) \in Implementations
  <2>1. op.plan \in Plans
    BY <1>1 DEF Commands, FreshStarts, FreshIsCurrent, Current, IInv, CommandInv
  <2>2. QED
    BY <2>1, ImplementationType
<1>3. NewBranch \in Points
  BY OffFields DEF NewBranch, Points
<1>4. destination \in [impl : Implementations, at : {"setup", "kickoff"}]
      /\ destination.at = "setup"
  BY <1>2
<1> HIDE DEF destination
<1>5. QED
  BY <1>1, <1>3, <1>4, Beginning DEF IInv

LEMMA SessionStartedKeeps ==
    ASSUME IInv, SessionStarted
    PROVE  IInv'
<1> USE DEF IInv, agent
<1>1. /\ session = "starting" /\ session' = "on" /\ installs' = Off /\ st = Off
      /\ final = None /\ op = None /\ run = "idle"
      /\ branch \in Points /\ installs \in States
      /\ InstallRestored(installs, branch)
  BY DEF SessionStarted, Phases, TypeOK
<1>2. /\ installs # Off => branch.contract # "none" /\ relevant
      /\ installs.saved # None => branch.contract = "normal"
  BY <1>1 DEF ContractInv, Carries
<1>3. Installed(installs, branch)
  BY <1>1, <1>2, InstallEffect
<1>4. TypeOK'
  <2>1. UNCHANGED <<helpers, active, relevant, final, ready, refresh, arriving,
                    run, told, queue, op, asked>>
    BY DEF SessionStarted
  <2>2. /\ st' \in States /\ branch' \in Points /\ allowed' \subseteq Tools
        /\ holder' \in {"free", "plan", "other"}
        /\ pending' \in {"none", "resolve", "revalidate"} /\ awaiting' \in BOOLEAN
        /\ given' \in BOOLEAN /\ shown' \in {"no", "restored", "heard", "delivered"}
    BY <1>3 DEF Installed
  <2>3. installs' \in States
    BY <1>1, OffFields
  <2> HIDE DEF IInv, agent
  <2>4. TypeOK
    BY DEF IInv
  <2>5. QED
    BY <1>1, <2>1, <2>2, <2>3, <2>4 DEF TypeOK
<1>5. PlanningIsOwned' /\ Phases'
  BY <1>1, <1>3 DEF PlanningIsOwned, Phases, Owns, SessionStarted, Installed
<1>6. ContractInv'
  BY <1>1, <1>2, <1>3 DEF ContractInv, Carries, HandoffQueued, HandoffArrives, SessionStarted,
                          Installed
<1>7. ModelHearsItsMode' /\ PolicyInv'
  BY <1>1, <1>3 DEF ModelHearsItsMode, PolicyInv, SessionStarted, Installed
<1>8. RequestInv'
  BY <1>1, <1>3 DEF RequestInv, FinalizeQueued, SessionStarted, Installed
<1>9. RetentionInv'
  BY <1>3 DEF RetentionInv, Installed
<1>10. CommandInv'
  <2>1. refresh => branch.state.saved = None
    BY <1>1, OffFields DEF CommandInv
  <2>2. st'.enabled => st'.saved = None
    BY <1>3, StateFields DEF Installed
  <2>3. QED
    BY <1>1, <1>3, <2>1, <2>2 DEF CommandInv, SessionStarted, Installed
<1>11. QED
  BY <1>4, <1>5, <1>6, <1>7, <1>8, <1>9, <1>10

LEMMA SupersededCommand ==
    ASSUME op \in {None} \cup Commands
    PROVE  /\ Superseded \in {None} \cup Commands
           /\ op = None => Superseded = None
           /\ op # None => Superseded # None /\ ~Superseded.current
<1>1. CASE op = None
  BY <1>1 DEF Superseded
<1>2. CASE op # None
  <2>1. Superseded \in Commands /\ ~Superseded.current
    BY <1>2 DEF Superseded, Commands
  <2>2. QED
    BY <1>2, <2>1, CommandsAssumption
<1>3. QED
  BY <1>1, <1>2

LEMMA ReassignedCommand ==
    ASSUME op \in {None} \cup Commands
    PROVE  /\ Reassigned \in {None} \cup Commands
           /\ op = None => Reassigned = None
           /\ op # None => /\ Reassigned # None /\ Reassigned.kind = op.kind
                           /\ Reassigned.plan = op.plan
                           /\ Reassigned.current = op.current
                           /\ op.kind = "export" => ~Reassigned.same
<1>1. CASE op # None /\ op.kind = "export"
  <2>1. /\ Reassigned \in Commands /\ Reassigned.kind = op.kind
                           /\ Reassigned.plan = op.plan
        /\ Reassigned.current = op.current /\ ~Reassigned.same
    BY <1>1 DEF Reassigned, Commands
  <2>2. QED
    BY <1>1, <2>1, CommandsAssumption
<1>2. CASE op = None \/ op.kind # "export"
  BY <1>2 DEF Reassigned
<1>3. QED
  BY <1>1, <1>2

LEMMA SessionTreeKeeps ==
    ASSUME IInv, NEW point \in Tree, SessionTree(point)
    PROVE  IInv'
<1> USE DEF IInv, agent, environment
<1>1. /\ session = "on" /\ run = "idle" /\ queue = <<>> /\ arriving = None
      /\ final' = None /\ asked' = "no" /\ ready' = None /\ op' = Superseded
      /\ environment' = environment /\ agent' = agent
  BY DEF SessionTree
<1>2. point \in Points /\ point.state \in States
  BY TreeAssumption, PointFields
<1>3. RestorePlanModeState(point.state) = point.state
  BY <1>2, RestoredIsHeld
<1>4. /\ InstallRestored(point.state, point)
      /\ relevant' = TracksContracts(point, point.state)
  BY <1>3 DEF SessionTree
<1>5. /\ point.state # Off => point.contract # "none"
      /\ point.state.saved # None => point.contract = "normal"
  BY <1>2, PointFields
<1>6. Installed(point.state, point)
  BY <1>2, <1>4, <1>5, InstallEffect
<1>7. /\ op' \in {None} \cup Commands
      /\ op' # None => ~op'.current
  BY <1>1, SupersededCommand DEF TypeOK
<1>8. relevant' \in BOOLEAN /\ (point.contract # "none" => relevant')
  BY <1>4 DEF TracksContracts
<1>9. TypeOK'
  BY <1>1, <1>6, <1>7, <1>8 DEF TypeOK, Installed
<1>10. PlanningIsOwned' /\ Phases'
  BY <1>1, <1>6, <1>7 DEF PlanningIsOwned, Phases, Owns, Installed
<1>11. ContractInv'
  <2>1. ~HandoffQueued' /\ ~HandoffArrives'
    BY <1>1 DEF HandoffQueued, HandoffArrives
  <2>2. QED
    BY <1>1, <1>2, <1>5, <1>6, <1>8, <2>1, PointFields DEF ContractInv, Carries, Installed
<1>12. ModelHearsItsMode' /\ PolicyInv'
  BY <1>1, <1>6 DEF ModelHearsItsMode, PolicyInv, Installed
<1>13. RequestInv'
  BY <1>1 DEF RequestInv
<1>14. RetentionInv'
  BY <1>6 DEF RetentionInv, Installed
<1>15. CommandInv'
  <2>1. st'.enabled => st'.saved = None
    BY <1>6, StateFields DEF Installed
  <2>2. QED
    BY <1>6, <1>7, <2>1 DEF CommandInv, Installed
<1>16. QED
  BY <1>9, <1>10, <1>11, <1>12, <1>13, <1>14, <1>15

-----------------------------------------------------------------------------
\* Transitions of the mode: Plan mode is entered or left while the agent is idle.
\* The branch gets the new state, and whatever waited for the old one is told.

Transition ==
    /\ session = "on" /\ session' = "on" /\ Idle /\ run' \in {run, "idle"}
    /\ told' \in {"unprompted", "unsent", "none", "plan", "normal"}
    /\ environment' = environment
    /\ st' \in States /\ branch' \in Points /\ branch'.state = st'
    /\ st' # Off => relevant'
    /\ branch.contract # "none" => branch'.contract # "none"
    /\ relevant' \in BOOLEAN /\ (~relevant' => branch'.contract # "plan")
    /\ holder' \in {"free", "plan", "other"} /\ (st'.enabled => holder' = "plan")
    /\ pending' \in {"none", "resolve", "revalidate"} /\ allowed' \subseteq Tools
    /\ st'.enabled => /\ pending' # "none"
                      /\ st'.policy.resolved => allowed' \subseteq st'.policy.frozen
    /\ final' = None /\ asked' = "no" /\ ready' \in Plans \cup {None}
    /\ awaiting' \in BOOLEAN /\ given' \in BOOLEAN
    /\ shown' \in {"no", "restored", "heard", "delivered"}
    /\ op' \in {None} \cup Commands /\ (op' # None => ~op'.current)

\* The queue stays as it is or gets one message, never a retry.
QueueKeeps ==
    /\ queue' \in Seq(Messages) /\ Len(queue') <= MaxQueue
    /\ HandoffQueued' => HandoffQueued \/ branch'.contract # "none"
    /\ \A i \in 2..Len(queue') : queue'[i] # Retry

LEMMA TransitionKeeps ==
    ASSUME IInv, Transition, QueueKeeps, RetentionInv'
    PROVE  IInv'
<1> USE DEF IInv, Transition, environment
<1>1. TypeOK'
  BY DEF TypeOK, QueueKeeps
<1>2. PlanningIsOwned' /\ Phases'
  BY DEF PlanningIsOwned, Phases, Owns, Idle
<1>3. ContractInv'
  <2>1. HandoffArrives' = HandoffArrives
    BY DEF HandoffArrives
  <2>2. Carries(st)'
    BY PointFields DEF Carries
  <2>3. HandoffQueued' \/ HandoffArrives' => branch'.contract # "none"
    BY <2>1 DEF ContractInv, QueueKeeps
  <2>4. QED
    BY <2>2, <2>3 DEF ContractInv
<1>4. ModelHearsItsMode' /\ PolicyInv'
  BY DEF ModelHearsItsMode, PolicyInv, Idle
<1>5. RequestInv'
  BY DEF RequestInv, QueueKeeps
<1>6. CommandInv'
  BY DEF CommandInv
<1>7. QED
  BY <1>1, <1>2, <1>3, <1>4, <1>5, <1>6

LEMMA SameQueueKeeps ==
    ASSUME TypeOK, RequestInv, queue' = queue
    PROVE  QueueKeeps
BY DEF TypeOK, RequestInv, QueueKeeps, HandoffQueued

LEMMA FirstMessageKeeps ==
    ASSUME TypeOK, queue = <<>>, NEW message \in Messages, Send(message),
           message.kind = "handoff" => branch'.contract # "none"
    PROVE  QueueKeeps
<1>1. queue' = <<message>>
  BY DEF Send
<1>2. queue' \in Seq(Messages) /\ Len(queue') = 1 /\ queue'[1] = message
  BY <1>1
<1>3. QED
  BY <1>2, PlanModeAssumption DEF QueueKeeps, HandoffQueued

LEMMA EnterEffect ==
    ASSUME TypeOK, NEW selection \in Selections, CanEnter, Enter(selection)
    PROVE  /\ st' \in States /\ st'.enabled /\ st'.impl = None
           /\ branch' \in Points /\ branch'.state = st' /\ branch'.contract = "plan"
           /\ allowed' \subseteq Tools /\ ~st'.policy.resolved
<1>1. Workflow(selection) \in Policies /\ ~Workflow(selection).resolved
  BY NewWorkflowPolicy DEF TypeOK
<1>2. st' = Entered(selection) /\ branch' = Expected(st') /\ allowed' = st'.policy.allowed
  BY DEF Enter
<1>3. st' \in States /\ st'.enabled /\ st'.policy = Workflow(selection)
  <2>1. st \in States /\ ~st.enabled
    BY DEF TypeOK, CanEnter
  <2>2. QED
    BY <1>1, <1>2, <2>1, EnteredState DEF Entered
<1>4. st'.saved = None /\ st'.impl = None
  BY <1>3, StateFields
<1>5. branch' = [branch EXCEPT !.state = st', !.contract = "plan"]
  BY <1>2, <1>3 DEF Expected, Mode
<1>6. branch' \in Points /\ branch'.state = st' /\ branch'.contract = "plan"
  BY <1>3, <1>4, <1>5 DEF Points, TypeOK
<1>7. QED
  BY <1>1, <1>2, <1>3, <1>4, <1>6, PolicyFields

LEMMA EnterKeeps ==
    ASSUME IInv, NEW selection \in Selections, CanEnter, Enter(selection), QueueKeeps,
           environment' = environment, run' = run, told' = told,
           ready' = ready, op' = None \/ op' = Superseded
    PROVE  IInv'
<1>1. Transition
  <2>1. op' \in {None} \cup Commands /\ (op' # None => ~op'.current)
    BY SupersededCommand DEF IInv, TypeOK
  <2>2. /\ session = "on" /\ session' = "on" /\ Idle
        /\ run' \in {run, "idle"}
        /\ told' \in {"unprompted", "unsent", "none", "plan", "normal"}
        /\ ready' \in Plans \cup {None}
    BY DEF CanEnter, Idle, environment, IInv, TypeOK
  <2>3. /\ relevant' = TRUE /\ holder' = "plan" /\ pending' = "resolve" /\ final' = None
        /\ asked' = "no" /\ awaiting' = FALSE /\ given' = FALSE /\ shown' = "no"
    BY DEF Enter
  <2>4. QED
    BY <2>1, <2>2, <2>3, EnterEffect DEF Transition, IInv
<1>2. RetentionInv'
  BY EnterEffect DEF RetentionInv, IInv
<1>3. QED
  BY <1>1, <1>2, TransitionKeeps

LEMMA StartPlanKeeps ==
    ASSUME IInv, NEW selection \in Selections, StartPlan(selection)
    PROVE  IInv'
<1>1. QueueKeeps
  BY SameQueueKeeps DEF IInv, StartPlan, agent
<1>2. QED
  BY <1>1, EnterKeeps DEF StartPlan, agent, environment

\* A command that awaited ends, and nothing comes of it.
LEMMA CommandEndsKeeps ==
    ASSUME IInv, op' = None,
           UNCHANGED <<environment, holder, st, branch, relevant, allowed, pending, final, ready,
                       retention, agent, asked>>
    PROVE  IInv'
<1> USE DEF IInv, environment, retention, agent
<1>1. TypeOK' /\ PlanningIsOwned' /\ Phases'
  BY DEF TypeOK, PlanningIsOwned, Phases, Owns
<1>2. ContractInv' /\ ModelHearsItsMode' /\ PolicyInv'
  BY DEF ContractInv, Carries, HandoffQueued, HandoffArrives, ModelHearsItsMode, PolicyInv
<1>3. RequestInv' /\ RetentionInv' /\ CommandInv'
  BY DEF RequestInv, FinalizeQueued, RetentionInv, CommandInv
<1>4. QED
  BY <1>1, <1>2, <1>3

LEMMA LaunchMenuStartsKeeps ==
    ASSUME IInv, NEW selection \in Selections, LaunchMenuStarts(selection)
    PROVE  IInv'
<1>1. QueueKeeps
  BY SameQueueKeeps DEF IInv, LaunchMenuStarts, agent
<1>2. CASE CanEnter /\ Enter(selection)
  BY <1>1, <1>2, EnterKeeps DEF LaunchMenuStarts, agent, environment
<1>3. CASE UNCHANGED <<holder, st, branch, relevant, allowed, pending, final, asked, retention>>
  BY <1>3, CommandEndsKeeps DEF LaunchMenuStarts
<1>4. QED
  BY <1>2, <1>3 DEF LaunchMenuStarts

LEMMA StartWithPromptKeeps ==
    ASSUME IInv, NEW selection \in Selections, StartWithPrompt(selection)
    PROVE  IInv'
<1>1. /\ CanEnter /\ ~SavedPlanBlocks /\ queue = <<>> /\ op' = Superseded
      /\ environment' = environment /\ run' = run /\ told' = told
  BY DEF StartWithPrompt, environment
<1>2. CASE Enter(selection) /\ Send(Prompt) /\ ready' = ready
  <2>1. QueueKeeps
    BY <1>1, <1>2, MessageFields, FirstMessageKeeps DEF IInv
  <2>2. QED
    BY <1>1, <1>2, <2>1, EnterKeeps
<1>3. ASSUME NEW contract \in {"plan", "normal"},
             branch' = [branch EXCEPT !.state = st, !.contract = contract],
             relevant' = TRUE, pending' = "none", final' = None, asked' = "no", ready' = None,
             allowed' = {}, UNCHANGED <<holder, st, retention, queue>>
      PROVE  IInv'
  <2>1. QueueKeeps
    BY <1>3, SameQueueKeeps DEF IInv
  <2>2. /\ branch' \in Points /\ branch'.state = st /\ branch'.contract = contract
        /\ branch'.said = branch.said
    <3>1. st \in States /\ branch \in Points /\ st.saved = None
      BY <1>1 DEF IInv, TypeOK, SavedPlanBlocks
    <3>2. QED
      BY <1>3, <3>1 DEF Points
  <2>3. op' \in {None} \cup Commands /\ (op' # None => ~op'.current)
    BY <1>1, SupersededCommand DEF IInv, TypeOK
  <2>4. Transition
    BY <1>1, <1>3, <2>2, <2>3
       DEF Transition, CanEnter, Idle, environment, retention, IInv, TypeOK
  <2>5. RetentionInv'
    BY <1>1, <1>3, <2>2 DEF RetentionInv, IInv, retention, environment
  <2>6. QED
    BY <2>1, <2>4, <2>5, TransitionKeeps
<1>4. QED
  BY <1>2, <1>3 DEF StartWithPrompt

LEMMA LeaveEffect ==
    ASSUME IInv, session = "on", NEW s \in States, ~s.enabled, Leave(s),
           s # Off => st # Off
    PROVE  /\ st' = s /\ branch' \in Points /\ branch'.state = s
           /\ branch'.said = branch.said
           /\ s # Off => branch'.contract = "normal" /\ relevant'
           /\ branch.contract # "none" => branch'.contract # "none"
           /\ relevant' = relevant /\ (~relevant' => branch'.contract # "plan")
<1> DEFINE contract == IF st.enabled \/ relevant THEN "normal" ELSE branch.contract
<1>1. /\ contract \in {"none", "plan", "normal"}
      /\ s # Off => contract = "normal" /\ relevant
      /\ branch.contract # "none" => contract # "none"
      /\ ~relevant => contract # "plan"
  BY PointFields DEF IInv, TypeOK, ContractInv, Carries
<1>2. contract = "none" => branch.said = {}
  BY PointFields DEF IInv, TypeOK
<1>3. st' = s /\ branch' = [branch EXCEPT !.state = s, !.contract = contract]
      /\ relevant' = relevant
  BY DEF Leave
<1> HIDE DEF contract
<1>4. s.saved # None => contract = "normal"
  BY <1>1, OffFields
<1>5. /\ branch' \in Points /\ branch'.state = s /\ branch'.contract = contract
      /\ branch'.said = branch.said
  BY <1>1, <1>2, <1>3, <1>4 DEF Points, IInv, TypeOK
<1>6. QED
  BY <1>1, <1>3, <1>5

\* Every transition that leaves Plan mode, or clears what is left of it.
LEMMA LeaveKeeps ==
    ASSUME IInv, session = "on", Idle, NEW s \in States, ~s.enabled, Leave(s),
           s # Off => st # Off,
           environment' = environment, run' = run, told' = told, QueueKeeps,
           op' = None \/ op' = Superseded,
           awaiting' \in BOOLEAN, given' \in BOOLEAN,
           shown' \in {"no", "restored", "heard", "delivered"},
           RetentionInv'
    PROVE  IInv'
<1>1. op' \in {None} \cup Commands /\ (op' # None => ~op'.current)
  BY SupersededCommand DEF IInv, TypeOK
<1>2. /\ pending' = "none" /\ final' = None /\ asked' = "no" /\ ready' = None /\ allowed' = {}
      /\ holder' \in {"free", "plan", "other"}
  BY DEF Leave, IInv, TypeOK
<1>3. /\ session' = "on" /\ run' \in {run, "idle"}
      /\ told' \in {"unprompted", "unsent", "none", "plan", "normal"}
  BY DEF environment, IInv, TypeOK, Idle
<1>4. /\ st' = s /\ branch' \in Points /\ branch'.state = s
      /\ s # Off => relevant'
      /\ branch.contract # "none" => branch'.contract # "none"
      /\ relevant' \in BOOLEAN /\ (~relevant' => branch'.contract # "plan")
  BY LeaveEffect DEF IInv, TypeOK
<1>5. Transition
  BY <1>1, <1>2, <1>3, <1>4 DEF Transition
<1>6. QED
  BY <1>5, TransitionKeeps

LEMMA ExitPlanModeKeeps ==
    ASSUME IInv, session = "on", Idle, ExitPlanMode, environment' = environment,
           agent' = agent, op' = None \/ op' = Superseded
    PROVE  IInv'
<1>1. /\ Off \in States /\ ~Off.enabled /\ Leave(Off) /\ Off.impl = None
      /\ awaiting' = FALSE /\ given' = FALSE /\ shown' = "no"
  BY OffFields DEF ExitPlanMode
<1>2. QueueKeeps /\ run' = run /\ told' = told
  BY SameQueueKeeps DEF IInv, agent
<1>3. RetentionInv'
  BY <1>1 DEF RetentionInv, Leave
<1>4. QED
  BY <1>1, <1>2, <1>3, LeaveKeeps

LEMMA ExitKeeps ==
    ASSUME IInv, Exit
    PROVE  IInv'
BY ExitPlanModeKeeps DEF Exit, environment, agent

LEMMA SavePlanForLaterKeeps ==
    ASSUME IInv, SavePlanForLater
    PROVE  IInv'
<1> DEFINE s == [Off EXCEPT !.saved = st.plan]
<1>1. st.plan \in Plans /\ st.enabled /\ session = "on" /\ Idle /\ Leave(s)
  BY DEF SavePlanForLater, IInv, TypeOK, States
<1>2. s \in States /\ ~s.enabled /\ s.impl = None
  BY <1>1, SavedState
<1>3. st # Off
  BY <1>1, OffFields
<1> HIDE DEF s
<1>4. /\ environment' = environment /\ agent' = agent /\ retention' = retention
      /\ op' = Superseded
  BY DEF SavePlanForLater, environment, agent, retention
<1>5. QueueKeeps /\ run' = run /\ told' = told
  BY <1>4, SameQueueKeeps DEF IInv, agent
<1>6. RetentionInv'
  BY <1>1, <1>2 DEF RetentionInv, Leave
<1>7. /\ awaiting' \in BOOLEAN /\ given' \in BOOLEAN
      /\ shown' \in {"no", "restored", "heard", "delivered"}
  BY <1>4 DEF retention, IInv, TypeOK
<1>8. QED
  BY <1>1, <1>2, <1>3, <1>4, <1>5, <1>6, <1>7, LeaveKeeps

LEMMA ExportEndsKeeps ==
    ASSUME IInv, ExportEnds
    PROVE  IInv'
<1>1. CASE ExportIsCurrent /\ ExitPlanMode
  <2>1. op # None /\ op' = None /\ environment' = environment /\ agent' = agent
    BY DEF ExportEnds, environment, agent
  <2>2. session = "on" /\ Idle
    BY <1>1, <2>1 DEF ExportIsCurrent, IInv, Phases
  <2>3. QED
    BY <1>1, <2>1, <2>2, ExitPlanModeKeeps
<1>2. CASE UNCHANGED <<holder, st, branch, relevant, allowed, pending, final, ready, retention,
                       asked>>
  BY <1>2, CommandEndsKeeps DEF ExportEnds
<1>3. QED
  BY <1>1, <1>2 DEF ExportEnds

-----------------------------------------------------------------------------
\* The plan is implemented

LEMMA HandoffSentKeeps ==
    ASSUME IInv, session = "on", Idle, queue = <<>>, st # Off,
           NEW plan \in Plans, NEW keeps \in Retentions,
           NEW impl, impl = Implementation(plan, keeps),
           Leave([Off EXCEPT !.impl = impl]), Send(Handoff(impl)),
           awaiting' = FALSE, given' = FALSE,
           shown' = IF impl # None /\ plan \in branch.said THEN "heard" ELSE "no",
           environment' = environment, run' = run, told' = told,
           op' = None \/ op' = Superseded
    PROVE  IInv'
<1> DEFINE s == [Off EXCEPT !.impl = impl]
<1>1. impl \in Implementations
  BY ImplementationType
<1>2. s \in States /\ ~s.enabled /\ s.impl = impl
  BY <1>1, ImplementingState
<1>3. impl # None => s # Off
  BY <1>2, OffFields
<1>4. Leave(s)
  OBVIOUS
<1> HIDE DEF s
<1>5. /\ st' = s /\ branch'.said = branch.said
      /\ s # Off => branch'.contract = "normal"
  BY <1>2, <1>4, LeaveEffect
<1>6. QueueKeeps
  <2>1. Handoff(impl) \in Messages
    BY <1>1, HandoffFields
  <2>2. Handoff(impl).kind = "handoff" => branch'.contract # "none"
    BY <1>3, <1>5, MessageFields DEF Handoff
  <2>3. QED
    BY <2>1, <2>2, FirstMessageKeeps DEF IInv
<1>7. RetentionInv'
  <2>1. st'.impl # None => st'.impl.plan = plan
    BY <1>2, <1>5 DEF Implementation
  <2>2. QED
    BY <1>2, <1>5, <2>1 DEF RetentionInv
<1>8. QED
  BY <1>2, <1>4, <1>6, <1>7, LeaveKeeps

LEMMA ImplementKeeps ==
    ASSUME IInv, session = "on", Idle, queue = <<>>, st # Off,
           NEW plan \in Plans, NEW keeps \in Retentions, Implement(plan, keeps),
           environment' = environment, run' = run, told' = told,
           op' = None \/ op' = Superseded
    PROVE  IInv'
<1> DEFINE impl == Implementation(plan, keeps)
<1>1. CASE /\ Leave([Off EXCEPT !.impl = impl]) /\ Send(Handoff(impl))
           /\ awaiting' = FALSE /\ given' = FALSE
           /\ shown' = IF impl # None /\ plan \in branch.said THEN "heard" ELSE "no"
  BY <1>1, HandoffSentKeeps
<1>2. op' \in {None} \cup Commands /\ (op' # None => ~op'.current)
  BY SupersededCommand DEF IInv, TypeOK
<1>3. /\ session' = "on" /\ run' \in {run, "idle"}
      /\ told' \in {"unprompted", "unsent", "none", "plan", "normal"}
      /\ st \in States /\ branch \in Points /\ branch.contract \in {"none", "plan", "normal"}
  BY PointFields DEF environment, IInv, TypeOK
<1>4. relevant /\ (st.saved # None => branch.contract = "normal")
  BY DEF IInv, ContractInv, Carries
<1>5. CASE /\ pending' = "none" /\ final' = None /\ asked' = "no"
           /\ ~st.enabled /\ allowed' = {} /\ UNCHANGED st
           /\ branch' = [branch EXCEPT !.state = st, !.contract = "normal"]
           /\ UNCHANGED <<holder, relevant, ready, retention, queue>>
  <2>1. /\ branch' \in Points /\ branch'.state = st /\ branch'.contract = "normal"
        /\ branch'.said = branch.said
    BY <1>3, <1>5 DEF Points
  <2>2. Transition
    BY <1>2, <1>3, <1>4, <1>5, <2>1 DEF Transition, retention, IInv, TypeOK
  <2>3. QueueKeeps
    BY <1>5, SameQueueKeeps DEF IInv
  <2>4. RetentionInv'
    BY <1>3, <1>5, <2>1 DEF RetentionInv, retention, IInv
  <2>5. QED
    BY <2>2, <2>3, <2>4, TransitionKeeps
<1>6. ASSUME final' = None, asked' = "no", st.enabled,
             st' = [st EXCEPT !.policy = RestoredPolicy(st.policy)],
             RestoreWorkflowToolPolicy(st'.policy),
             NEW contract \in {"plan", "normal"},
             branch' = [branch EXCEPT !.state = st', !.contract = contract],
             UNCHANGED <<holder, relevant, ready, retention, queue>>
      PROVE  IInv'
  <2>1. RestoredPolicy(st.policy) \in Policies /\ active \subseteq Tools
    BY <1>3, <1>6, StateFields, PolicyRestores DEF IInv, TypeOK
  <2>2. st' \in States /\ st'.enabled
    BY <1>3, <1>6, <2>1, PolicyChanged
  <2>3. st'.saved = None /\ st'.impl = None /\ st'.policy \in Policies
    BY <2>2, StateFields
  <2>4. /\ allowed' \subseteq Tools /\ pending' \in {"resolve", "revalidate"}
        /\ st'.policy.resolved => allowed' \subseteq st'.policy.frozen
    BY <1>6, <2>1, <2>3, RestoredTools
  <2>5. branch' \in Points /\ branch'.state = st' /\ branch'.contract = contract
    BY <1>3, <1>6, <2>2, <2>3 DEF Points
  <2>6. holder = "plan"
    BY <1>6 DEF IInv, PlanningIsOwned, Owns
  <2>7. Transition
    BY <1>2, <1>3, <1>4, <1>6, <2>2, <2>4, <2>5, <2>6
       DEF Transition, retention, IInv, TypeOK
  <2>8. QueueKeeps
    BY <1>6, SameQueueKeeps DEF IInv
  <2>9. RetentionInv'
    BY <2>3 DEF RetentionInv
  <2>10. QED
    BY <2>7, <2>8, <2>9, TransitionKeeps
<1>7. QED
  BY <1>1, <1>5, <1>6 DEF Implement

LEMMA ImplementReadyKeeps ==
    ASSUME IInv, NEW keeps \in Retentions, ImplementReady(keeps)
    PROVE  IInv'
<1>1. /\ session = "on" /\ Idle /\ queue = <<>> /\ st.enabled /\ st.plan # None
      /\ Implement(st.plan, keeps) /\ op' = Superseded
      /\ environment' = environment /\ run' = run /\ told' = told
  BY DEF ImplementReady, environment
<1>2. st.plan \in Plans /\ st # Off
  BY <1>1, StateFields, OffFields DEF IInv, TypeOK
<1>3. QED
  BY <1>1, <1>2, ImplementKeeps

LEMMA ImplementSavedEndsKeeps ==
    ASSUME IInv, NEW keeps \in Retentions, ImplementSavedEnds(keeps)
    PROVE  IInv'
<1>1. op # None /\ op.kind = "implement" /\ op' = None
      /\ environment' = environment /\ run' = run /\ told' = told
  BY DEF ImplementSavedEnds, environment
<1>2. CASE /\ op.current /\ ~st.enabled /\ st.saved = op.plan /\ Idle /\ queue = <<>>
           /\ Implement(op.plan, keeps)
  <2>1. session = "on"
    BY <1>1 DEF IInv, Phases
  <2>2. op.plan \in Plans /\ st # Off
    BY <1>1, <1>2, StateFields, OffFields DEF IInv, TypeOK, CommandInv
  <2>3. QED
    BY <1>1, <1>2, <2>1, <2>2, ImplementKeeps
<1>3. CASE UNCHANGED <<holder, st, branch, relevant, allowed, pending, final, ready, retention,
                       queue, asked>>
  BY <1>1, <1>3, CommandEndsKeeps DEF agent
<1>4. QED
  BY <1>2, <1>3 DEF ImplementSavedEnds

-----------------------------------------------------------------------------
\* The runs of the agent

\* Whatever a run does to the plan or the policy of a session that plans, the
\* branch follows, and a command that exports is told.
Replanned ==
    /\ st' \in States /\ st'.enabled /\ st'.impl = None /\ st'.saved = None
    /\ branch' \in Points
    /\ branch'.contract = branch.contract /\ branch'.said = branch.said
    /\ branch'.state.saved = None
    /\ op' = Reassigned

LEMMA PlanReplaced ==
    ASSUME IInv, session = "on", st.enabled, NEW plan \in Plans \cup {None},
           st' = [st EXCEPT !.plan = plan], branch' = Persisted(st'), op' = Reassigned
    PROVE  Replanned /\ st'.policy = st.policy
<1>1. st \in States /\ branch \in Points
  BY DEF IInv, TypeOK
<1>2. st' \in States /\ st'.enabled /\ st'.policy = st.policy
  BY <1>1, PlanChanged
<1>3. st'.saved = None /\ st'.impl = None
  BY <1>2, StateFields
<1>4. branch.contract # "none"
  BY OffFields DEF IInv, ContractInv, Carries
<1>5. /\ branch' \in Points /\ branch'.contract = branch.contract /\ branch'.said = branch.said
      /\ branch'.state.saved = None
  BY <1>1, <1>2, <1>3, <1>4, StatePersists DEF Persisted
<1>6. QED
  BY <1>2, <1>3, <1>5 DEF Replanned

\* The parts of the invariant that a run's changes to the plan leave alone.
LEMMA ReplannedKeeps ==
    ASSUME IInv, session = "on", session' = "on", st.enabled, Replanned, holder' = holder,
           relevant' = relevant, refresh' => refresh,
           HandoffQueued' => HandoffQueued, arriving' = arriving
    PROVE  /\ PlanningIsOwned' /\ ContractInv' /\ RetentionInv' /\ CommandInv'
           /\ op' \in {None} \cup Commands
<1>1. PlanningIsOwned'
  BY DEF IInv, PlanningIsOwned, Owns
<1>2. ContractInv'
  BY OffFields DEF IInv, ContractInv, Carries, HandoffArrives, Replanned
<1>3. RetentionInv'
  BY DEF RetentionInv, Replanned
<1>4. /\ op' \in {None} \cup Commands
      /\ op = None => op' = None
      /\ op # None => /\ op'.kind = op.kind /\ op'.plan = op.plan
                      /\ op'.current = op.current
                      /\ op.kind = "export" => ~op'.same
  BY ReassignedCommand DEF IInv, TypeOK, Replanned
<1>5. CommandInv'
  BY <1>4 DEF IInv, CommandInv, Replanned
<1>6. QED
  BY <1>1, <1>2, <1>3, <1>4, <1>5

\* The first run of a fresh session restores the state that was set up.
LEMMA FirstStartKeeps ==
    ASSUME IInv, AgentStart, refresh,
           InstallRestored(RestorePlanModeState(branch.state), branch),
           relevant' = TracksContracts(branch, RestorePlanModeState(branch.state)),
           op' = Reassigned, ready' = ready
    PROVE  IInv'
<1> USE DEF IInv
<1>1. /\ session = "on" /\ session' = "on" /\ run' = "running" /\ told' = "unprompted"
      /\ refresh' = FALSE /\ helpers' = helpers /\ active' = active /\ installs' = installs
      /\ arriving' = arriving /\ final' = final /\ queue' = queue /\ asked' = asked
  BY DEF AgentStart
<1>2. branch \in Points /\ branch.state \in States
  BY PointFields DEF TypeOK
<1>3. RestorePlanModeState(branch.state) = branch.state
  BY <1>2, RestoredIsHeld
<1>4. /\ branch.state # Off => branch.contract # "none"
      /\ branch.state.saved # None => branch.contract = "normal"
  BY <1>2, PointFields
<1>5. Installed(branch.state, branch)
  BY <1>2, <1>3, <1>4, InstallEffect
<1>6. relevant' \in BOOLEAN /\ (branch.contract # "none" => relevant')
  BY <1>3 DEF TracksContracts
<1>7. /\ op' \in {None} \cup Commands
      /\ op = None => op' = None
      /\ op # None => /\ op'.kind = op.kind /\ op'.plan = op.plan
                      /\ op'.current = op.current
                      /\ op.kind = "export" => ~op'.same
  BY ReassignedCommand DEF TypeOK
<1>8. TypeOK'
  BY <1>1, <1>5, <1>6, <1>7 DEF TypeOK, Installed
<1>9. PlanningIsOwned' /\ Phases'
  BY <1>1, <1>5 DEF PlanningIsOwned, Phases, Owns, Installed
<1>10. ContractInv'
  <2>1. HandoffQueued' = HandoffQueued /\ HandoffArrives' = HandoffArrives
    BY <1>1 DEF HandoffQueued, HandoffArrives
  <2>2. QED
    BY <1>1, <1>2, <1>4, <1>5, <1>6, <2>1, PointFields DEF ContractInv, Carries, Installed
<1>11. ModelHearsItsMode' /\ PolicyInv'
  BY <1>1, <1>5 DEF ModelHearsItsMode, PolicyInv, Installed
<1>12. RequestInv'
  BY <1>1 DEF RequestInv, FinalizeQueued
<1>13. RetentionInv'
  BY <1>5 DEF RetentionInv, Installed
<1>14. CommandInv'
  BY <1>1, <1>5, <1>7 DEF CommandInv, Installed
<1>15. QED
  BY <1>8, <1>9, <1>10, <1>11, <1>12, <1>13, <1>14

LEMMA LaterStartKeeps ==
    ASSUME IInv, AgentStart,
           IF st.enabled /\ Owns /\ st.plan # None
           THEN /\ st' = [st EXCEPT !.plan = None] /\ branch' = Persisted(st')
                /\ ready' = None /\ op' = Reassigned
           ELSE UNCHANGED <<st, branch, ready, op>>,
           UNCHANGED <<holder, allowed, pending, relevant, retention>>
    PROVE  IInv'
<1> USE DEF IInv
<1>1. /\ session = "on" /\ session' = "on" /\ run' = "running" /\ told' = "unprompted"
      /\ refresh' = FALSE /\ helpers' = helpers /\ active' = active /\ installs' = installs
      /\ arriving' = arriving /\ final' = final /\ queue' = queue /\ asked' = asked
      /\ awaiting' = awaiting /\ given' = given /\ shown' = shown /\ holder' = holder
      /\ allowed' = allowed /\ pending' = pending /\ relevant' = relevant
  BY DEF AgentStart, retention
<1>2. HandoffQueued' = HandoffQueued
  BY <1>1 DEF HandoffQueued
<1>3. /\ session' \in {"none", "starting", "on", "closing"}
      /\ holder' \in {"free", "plan", "other"} /\ helpers' \in BOOLEAN /\ active' \subseteq Tools
      /\ queue' \in Seq(Messages) /\ Len(queue') <= MaxQueue /\ installs' \in States
      /\ final' \in {None} \cup [retried : BOOLEAN, ended : BOOLEAN]
      /\ run' \in {"idle", "running", "settling"} /\ refresh' \in BOOLEAN
      /\ told' \in {"unprompted", "unsent", "none", "plan", "normal"}
      /\ arriving' \in {None} \cup [impl : Implementations, at : {"setup", "kickoff"}]
  BY <1>1 DEF TypeOK
<1>4. CASE /\ st.enabled /\ st' = [st EXCEPT !.plan = None] /\ branch' = Persisted(st')
           /\ ready' = None /\ op' = Reassigned
  <2>1. Replanned /\ st'.policy = st.policy
    BY <1>1, <1>4, PlanReplaced
  <2>2. /\ PlanningIsOwned' /\ ContractInv' /\ RetentionInv' /\ CommandInv'
        /\ op' \in {None} \cup Commands
    BY <1>1, <1>2, <1>4, <2>1, ReplannedKeeps
  <2>3. TypeOK'
    BY <1>1, <1>4, <1>3, <2>1, <2>2 DEF TypeOK, Replanned
  <2>4. Phases' /\ ModelHearsItsMode' /\ PolicyInv'
    BY <1>1, <1>4, <2>1 DEF Phases, ModelHearsItsMode, PolicyInv
  <2>5. RequestInv'
    BY <1>1, <1>4 DEF RequestInv, FinalizeQueued
  <2>6. QED
    BY <2>2, <2>3, <2>4, <2>5
<1>5. CASE UNCHANGED <<st, branch, ready, op>>
  <2>1. TypeOK'
    BY <1>1, <1>5, <1>3 DEF TypeOK
  <2>2. PlanningIsOwned' /\ Phases' /\ ContractInv' /\ ModelHearsItsMode' /\ PolicyInv'
    BY <1>1, <1>2, <1>5 DEF PlanningIsOwned, Phases, Owns, ContractInv, Carries,
                            HandoffArrives, ModelHearsItsMode, PolicyInv
  <2>3. RequestInv' /\ RetentionInv' /\ CommandInv'
    BY <1>1, <1>5 DEF RequestInv, FinalizeQueued, RetentionInv, CommandInv
  <2>4. QED
    BY <2>1, <2>2, <2>3
<1>6. QED
  BY <1>4, <1>5

LEMMA AgentStartKeeps ==
    ASSUME IInv, AgentStart
    PROVE  IInv'
BY FirstStartKeeps, LaterStartKeeps DEF AgentStart

\* context: the policy that the request freezes, the contract that it carries and
\* the plan that it delivers.
LEMMA ContextKeeps ==
    ASSUME IInv, Context
    PROVE  IInv'
<1> USE DEF IInv
<1>1. /\ session = "on" /\ session' = "on" /\ run = "running" /\ run' = run /\ ~refresh
      /\ told' = IF st.enabled \/ relevant THEN Mode(st) ELSE branch.contract
      /\ UNCHANGED <<helpers, active, refresh, installs, arriving, holder, relevant, final,
                     ready, queue, asked>>
      /\ pending' = "none"
      /\ awaiting' = (awaiting /\ ~Delivers)
      /\ given' = (given \/ (Delivers /\ st.impl.keeps = "clear-after-first-run"))
      /\ shown' = IF ~st.enabled /\ st.impl # None /\ shown # "no" THEN "delivered" ELSE shown
  BY DEF Context, ResolvePendingPolicy, environment, Phases
<1>2. HandoffQueued' = HandoffQueued
  BY <1>1 DEF HandoffQueued
<1>3. /\ awaiting' \in BOOLEAN /\ given' \in BOOLEAN
      /\ shown' \in {"no", "restored", "heard", "delivered"}
  BY <1>1 DEF TypeOK
<1>4. told' \in {"none", "plan", "normal"} /\ ((told' = "plan") = st.enabled)
  BY <1>1, PointFields, StateFields DEF TypeOK, Mode, ContractInv
<1>5. CASE pending # "none" /\ st.enabled
  <2>1. /\ st' = [st EXCEPT !.policy = SettledPolicy(st.policy)]
        /\ allowed' = st'.policy.allowed
        /\ branch' = IF st' = st THEN branch ELSE Persisted(st')
        /\ op' = Reassigned
    BY <1>1, <1>5 DEF Context, ResolvePendingPolicy, PlanningIsOwned
  <2>2. SettledPolicy(st.policy) \in Policies /\ SettledPolicy(st.policy).resolved
    BY <1>5, StateFields, PolicySettles DEF TypeOK
  <2>3. st' \in States /\ st'.enabled /\ st'.policy = SettledPolicy(st.policy)
    BY <1>5, <2>1, <2>2, PolicyChanged DEF TypeOK
  <2>4. st'.saved = None /\ st'.impl = None /\ st.saved = None
    BY <1>5, <2>3, StateFields DEF TypeOK
  <2>5. /\ branch' \in Points /\ branch'.contract = branch.contract
        /\ branch'.said = branch.said
        /\ branch'.state = branch.state \/ branch'.state.saved = None
    <3>1. branch.contract # "none"
      BY <1>1, <1>5, OffFields DEF ContractInv, Carries
    <3>2. CASE branch' = Persisted(st')
      BY <2>3, <2>4, <3>1, <3>2, StatePersists DEF Persisted, TypeOK
    <3>3. QED
      BY <2>1, <3>2 DEF TypeOK
  <2>6. /\ op' \in {None} \cup Commands
        /\ op = None => op' = None
        /\ op # None => /\ op'.kind = op.kind /\ op'.plan = op.plan
                        /\ op'.current = op.current
                        /\ op.kind = "export" => ~op'.same
    BY <2>1, ReassignedCommand DEF TypeOK
  <2>7. allowed' \subseteq Tools /\ allowed' \subseteq st'.policy.frozen
    BY <2>1, <2>2, <2>3, PolicyFields
  <2>8. TypeOK'
    BY <1>1, <1>3, <1>4, <2>3, <2>5, <2>6, <2>7 DEF TypeOK
  <2>9. PlanningIsOwned' /\ Phases'
    BY <1>1, <1>5 DEF PlanningIsOwned, Phases, Owns
  <2>10. ContractInv'
    BY <1>1, <1>2, <1>5, <2>4, <2>5, OffFields DEF ContractInv, Carries, HandoffArrives
  <2>11. ModelHearsItsMode' /\ PolicyInv'
    BY <1>4, <1>5, <2>2, <2>3, <2>7 DEF ModelHearsItsMode, PolicyInv
  <2>12. RequestInv'
    BY <1>1, <1>5 DEF RequestInv, FinalizeQueued
  <2>13. RetentionInv' /\ CommandInv'
    BY <1>1, <2>4, <2>6 DEF RetentionInv, CommandInv
  <2>14. QED
    BY <2>8, <2>9, <2>10, <2>11, <2>12, <2>13
<1>6. CASE pending = "none" \/ ~st.enabled
  <2>1. UNCHANGED <<st, branch, allowed, op>>
    BY <1>6 DEF Context, ResolvePendingPolicy
  <2>2. TypeOK'
    BY <1>1, <1>3, <1>4, <2>1 DEF TypeOK
  <2>3. PlanningIsOwned' /\ Phases'
    BY <1>1, <2>1 DEF PlanningIsOwned, Phases, Owns
  <2>4. ContractInv'
    BY <1>1, <1>2, <2>1 DEF ContractInv, Carries, HandoffArrives
  <2>5. ModelHearsItsMode' /\ PolicyInv'
    BY <1>1, <1>4, <1>6, <2>1 DEF ModelHearsItsMode, PolicyInv
  <2>6. RequestInv' /\ CommandInv'
    BY <1>1, <2>1 DEF RequestInv, FinalizeQueued, CommandInv
  <2>7. RetentionInv'
    <3>1. SUFFICES ASSUME st.impl # None, st.impl.keeps = "clear-after-first-run"
                   PROVE  /\ given' = (shown' = "delivered")
                          /\ ~given' => (shown' # "no")
                                            = (awaiting' \/ st.impl.plan \in branch.said)
      BY <2>1 DEF RetentionInv
    <3>2. /\ given = (shown = "delivered")
          /\ ~given => (shown # "no") = (awaiting \/ st.impl.plan \in branch.said)
      BY <1>1, <3>1 DEF RetentionInv
    <3>3. ~st.enabled
      BY <3>1, StateFields DEF TypeOK
    <3>4. Delivers = (awaiting \/ st.impl.plan \in branch.said)
      BY <3>1, <3>3 DEF Delivers
    <3>5. CASE given
      BY <1>1, <3>1, <3>2, <3>3, <3>5 DEF TypeOK
    <3>6. CASE ~given /\ shown # "no"
      BY <1>1, <3>1, <3>2, <3>3, <3>4, <3>6 DEF TypeOK
    <3>7. CASE ~given /\ shown = "no"
      BY <1>1, <3>1, <3>2, <3>3, <3>4, <3>7 DEF TypeOK
    <3>8. QED
      BY <3>5, <3>6, <3>7 DEF TypeOK
  <2>8. QED
    BY <2>2, <2>3, <2>4, <2>5, <2>6, <2>7
<1>7. QED
  BY <1>5, <1>6

\* Messages that wait stay, or Pi takes all of them back.
LEMMA DroppedQueue ==
    ASSUME IInv, queue' \in {queue, <<>>}
    PROVE  /\ queue' \in Seq(Messages) /\ Len(queue') <= MaxQueue
           /\ HandoffQueued' => HandoffQueued
           /\ \A i \in 2..Len(queue') : queue'[i] # Retry
<1>1. CASE queue' = queue
  BY <1>1 DEF IInv, TypeOK, HandoffQueued, RequestInv
<1>2. CASE queue' = <<>>
  BY <1>2, PlanModeAssumption DEF HandoffQueued
<1>3. QED
  BY <1>1, <1>2

\* acceptCompletedPlan, in a run or at its end
LEMMA AcceptKeeps ==
    ASSUME IInv, session = "on", run = "running", st.enabled,
           NEW plan \in Plans, Accept(plan),
           UNCHANGED <<environment, holder, relevant, allowed, pending, retention, told>>,
           run' \in {"running", "settling"}, queue' \in {queue, <<>>}
    PROVE  IInv'
<1> USE DEF IInv
<1>1. /\ session' = "on" /\ helpers' = helpers /\ active' = active /\ refresh' = refresh
      /\ installs' = installs /\ arriving' = arriving /\ holder' = holder
      /\ relevant' = relevant /\ allowed' = allowed /\ pending' = pending
      /\ awaiting' = awaiting /\ given' = given /\ shown' = shown /\ told' = told
      /\ final' = None /\ asked' = "no" /\ ~refresh
  BY DEF environment, retention, Accept, Phases
<1>2. /\ queue' \in Seq(Messages) /\ Len(queue') <= MaxQueue
      /\ HandoffQueued' => HandoffQueued
      /\ \A i \in 2..Len(queue') : queue'[i] # Retry
  BY DroppedQueue
<1>3. PlanningIsOwned' /\ RequestInv'
  BY <1>1, <1>2 DEF PlanningIsOwned, Owns, RequestInv
<1>4. /\ session' \in {"none", "starting", "on", "closing"}
      /\ holder' \in {"free", "plan", "other"} /\ helpers' \in BOOLEAN /\ active' \subseteq Tools
      /\ queue' \in Seq(Messages) /\ Len(queue') <= MaxQueue /\ installs' \in States
      /\ final' \in {None} \cup [retried : BOOLEAN, ended : BOOLEAN]
      /\ run' \in {"idle", "running", "settling"} /\ refresh' \in BOOLEAN
      /\ told' \in {"unprompted", "unsent", "none", "plan", "normal"}
      /\ arriving' \in {None} \cup [impl : Implementations, at : {"setup", "kickoff"}]
  BY <1>1, <1>2 DEF TypeOK
<1>5. CASE UNCHANGED <<st, branch, ready, op>>
  <2>1. TypeOK'
    BY <1>1, <1>4, <1>5 DEF TypeOK
  <2>2. Phases' /\ ContractInv'
    BY <1>1, <1>2, <1>5 DEF Phases, ContractInv, Carries, HandoffArrives
  <2>3. ModelHearsItsMode' /\ PolicyInv' /\ RetentionInv' /\ CommandInv'
    BY <1>1, <1>5 DEF ModelHearsItsMode, PolicyInv, RetentionInv, CommandInv
  <2>4. QED
    BY <1>3, <2>1, <2>2, <2>3
<1>6. CASE /\ st' = [st EXCEPT !.plan = plan] /\ branch' = Persisted(st')
           /\ ready' = plan /\ op' = Reassigned
  <2>1. Replanned /\ st'.policy = st.policy
    BY <1>6, PlanReplaced
  <2>2. /\ ContractInv' /\ RetentionInv' /\ CommandInv'
        /\ op' \in {None} \cup Commands
    BY <1>1, <1>2, <2>1, ReplannedKeeps
  <2>3. TypeOK'
    BY <1>1, <1>4, <1>6, <2>1, <2>2 DEF TypeOK, Replanned
  <2>4. Phases' /\ ModelHearsItsMode' /\ PolicyInv'
    BY <1>1, <1>6, <2>1 DEF Phases, ModelHearsItsMode, PolicyInv, Replanned
  <2>5. QED
    BY <1>3, <2>2, <2>3, <2>4
<1>7. QED
  BY <1>5, <1>6 DEF Accept

LEMMA CompletePlanKeeps ==
    ASSUME IInv, NEW plan \in Plans, CompletePlan(plan)
    PROVE  IInv'
BY AcceptKeeps DEF CompletePlan, agent

\* observeRunEnd, in a session that plans
LEMMA RunEndKeeps ==
    ASSUME IInv, session = "on", run = "running", st.enabled, Owns,
           NEW outcome, ObserveRunEnd(outcome), branch' = Persisted(st),
           queue' = IF outcome = "cancelled" THEN <<>> ELSE queue,
           UNCHANGED <<environment, holder, relevant, allowed, pending, retention, told,
                       st, ready, op>>,
           run' = "settling"
    PROVE  IInv'
<1> USE DEF IInv
<1>1. /\ session' = "on" /\ helpers' = helpers /\ active' = active /\ refresh' = refresh
      /\ installs' = installs /\ arriving' = arriving
      /\ awaiting' = awaiting /\ given' = given /\ shown' = shown /\ ~refresh
  BY DEF environment, retention, Phases
<1>2. /\ queue' \in Seq(Messages) /\ Len(queue') <= MaxQueue
      /\ HandoffQueued' => HandoffQueued
      /\ outcome = "normal" => queue' = queue
      /\ \A i \in 2..Len(queue') : queue'[i] # Retry
  BY DroppedQueue
<1>3. /\ branch' \in Points /\ branch'.contract = branch.contract
      /\ branch'.said = branch.said /\ branch'.state = st
  BY StatePersists DEF Persisted, TypeOK, ContractInv, Carries
<1>4. /\ final' \in {None} \cup [retried : BOOLEAN, ended : BOOLEAN]
      /\ asked' \in {"no", "answered", "lost"}
      /\ final' # None => /\ outcome = "normal" /\ final # None
                          /\ final'.retried = final.retried
                          /\ asked # "no" => asked' # "no"
  BY DEF ObserveRunEnd, AskedAfter, TypeOK
<1>5. TypeOK'
  <2>1. /\ holder' \in {"free", "plan", "other"} /\ relevant' \in BOOLEAN
        /\ st' \in States /\ ready' \in Plans \cup {None} /\ allowed' \subseteq Tools
        /\ pending' \in {"none", "resolve", "revalidate"}
        /\ told' \in {"unprompted", "unsent", "none", "plan", "normal"}
        /\ op' \in {None} \cup Commands
    BY DEF TypeOK
  <2>2. /\ session' \in {"none", "starting", "on", "closing"}
        /\ helpers' \in BOOLEAN /\ active' \subseteq Tools /\ installs' \in States
        /\ awaiting' \in BOOLEAN /\ given' \in BOOLEAN /\ refresh' \in BOOLEAN
        /\ arriving' \in {None} \cup [impl : Implementations, at : {"setup", "kickoff"}]
        /\ shown' \in {"no", "restored", "heard", "delivered"}
        /\ run' \in {"idle", "running", "settling"}
    BY <1>1 DEF TypeOK
  <2>3. queue' \in Seq(Messages) /\ Len(queue') <= MaxQueue
    BY <1>2
  <2>4. /\ final' \in {None} \cup [retried : BOOLEAN, ended : BOOLEAN]
        /\ asked' \in {"no", "heard", "answered", "lost"} /\ branch' \in Points
    BY <1>3, <1>4
  <2>5. QED
    BY <2>1, <2>2, <2>3, <2>4 DEF TypeOK
<1>6. PlanningIsOwned' /\ Phases'
  BY <1>1 DEF PlanningIsOwned, Phases, Owns
<1>7. ContractInv'
  BY <1>1, <1>2, <1>3 DEF ContractInv, Carries, HandoffArrives
<1>8. ModelHearsItsMode' /\ PolicyInv'
  BY <1>1 DEF ModelHearsItsMode, PolicyInv
<1>9. RequestInv'
  <2>1. outcome = "normal" /\ FinalizeQueued => FinalizeQueued'
    BY <1>2 DEF FinalizeQueued
  <2>2. final' # None /\ ~final'.retried => FinalizeQueued' \/ asked' # "no"
    BY <1>4, <2>1 DEF RequestInv
  <2>3. QED
    BY <1>1, <1>2, <1>4, <2>2 DEF RequestInv
<1>10. RetentionInv' /\ CommandInv'
  BY <1>1, <1>3 DEF RetentionInv, CommandInv
<1>11. QED
  BY <1>5, <1>6, <1>7, <1>8, <1>9, <1>10

LEMMA AgentEndKeeps ==
    ASSUME IInv, NEW outcome, NEW plan \in Plans \cup {None}, AgentEnd(outcome, plan)
    PROVE  IInv'
<1>1. /\ session = "on" /\ run = "running" /\ run' = "settling"
      /\ queue' = IF outcome = "cancelled" THEN <<>> ELSE queue
      /\ UNCHANGED <<environment, holder, relevant, allowed, pending, retention, told>>
  BY DEF AgentEnd
<1>2. CASE st.enabled /\ Owns /\ plan # None /\ Accept(plan)
  BY <1>1, <1>2, AcceptKeeps
<1>3. CASE /\ st.enabled /\ Owns /\ ObserveRunEnd(outcome) /\ branch' = Persisted(st)
           /\ UNCHANGED <<st, ready, op>>
  BY <1>1, <1>3, RunEndKeeps
<1>4. CASE /\ ~(st.enabled /\ Owns)
           /\ UNCHANGED <<st, branch, final, ready, op>> /\ asked' = "no"
  <2> USE <1>1, <1>4 DEF IInv, environment, retention
  <2>1. ~st.enabled /\ ~refresh
    BY DEF PlanningIsOwned, Phases
  <2>2. /\ queue' \in Seq(Messages) /\ Len(queue') <= MaxQueue
        /\ HandoffQueued' => HandoffQueued
        /\ \A i \in 2..Len(queue') : queue'[i] # Retry
    BY DroppedQueue
  <2>3. TypeOK'
    BY <2>2 DEF TypeOK
  <2>4. PlanningIsOwned' /\ Phases' /\ ContractInv'
    BY <2>1, <2>2 DEF PlanningIsOwned, Phases, Owns, ContractInv, Carries, HandoffArrives
  <2>5. ModelHearsItsMode' /\ PolicyInv' /\ RequestInv'
    BY <2>1, <2>2 DEF ModelHearsItsMode, PolicyInv, RequestInv
  <2>6. RetentionInv' /\ CommandInv'
    BY DEF RetentionInv, CommandInv
  <2>7. QED
    BY <2>3, <2>4, <2>5, <2>6
<1>5. QED
  BY <1>2, <1>3, <1>4 DEF AgentEnd

-----------------------------------------------------------------------------
\* A run that settles

LEMMA ClearedKeeps ==
    ASSUME IInv, session = "on", run = "settling", run' = "idle", told' = "unsent",
           Settled, ClearActiveImplementation,
           UNCHANGED <<environment, holder, relevant, allowed>>
    PROVE  IInv'
<1>1. /\ st.impl # None /\ st' = [st EXCEPT !.impl = None] /\ branch' = Persisted(st')
      /\ pending' = "none" /\ final' = None /\ op' = Superseded /\ asked' = "no"
      /\ given' = FALSE /\ shown' = "no" /\ UNCHANGED <<ready, queue, awaiting>>
  BY DEF Settled, ClearActiveImplementation, AdvanceWorkflow
<1>2. st' \in States /\ ~st'.enabled /\ st'.saved = None /\ st'.impl = None
  BY <1>1, ImplementationCleared DEF IInv, TypeOK
<1>3. branch.contract # "none" /\ relevant
  BY <1>1, OffFields DEF IInv, ContractInv, Carries
<1>4. branch' \in Points /\ branch'.state = st' /\ branch'.contract = branch.contract
  <2>1. /\ [branch EXCEPT !.state = st'] \in Points
        /\ [branch EXCEPT !.state = st'].state = st'
        /\ [branch EXCEPT !.state = st'].contract = branch.contract
    BY <1>2, <1>3, StatePersists DEF IInv, TypeOK
  <2>2. QED
    BY <1>1, <2>1 DEF Persisted
<1>5. op' \in {None} \cup Commands /\ (op' # None => ~op'.current)
  BY <1>1, SupersededCommand DEF IInv, TypeOK
<1>6. Transition
  BY <1>1, <1>2, <1>3, <1>4, <1>5 DEF Transition, Idle, environment, IInv, TypeOK
<1>7. QueueKeeps
  BY <1>1, SameQueueKeeps DEF IInv
<1>8. RetentionInv'
  BY <1>2 DEF RetentionInv
<1>9. QED
  BY <1>6, <1>7, <1>8, TransitionKeeps

LEMMA NotClearedKeeps ==
    ASSUME IInv, session = "on", run = "settling", run' = "idle", told' = "unsent",
           UNCHANGED <<st, branch, pending, op, retention>>,
           UNCHANGED <<environment, holder, relevant, allowed>>,
           \/ UNCHANGED <<final, ready, queue, asked>>
           \/ queue = <<>> /\ RetryFinalization
           \/ PresentReady
    PROVE  IInv'
<1> USE DEF IInv, environment, retention
<1>1. /\ queue' \in Seq(Messages) /\ Len(queue') <= MaxQueue
      /\ HandoffQueued' => HandoffQueued
      /\ FinalizeQueued => FinalizeQueued'
      /\ \A i \in 2..Len(queue') : queue'[i] # Retry
  <2>1. CASE queue' = queue
    BY <2>1 DEF TypeOK, HandoffQueued, FinalizeQueued, RequestInv
  <2>2. CASE queue = <<>> /\ Send(Retry)
    <3>1. queue' = <<Retry>> /\ Retry \in Messages /\ Retry.kind # "handoff"
      BY <2>2, MessageFields DEF Send
    <3>2. queue' \in Seq(Messages) /\ Len(queue') = 1 /\ queue'[1] = Retry
      BY <3>1
    <3>3. ~FinalizeQueued
      BY <2>2 DEF FinalizeQueued
    <3>4. QED
      BY <3>1, <3>2, <3>3, PlanModeAssumption DEF HandoffQueued
  <2>3. QED
    BY <2>1, <2>2 DEF RetryFinalization, PresentReady
<1>2. /\ final' \in {None} \cup [retried : BOOLEAN, ended : BOOLEAN]
      /\ ready' \in Plans \cup {None} /\ asked' \in {"no", "heard", "answered", "lost"}
      /\ final' # None /\ ~final'.retried => final' = final /\ asked' = asked
  <2>1. CASE RetryFinalization
    <3>1. final' = [retried |-> TRUE, ended |-> FALSE] /\ asked' = "no" /\ ready' = ready
      BY <2>1 DEF RetryFinalization
    <3>2. final' \in [retried : BOOLEAN, ended : BOOLEAN] /\ final'.retried
      BY <3>1
    <3>3. QED
      BY <3>1, <3>2 DEF TypeOK
  <2>2. CASE PresentReady \/ UNCHANGED <<final, ready, queue, asked>>
    BY <2>2 DEF PresentReady, TypeOK
  <2>3. QED
    BY <2>1, <2>2
<1>3. TypeOK'
  BY <1>1, <1>2 DEF TypeOK
<1>4. PlanningIsOwned' /\ Phases' /\ ContractInv'
  BY <1>1 DEF PlanningIsOwned, Phases, Owns, ContractInv, Carries, HandoffArrives
<1>5. ModelHearsItsMode' /\ PolicyInv'
  BY DEF ModelHearsItsMode, PolicyInv
<1>6. RequestInv'
  BY <1>1, <1>2 DEF RequestInv, Phases
<1>7. RetentionInv' /\ CommandInv'
  BY DEF RetentionInv, CommandInv
<1>8. QED
  BY <1>3, <1>4, <1>5, <1>6, <1>7

LEMMA AgentSettledKeeps ==
    ASSUME IInv, AgentSettled
    PROVE  IInv'
<1>1. /\ session = "on" /\ run = "settling" /\ run' = "idle" /\ told' = "unsent"
      /\ UNCHANGED <<environment, holder, relevant, allowed>>
  BY DEF AgentSettled
<1>2. CASE Settled /\ ClearActiveImplementation
  BY <1>1, <1>2, ClearedKeeps
<1>3. CASE UNCHANGED <<st, branch, pending, final, ready, queue, op, retention, asked>>
  BY <1>1, <1>3, NotClearedKeeps
<1>4. CASE queue = <<>> /\ RetryFinalization
  <2>1. UNCHANGED <<st, branch, pending, op, retention>>
    BY <1>4 DEF RetryFinalization
  <2>2. QED
    BY <1>1, <1>4, <2>1, NotClearedKeeps
<1>5. CASE PresentReady
  <2>1. UNCHANGED <<st, branch, pending, op, retention>>
    BY <1>5 DEF PresentReady
  <2>2. QED
    BY <1>1, <1>5, <2>1, NotClearedKeeps
<1>6. QED
  BY <1>2, <1>3, <1>4, <1>5 DEF AgentSettled

-----------------------------------------------------------------------------
\* The invariant of the specification

LEMMA InitEstablishes ==
    ASSUME Init
    PROVE  IInv
<1> USE DEF Init, IInv
<1>1. NewBranch \in Points /\ queue \in Seq(Messages) /\ Len(queue) <= MaxQueue
  BY OffFields, PlanModeAssumption DEF NewBranch, Points
<1>2. TypeOK
  BY <1>1, OffFields DEF TypeOK
<1>3. PlanningIsOwned /\ Phases /\ ContractInv
  BY DEF PlanningIsOwned, Phases, ContractInv, HandoffQueued, HandoffArrives
<1>4. ModelHearsItsMode /\ PolicyInv /\ RequestInv /\ RetentionInv /\ CommandInv
  BY OffFields DEF ModelHearsItsMode, PolicyInv, RequestInv, RetentionInv, CommandInv
<1>5. QED
  BY <1>2, <1>3, <1>4

LEMMA NextKeeps ==
    ASSUME IInv, [Next]_vars
    PROVE  IInv'
<1>1. CASE SessionNext
  BY <1>1, SessionStartKeeps, SessionStartedKeeps, SetUpDestinationKeeps, KickOffKeeps,
     SessionTreeKeeps, ShutdownBeginsKeeps, ShutdownEndsKeeps, CrashKeeps
     DEF SessionNext
<1>2. CASE CommandNext
  BY <1>2, StartPlanKeeps, StartWithPromptKeeps, LaunchMenuStartsKeeps,
     LaunchMenuOpensKeeps, ExitKeeps, SavePlanForLaterKeeps, RequestFinalPlanKeeps,
     ImplementReadyKeeps, ImplementSavedEndsKeeps, FreshStartsKeeps,
     ImplementSavedBeginsKeeps, FreshBeginsKeeps, FreshRefusedKeeps, ExportBeginsKeeps,
     ExportEndsKeeps
     DEF CommandNext
<1>3. CASE AgentNext
  BY <1>3, UserPromptsKeeps, MessageLostKeeps, AgentStartKeeps, MessageStartKeeps, ContextKeeps,
     AskQuestionKeeps, CompletePlanKeeps, AgentEndKeeps, AgentContinuesKeeps,
     AgentSettledKeeps
     DEF AgentNext
<1>4. CASE OtherWorkflow \/ ToolsChange
  BY <1>4, OtherWorkflowKeeps, ToolsChangeKeeps
<1>5. CASE UNCHANGED vars
  <2> USE <1>5 DEF IInv, vars
  <2>1. TypeOK' /\ PlanningIsOwned' /\ Phases'
    BY DEF TypeOK, PlanningIsOwned, Phases, Owns
  <2>2. ContractInv' /\ ModelHearsItsMode' /\ PolicyInv'
    BY DEF ContractInv, Carries, HandoffQueued, HandoffArrives, ModelHearsItsMode, PolicyInv
  <2>3. RequestInv' /\ RetentionInv' /\ CommandInv'
    BY DEF RequestInv, FinalizeQueued, RetentionInv, CommandInv
  <2>4. QED
    BY <2>1, <2>2, <2>3
<1>6. QED
  BY <1>1, <1>2, <1>3, <1>4, <1>5 DEF Next

(***************************************************************************)
(* The mode in memory, the branch, the queue and the commands that await   *)
(* stay tied together through every reload, crash and navigation.          *)
(***************************************************************************)
THEOREM InvariantCorrect == Spec => []IInv
<1>1. Init => IInv
  BY InitEstablishes
<1>2. IInv /\ [Next]_vars => IInv'
  BY NextKeeps
<1>3. QED
  BY <1>1, <1>2, PTL DEF Spec

(***************************************************************************)
(* The state and the branch are well-formed, and a session that plans owns *)
(* the agent-workflow group, however it came to plan.                      *)
(***************************************************************************)
THEOREM PlanningCorrect == Spec => []PlanningIsSound
<1>1. IInv => PlanningIsSound
  BY DEF IInv, PlanningIsSound
<1>2. QED
  BY <1>1, InvariantCorrect, PTL

(***************************************************************************)
(* The contract that the model reads is that of the mode that is enforced, *)
(* and a frozen tool policy never grows.                                   *)
(***************************************************************************)
THEOREM ModeCorrect == Spec => []ModeIsEnforced
<1>1. IInv => FrozenPolicyOnlyNarrows
  <2>1. SUFFICES ASSUME IInv, st.enabled
                 PROVE  /\ run = "running" /\ told = "plan" => st.policy.resolved
                        /\ st.policy.resolved =>
                              allowed \cup st.policy.allowed \subseteq st.policy.frozen
    BY DEF FrozenPolicyOnlyNarrows
  <2>2. st.policy \in Policies
    BY <2>1, StateFields DEF IInv, TypeOK
  <2>3. QED
    BY <2>1, <2>2, PolicyFields DEF IInv, PolicyInv
<1>2. IInv => ModeIsEnforced
  BY <1>1 DEF IInv, ModeIsEnforced
<1>3. QED
  BY <1>2, InvariantCorrect, PTL

-----------------------------------------------------------------------------
\* What a step may do to the queue, to a run that settles and to a command

QueueStep ==
    \/ queue' = queue \/ queue' = <<>>
    \/ Len(queue') < Len(queue)
    \/ \E message \in Messages : message # Retry /\ Send(message)
    \/ session = "on" /\ queue = <<>> /\ RetryDue

LEMMA QueueSteps ==
    ASSUME IInv, Next
    PROVE  QueueStep
<1> USE DEF QueueStep, agent
<1>1. CASE SessionNext
  <2>1. CASE KickOff
    <3>1. Send(Handoff(arriving.impl)) \/ queue' = queue
      BY <2>1 DEF KickOff
    <3>2. arriving.impl \in Implementations
      BY <2>1 DEF KickOff, IInv, TypeOK
    <3>3. QED
      BY <3>1, <3>2, HandoffFields
  <2>2. CASE SessionNext /\ ~KickOff
    BY <2>2 DEF SessionNext, SessionStart, Begin, SessionStarted, SetUpDestination, SessionTree,
                ShutdownBegins, ShutdownEnds, Crash
  <2>3. QED
    BY <1>1, <2>1, <2>2
<1>2. ASSUME NEW plan \in Plans, NEW keeps \in Retentions, Implement(plan, keeps)
      PROVE  QueueStep
  <2>1. Implementation(plan, keeps) \in Implementations
    BY ImplementationType
  <2>2. Send(Handoff(Implementation(plan, keeps))) \/ queue' = queue
    BY <1>2 DEF Implement
  <2>3. QED
    BY <2>1, <2>2, HandoffFields
<1>3. CASE CommandNext
  <2>1. CASE \E keeps \in Retentions : ImplementReady(keeps)
    <3>1. PICK keeps \in Retentions : ImplementReady(keeps)
      BY <2>1
    <3>2. st.plan \in Plans /\ Implement(st.plan, keeps)
      BY <3>1, StateFields DEF ImplementReady, IInv, TypeOK
    <3>3. QED
      BY <1>2, <3>2
  <2>2. CASE \E keeps \in Retentions : ImplementSavedEnds(keeps)
    <3>1. PICK keeps \in Retentions : ImplementSavedEnds(keeps)
      BY <2>2
    <3>2. CASE op.current /\ Implement(op.plan, keeps)
      <4>1. op.plan \in Plans
        BY <3>1, <3>2 DEF ImplementSavedEnds, IInv, TypeOK, Commands, CommandInv
      <4>2. QED
        BY <1>2, <3>2, <4>1
    <3>3. QED
      BY <3>1, <3>2 DEF ImplementSavedEnds
  <2>3. CASE \E keeps \in Retentions : FreshStarts(keeps)
    BY <2>3 DEF FreshStarts, Begin
  <2>4. CASE \E selection \in Selections :
               StartPlan(selection) \/ StartWithPrompt(selection) \/ LaunchMenuStarts(selection)
    BY <2>4, MessageFields DEF StartPlan, StartWithPrompt, LaunchMenuStarts
  <2>5. CASE LaunchMenuOpens \/ Exit \/ SavePlanForLater \/ RequestFinalPlan
    BY <2>5, MessageFields DEF LaunchMenuOpens, Exit, SavePlanForLater, RequestFinalPlan
  <2>6. CASE ImplementSavedBegins \/ FreshBegins \/ FreshRefused \/ ExportBegins \/ ExportEnds
    BY <2>6 DEF ImplementSavedBegins, FreshBegins, FreshRefused, ExportBegins, ExportEnds
  <2>7. QED
    BY <1>3, <2>1, <2>2, <2>3, <2>4, <2>5, <2>6 DEF CommandNext
<1>4. CASE AgentNext
  <2>1. CASE AgentSettled
    <3>1. CASE ClearActiveImplementation \/ PresentReady
      BY <3>1 DEF ClearActiveImplementation, PresentReady
    <3>2. QED
      BY <2>1, <3>1 DEF AgentSettled
  <2>2. CASE UserPrompts(Prompt) \/ UserPrompts(Finalize)
    BY <2>2, MessageFields DEF UserPrompts
  <2>3. CASE AgentStart \/ Context \/ AskQuestion \/ AgentContinues
    BY <2>3 DEF AgentStart, Context, AskQuestion, AgentContinues
  <2>4. CASE \E plan \in Plans : CompletePlan(plan)
    BY <2>4 DEF CompletePlan
  <2>5. ASSUME NEW outcome, NEW plan, AgentEnd(outcome, plan)
        PROVE  QueueStep
    BY <2>5 DEF AgentEnd
  <2>6. queue \in Seq(Messages) /\ Len(queue) \in Nat
    BY DEF IInv, TypeOK
  <2>7. CASE MessageStart
    <3>1. queue # <<>> /\ queue' = Tail(queue)
      BY <2>7 DEF MessageStart
    <3>2. Len(queue') = Len(queue) - 1
      BY <2>6, <3>1, QueueShrinks
    <3>3. QED
      BY <2>6, <3>2
  <2>8. CASE MessageLost
    <3>1. PICK i \in 1..Len(queue) : queue' = Without(i)
      BY <2>8 DEF MessageLost
    <3>2. Len(queue') = Len(queue) - 1
      BY <2>6, <3>1, QueueLoses
    <3>3. QED
      BY <2>6, <3>2
  <2>9. QED
    BY <1>4, <2>1, <2>2, <2>3, <2>4, <2>5, <2>7, <2>8 DEF AgentNext
<1>5. CASE OtherWorkflow \/ ToolsChange
  BY <1>5 DEF OtherWorkflow, ToolsChange
<1>6. QED
  BY <1>1, <1>3, <1>4, <1>5 DEF Next

(***************************************************************************)
(* The retry that blames the agent follows only a run that has heard the   *)
(* request, has ended normally and has neither asked a question nor        *)
(* completed a plan, unless Pi has lost a request that no run had heard.   *)
(***************************************************************************)
THEOREM RetriesAreDeserved == Spec => RetryFollowsItsRequest
<1>1. ASSUME IInv, [Next]_vars
      PROVE  [RetrySent => asked \in {"answered", "lost"}]_vars
  <2>1. SUFFICES ASSUME Next, Len(queue') > Len(queue), queue'[Len(queue')] = Retry
                 PROVE  asked \in {"answered", "lost"}
    BY <1>1 DEF RetrySent
  <2>2. queue \in Seq(Messages) /\ Len(queue) \in Nat
    BY <1>1 DEF IInv, TypeOK
  <2>3. queue' # queue /\ queue' # <<>> /\ ~(Len(queue') < Len(queue))
    <3>1. CASE queue' = <<>>
      BY <2>1, <2>2, <3>1
    <3>2. CASE queue' = queue
      BY <2>1, <2>2, <3>2
    <3>3. CASE Len(queue') < Len(queue)
      <4>1. QueueStep
        BY <1>1, <2>1, QueueSteps
      <4>2. QED
        BY <2>1, <2>2, <3>3, <4>1
    <3>4. QED
      BY <3>1, <3>2, <3>3
  <2>4. ASSUME NEW message \in Messages, message # Retry, Send(message)
        PROVE  FALSE
    BY <2>1, <2>2, <2>4, QueueGrows
  <2>5. CASE session = "on" /\ queue = <<>> /\ RetryDue
    <3>1. ~FinalizeQueued
      BY <2>5 DEF FinalizeQueued
    <3>2. asked # "no" /\ asked # "heard"
      BY <1>1, <2>5, <3>1 DEF RetryDue, IInv, RequestInv
    <3>3. QED
      BY <1>1, <3>2 DEF IInv, TypeOK
  <2>6. QED
    BY <1>1, <2>1, <2>3, <2>4, <2>5, QueueSteps DEF QueueStep
<1>2. QED
  BY <1>1, InvariantCorrect, PTL DEF Spec, RetryFollowsItsRequest

\* Only agent_settled ends a run in a session that goes on.
LEMMA SettlingEnds ==
    ASSUME Next, run = "settling", run' = "idle", session' = "on"
    PROVE  AgentSettled
<1> USE DEF agent
<1>1. CASE SessionNext
  BY <1>1 DEF SessionNext, SessionStart, Begin, SessionStarted, SetUpDestination, KickOff,
              SessionTree, ShutdownBegins, ShutdownEnds, Crash
<1>2. CASE CommandNext
  <2>1. ASSUME NEW selection \in Selections,
               StartPlan(selection) \/ StartWithPrompt(selection) \/ LaunchMenuStarts(selection)
        PROVE  FALSE
    BY <2>1 DEF StartPlan, StartWithPrompt, LaunchMenuStarts
  <2>2. ASSUME NEW keeps \in Retentions,
               ImplementReady(keeps) \/ ImplementSavedEnds(keeps) \/ FreshStarts(keeps)
        PROVE  FALSE
    BY <2>2 DEF ImplementReady, ImplementSavedEnds, FreshStarts
  <2>3. ~(LaunchMenuOpens \/ Exit \/ SavePlanForLater \/ RequestFinalPlan)
    BY DEF LaunchMenuOpens, Exit, SavePlanForLater, RequestFinalPlan
  <2>4. ~(ImplementSavedBegins \/ FreshBegins \/ FreshRefused \/ ExportBegins \/ ExportEnds)
    BY DEF ImplementSavedBegins, FreshBegins, FreshRefused, ExportBegins, ExportEnds
  <2>5. QED
    BY <1>2, <2>1, <2>2, <2>3, <2>4 DEF CommandNext
<1>3. CASE AgentNext
  BY <1>3 DEF AgentNext, UserPrompts, MessageLost, AgentStart, MessageStart, Context, AskQuestion,
              CompletePlan, AgentEnd, AgentContinues
<1>4. CASE OtherWorkflow \/ ToolsChange
  BY <1>4 DEF OtherWorkflow, ToolsChange
<1>5. QED
  BY <1>1, <1>2, <1>3, <1>4 DEF Next

(***************************************************************************)
(* An implementation that lasts through its first run is given up when a   *)
(* run settles exactly if a request of it, or of one before it, had its    *)
(* plan; one that is kept is not given up.                                 *)
(***************************************************************************)
THEOREM RetentionCorrect == Spec => FirstRunRetention
<1>1. ASSUME IInv, [Next]_vars
      PROVE  [run = "settling" /\ run' = "idle" /\ session' = "on" /\ st.impl # None =>
                  (st'.impl = None)
                = (st.impl.keeps = "clear-after-first-run" /\ shown = "delivered")]_vars
  <2>1. SUFFICES ASSUME Next, run = "settling", run' = "idle", session' = "on",
                        st.impl # None
                 PROVE  (st'.impl = None)
                      = (st.impl.keeps = "clear-after-first-run" /\ shown = "delivered")
    BY <1>1
  <2>2. AgentSettled
    BY <2>1, SettlingEnds
  <2>3. Settled = (st.impl.keeps = "clear-after-first-run" /\ shown = "delivered")
    BY <1>1, <2>1, <2>2 DEF IInv, TypeOK, RetentionInv, Settled, AgentSettled
  <2>4. CASE Settled /\ ClearActiveImplementation
    <3>1. st'.impl = None
      BY <1>1, <2>1, <2>4, ImplementationCleared DEF ClearActiveImplementation, IInv, TypeOK
    <3>2. QED
      BY <2>3, <2>4, <3>1
  <2>5. CASE ~Settled /\ st' = st
    BY <2>1, <2>3, <2>5
  <2>6. QED
    BY <2>2, <2>4, <2>5 DEF AgentSettled, RetryFinalization, PresentReady
<1>2. QED
  BY <1>1, InvariantCorrect, PTL DEF Spec, FirstRunRetention

\* A command that awaits ends with its own result; nothing else takes it away but the
\* end of its session.
LEMMA CommandEnds ==
    ASSUME IInv, Next, op # None, op' = None, st' # st,
           session = "on", session' \in {"on", "starting"}
    PROVE  \/ \E selection \in Selections : LaunchMenuStarts(selection)
           \/ \E keeps \in Retentions : ImplementSavedEnds(keeps) \/ FreshStarts(keeps)
           \/ ExportEnds
<1>1. Superseded # None /\ Reassigned # None
  BY SupersededCommand, ReassignedCommand DEF IInv, TypeOK
<1>2. CASE SessionNext
  BY <1>1, <1>2 DEF SessionNext, SessionStart, SessionStarted, SetUpDestination, KickOff,
                    SessionTree, ShutdownBegins, ShutdownEnds, Crash
<1>3. CASE CommandNext
  <2>1. ASSUME NEW selection \in Selections, StartPlan(selection) \/ StartWithPrompt(selection)
        PROVE  FALSE
    BY <1>1, <2>1 DEF StartPlan, StartWithPrompt
  <2>2. ASSUME NEW keeps \in Retentions, ImplementReady(keeps)
        PROVE  FALSE
    BY <1>1, <2>2 DEF ImplementReady
  <2>3. ~(LaunchMenuOpens \/ Exit \/ SavePlanForLater \/ RequestFinalPlan)
    BY <1>1 DEF LaunchMenuOpens, Exit, SavePlanForLater, RequestFinalPlan
  <2>4. ~(ImplementSavedBegins \/ FreshBegins \/ FreshRefused \/ ExportBegins)
    BY DEF ImplementSavedBegins, FreshBegins, FreshRefused, ExportBegins
  <2>5. QED
    BY <1>3, <2>1, <2>2, <2>3, <2>4 DEF CommandNext
<1>4. CASE AgentNext
  <2>1. ~(UserPrompts(Prompt) \/ UserPrompts(Finalize) \/ MessageLost \/ MessageStart
            \/ AskQuestion \/ AgentContinues)
    BY DEF UserPrompts, MessageLost, MessageStart, AskQuestion, AgentContinues
  <2>2. ~AgentStart
    BY <1>1 DEF AgentStart
  <2>3. ~Context
    BY <1>1 DEF Context, ResolvePendingPolicy
  <2>4. ~AgentSettled
    BY <1>1 DEF AgentSettled, ClearActiveImplementation, AdvanceWorkflow, RetryFinalization,
                PresentReady
  <2>5. ASSUME NEW plan, CompletePlan(plan)
        PROVE  FALSE
    BY <1>1, <2>5 DEF CompletePlan, Accept
  <2>6. ASSUME NEW outcome, NEW plan, AgentEnd(outcome, plan)
        PROVE  FALSE
    BY <1>1, <2>6 DEF AgentEnd, Accept
  <2>7. QED
    BY <1>4, <2>1, <2>2, <2>3, <2>4, <2>5, <2>6 DEF AgentNext
<1>5. CASE OtherWorkflow \/ ToolsChange
  BY <1>5 DEF OtherWorkflow, ToolsChange
<1>6. QED
  BY <1>2, <1>3, <1>4, <1>5 DEF Next

(***************************************************************************)
(* A command that has waited for its user, a file or a credential acts on  *)
(* the plan that it was called for, and a menu that starts Plan mode never *)
(* overwrites a saved plan.                                                *)
(***************************************************************************)
THEOREM CommandsCorrect == Spec => CommandsActOnTheirPlan
<1>1. ASSUME IInv, [Next]_vars
      PROVE  [op # None /\ op' = None /\ st' # st /\ session = "on"
                /\ session' \in {"on", "starting"} =>
                  CASE op.kind = "launch"    -> st.saved = None
                    [] op.kind = "export"    -> st.enabled /\ st.plan = op.plan
                    [] op.kind = "implement" -> ~st.enabled /\ st.saved = op.plan
                    [] op.kind = "fresh"     -> op.plan \in {st.plan, st.saved}]_vars
  <2>1. SUFFICES ASSUME Next, op # None, op' = None, st' # st, session = "on",
                        session' \in {"on", "starting"}
                 PROVE  CASE op.kind = "launch"    -> st.saved = None
                          [] op.kind = "export"    -> st.enabled /\ st.plan = op.plan
                          [] op.kind = "implement" -> ~st.enabled /\ st.saved = op.plan
                          [] op.kind = "fresh"     -> op.plan \in {st.plan, st.saved}
    BY <1>1
  <2>2. CASE \E selection \in Selections : LaunchMenuStarts(selection)
    <3>1. op.kind = "launch" /\ op.current
      BY <2>1, <2>2 DEF LaunchMenuStarts, Current
    <3>2. st.saved = None
      BY <1>1, <2>1, <3>1 DEF IInv, CommandInv
    <3>3. QED
      BY <3>1, <3>2
  <2>3. CASE \E keeps \in Retentions : ImplementSavedEnds(keeps)
    BY <2>1, <2>3 DEF ImplementSavedEnds
  <2>4. CASE \E keeps \in Retentions : FreshStarts(keeps)
    BY <2>4 DEF FreshStarts, FreshIsCurrent
  <2>5. CASE ExportEnds
    <3>1. op.kind = "export" /\ op.current /\ op.same
      BY <2>1, <2>5 DEF ExportEnds, ExportIsCurrent, Current
    <3>2. st.enabled /\ st.plan = op.plan
      BY <1>1, <2>1, <3>1 DEF IInv, CommandInv
    <3>3. QED
      BY <3>1, <3>2
  <2>6. QED
    BY <1>1, <2>1, <2>2, <2>3, <2>4, <2>5, CommandEnds
<1>2. QED
  BY <1>1, InvariantCorrect, PTL DEF Spec, CommandsActOnTheirPlan

=============================================================================

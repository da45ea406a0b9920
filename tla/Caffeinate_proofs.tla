-------------------------- MODULE Caffeinate_proofs --------------------------
(***************************************************************************)
(* Proofs about Caffeinate, for any platforms and any number of events:    *)
(* IInv is inductive.  First what the calls of startInhibitor,             *)
(* stopInhibitor and of their continuations keep, then the handlers.       *)
(***************************************************************************)
EXTENDS Caffeinate, TLAPS

InhibitorSets ==
    /\ seq \in Nat
    /\ proc \in Nat /\ dbus \in Nat /\ pending \in Nat /\ cleanup \in Nat
    /\ tasks \subseteq Task
    /\ children \subseteq Nat /\ holding \subseteq Nat /\ releasing \subseteq Nat

InhibitorTypes == starting \in BOOLEAN /\ InhibitorSets

\* The part of the invariant that speaks of the inhibitors.
InhibitorInv ==
    /\ InhibitorTypes
    /\ TokensAreLatest
    /\ TasksFollowTokens
    /\ NoOrphans
    /\ ActiveIsReal

LEMMA InhibitorPart == IInv => InhibitorInv
  BY DEF IInv, TypeOK, InhibitorInv, InhibitorTypes, InhibitorSets

\* A client of the pending start belongs to the latest token.
LEMMA PendingClients ==
  ASSUME InhibitorInv
  PROVE  /\ PendingClient \subseteq {pending} \ {0}
         /\ pending = 0 => PendingClient = {}
  <1>1. \A t \in tasks : t.token # 0
    BY DEF InhibitorInv, TasksFollowTokens
  <1> QED BY <1>1 DEF PendingClient

(***************************************************************************)
(* The calls.                                                              *)
(***************************************************************************)
LEMMA StopQuiets ==
  ASSUME InhibitorInv, StopInhibitor
  PROVE  /\ InhibitorInv'
         /\ proc' = 0 /\ dbus' = 0 /\ pending' = 0 /\ ~starting'
  <1>1. /\ seq' = seq + 1 /\ proc' = 0 /\ dbus' = 0 /\ pending' = 0 /\ cleanup' = 0
        /\ starting' = FALSE /\ children' = children \ {proc}
        /\ holding' = holding \ ToClose /\ releasing' = releasing \cup ToClose
        /\ tasks' = {Taken(t) : t \in tasks}
    BY DEF StopInhibitor
  <1>2. children' = {} /\ holding' = {}
    BY <1>1 DEF InhibitorInv, NoOrphans, ToClose, TokensAreLatest
  <1>3. \A t \in tasks : /\ Taken(t) \in Task /\ Taken(t).token = t.token
                         /\ Taken(t).pc = t.pc
                         /\ Taken(t).has => t.has
    BY DEF InhibitorInv, InhibitorTypes, InhibitorSets, Taken, Task
  <1>4. ToClose \subseteq Nat
    <2>1. PendingClient \subseteq Nat
      BY PendingClients DEF InhibitorInv, InhibitorTypes, InhibitorSets
    <2> QED BY <2>1 DEF ToClose, InhibitorInv, InhibitorTypes, InhibitorSets
  <1>5. InhibitorTypes'
    <2>1. InhibitorSets'
      BY <1>1, <1>2, <1>3, <1>4 DEF InhibitorInv, InhibitorTypes, InhibitorSets
    <2> QED BY <1>1, <2>1 DEF InhibitorTypes
  <1>6. TokensAreLatest' /\ NoOrphans' /\ ActiveIsReal'
    BY <1>1, <1>2 DEF TokensAreLatest, NoOrphans, ActiveIsReal
  <1>7. TasksFollowTokens'
    <2>1. seq \in Nat /\ \A t \in tasks : t.token \in 1..seq
      BY DEF InhibitorInv, InhibitorTypes, InhibitorSets, TasksFollowTokens
    <2>2. \A t \in tasks' : t.token \in 1..seq' /\ t.token # seq'
      BY <1>1, <1>3, <2>1
    <2>3. \A t, u \in tasks' : t.token = u.token => t = u
      BY <1>1, <1>3 DEF InhibitorInv, TasksFollowTokens
    <2>4. \A t \in tasks' : t.has => t.pc = "inhibit"
      BY <1>1, <1>3 DEF InhibitorInv, TasksFollowTokens
    <2> QED BY <2>2, <2>3, <2>4 DEF TasksFollowTokens
  <1> QED BY <1>1, <1>5, <1>6, <1>7 DEF InhibitorInv

LEMMA StartKeeps ==
  ASSUME InhibitorInv, NEW m, StartInhibitor(m), gen \in Nat,
         phase = "live", phase' = "live", gen' = gen, world' = world,
         world.command /\ ~world.fails /\ (starting \/ dbus # 0) => proc # 0
  PROVE  /\ InhibitorInv'
         /\ world.command /\ ~world.fails => proc' # 0
  <1>1. CASE UNCHANGED inhibitor /\ (HasActiveInhibitor \/ starting)
    <2>1. UNCHANGED <<seq, proc, dbus, pending, cleanup, starting, tasks, children,
                      holding, releasing>>
      BY <1>1 DEF inhibitor
    <2>2. InhibitorInv'
      BY <2>1 DEF InhibitorInv, InhibitorTypes, InhibitorSets, TokensAreLatest, TasksFollowTokens,
                  NoOrphans, ActiveIsReal, PendingClient
    <2> QED BY <1>1, <2>1, <2>2 DEF HasActiveInhibitor
  <1>2. CASE ~HasActiveInhibitor /\ ~starting
    <2> DEFINE begun == [token |-> seq', gen |-> gen, pc |-> "factory", has |-> FALSE]
    <2>0. ~(HasActiveInhibitor \/ starting)
      BY <1>2
    <2>1. /\ seq' = seq + 1 /\ seq \in Nat
          /\ UNCHANGED <<dbus, cleanup, holding, releasing>>
      BY <1>2, <2>0 DEF StartInhibitor, InhibitorInv, InhibitorTypes, InhibitorSets
    <2>2. /\ proc = 0 /\ dbus = 0 /\ pending = 0 /\ children = {} /\ holding = {}
      <3>1. proc = 0 /\ dbus = 0 /\ pending = 0
        BY <1>2 DEF HasActiveInhibitor, InhibitorInv, TokensAreLatest
      <3>2. PendingClient = {}
        BY <3>1, PendingClients
      <3> QED BY <3>1, <3>2 DEF InhibitorInv, TokensAreLatest, NoOrphans
    <2>3. PICK spawned \in BOOLEAN :
             /\ ~spawned => world.fails \/ ~world.command
             /\ proc' = IF spawned THEN seq' ELSE 0
             /\ children' = IF spawned THEN children \cup {seq'} ELSE children
      BY <2>0 DEF StartInhibitor
    <2>4. \/ /\ starting' = TRUE /\ pending' = seq' /\ tasks' = tasks \cup {begun}
          \/ UNCHANGED <<starting, pending, tasks>>
      BY <2>0 DEF StartInhibitor
    <2>5. begun \in Task
      BY <2>1 DEF Task
    <2>6. \A t \in tasks : t.token \in 1..seq /\ t.token # seq'
      BY <2>1 DEF InhibitorInv, TasksFollowTokens
    <2>7. InhibitorTypes'
      <3> HIDE DEF begun
      <3>0. tasks' \subseteq Task /\ pending' \in Nat
        BY <2>1, <2>4, <2>5 DEF InhibitorInv, InhibitorTypes, InhibitorSets
      <3>1. InhibitorSets'
        BY <2>1, <2>2, <2>3, <3>0 DEF InhibitorInv, InhibitorTypes, InhibitorSets
      <3>2. starting' \in BOOLEAN
        BY <2>4 DEF InhibitorInv, InhibitorTypes
      <3> QED BY <3>1, <3>2 DEF InhibitorTypes
    <2>8. TokensAreLatest' /\ NoOrphans' /\ ActiveIsReal'
      BY <1>2, <2>1, <2>2, <2>3, <2>4
      DEF TokensAreLatest, NoOrphans, ActiveIsReal
    <2>9. TasksFollowTokens'
      <3>1. \A t \in tasks' : t \in tasks \/ (t = begun /\ pending' = seq')
        BY <2>4
      <3>2. \A t \in tasks' : t.token \in 1..seq' /\ (t.token = seq' => t = begun)
        BY <2>1, <2>6, <3>1
      <3>3. \A t \in tasks' : t.has => t.pc = "inhibit"
        BY <3>1 DEF InhibitorInv, TasksFollowTokens
      <3>4. ASSUME NEW t \in tasks', NEW u \in tasks', t.token = u.token PROVE t = u
        <4>1. CASE t \in tasks /\ u \in tasks
          BY <3>4, <4>1 DEF InhibitorInv, TasksFollowTokens
        <4>2. CASE t = begun \/ u = begun
          <5>1. begun.token = seq'
            OBVIOUS
          <5> HIDE DEF begun
          <5> QED BY <3>2, <3>4, <4>2, <5>1
        <4> QED BY <3>1, <4>1, <4>2
      <3>5. \A t \in tasks' : t.token = seq' =>
              /\ dbus' = 0 /\ t.gen = gen' /\ pending' = seq' /\ t.pc = "factory"
        BY <2>1, <2>2, <2>6, <3>1
      <3> QED BY <3>2, <3>3, <3>4, <3>5 DEF TasksFollowTokens
    <2> QED BY <2>1, <2>3, <2>7, <2>8, <2>9 DEF InhibitorInv
  <1> QED BY <1>1, <1>2 DEF StartInhibitor

\* The end of a task that others have overtaken changes nothing else.
LEMMA StaleTaskEnds ==
  ASSUME InhibitorInv, NEW t \in tasks, t.token # seq,
         CancelPendingStart(t), UNCHANGED <<dbus, cleanup, phase, gen>>
  PROVE  /\ InhibitorInv'
         /\ UNCHANGED <<seq, proc, dbus, pending, starting>>
  <1>1. /\ tasks' = tasks \ {t}
        /\ UNCHANGED <<seq, proc, pending, starting, children, holding, releasing>>
    BY DEF CancelPendingStart
  <1>2. PendingClient' = PendingClient
    <2>1. t.token # pending
      BY DEF InhibitorInv, TokensAreLatest, TasksFollowTokens
    <2> QED BY <1>1, <2>1 DEF PendingClient
  <1> QED
    BY <1>1, <1>2
    DEF InhibitorInv, InhibitorTypes, InhibitorSets, TokensAreLatest,
        TasksFollowTokens, NoOrphans, ActiveIsReal

\* A task is current exactly if its token is the latest.
LEMMA LatestIsCurrent ==
  ASSUME InhibitorInv, NEW t \in tasks
  PROVE  /\ t.pc # "failed" => (PendingStartIsCurrent(t) <=> t.token = seq)
         /\ StartIsStale(t) <=> t.token # seq
  BY DEF InhibitorInv, TasksFollowTokens, TokensAreLatest, PendingStartIsCurrent,
         StartIsStale

\* The current task moves on with t2, or ends.
LEMMA CurrentTaskMoves ==
  ASSUME InhibitorInv, NEW t \in tasks, t.token = seq, NEW rest,
         rest = tasks \ {t}
  PROVE  /\ \A u \in rest : u \in tasks /\ u.token # seq
         /\ dbus = 0 /\ phase = "live" /\ t.gen = gen /\ seq # 0
         /\ PendingClient \subseteq {seq}
         /\ t.pc # "failed" => pending = seq /\ starting
         /\ t.pc = "failed" => pending = 0 /\ PendingClient = {}
         /\ t.pc = "inhibit" => seq \in holding
         /\ t.pc = "factory" => PendingClient = {}
         /\ holding \subseteq {seq}
  <1>1. \A u \in tasks : u.token = seq => u = t
    BY DEF InhibitorInv, TasksFollowTokens
  <1>2. /\ dbus = 0 /\ phase = "live" /\ t.gen = gen /\ seq # 0
        /\ t.pc # "failed" => pending = seq
        /\ t.pc = "failed" => pending = 0
        /\ t.pc = "inhibit" => seq \in holding
    BY DEF InhibitorInv, TasksFollowTokens, TokensAreLatest
  <1>3. PendingClient \subseteq {seq} /\ (pending = 0 => PendingClient = {})
    BY PendingClients DEF InhibitorInv, TokensAreLatest
  <1>4. t.pc = "factory" => PendingClient = {}
    BY <1>1, <1>2 DEF PendingClient, InhibitorInv, TasksFollowTokens
  <1> QED BY <1>1, <1>2, <1>3, <1>4 DEF InhibitorInv, TokensAreLatest, NoOrphans

\* The D-Bus start of the latest token ends with client d, or without one.
LEMMA StartFinishes ==
  ASSUME InhibitorInv, NEW t \in tasks, t.token = seq, NEW d \in {0, seq},
         FinishStart(t, d), pending' = 0, UNCHANGED <<cleanup, releasing, phase, gen>>,
         holding' = holding, d = seq => t.pc = "inhibit", d = 0 => t.pc # "inhibit"
  PROVE  InhibitorInv'
  <1>1. /\ starting' = FALSE /\ dbus' = d /\ tasks' = tasks \ {t}
        /\ UNCHANGED <<seq, proc, children>>
    BY DEF FinishStart
  <1>2. /\ \A u \in tasks' : u \in tasks /\ u.token # seq
        /\ seq # 0 /\ t.pc = "inhibit" => seq \in holding
        /\ holding \subseteq {seq}
        /\ t.pc # "inhibit" => PendingClient = {} /\ dbus = 0
    BY <1>1, CurrentTaskMoves DEF InhibitorInv, InhibitorTypes, InhibitorSets, Task
  <1>3. InhibitorTypes'
    <2>1. InhibitorSets'
      BY <1>1 DEF InhibitorInv, InhibitorTypes, InhibitorSets
    <2> QED BY <1>1, <2>1 DEF InhibitorTypes
  <1>4. TokensAreLatest' /\ ActiveIsReal'
    BY <1>1, <1>2 DEF InhibitorInv, TokensAreLatest, ActiveIsReal
  <1>5. NoOrphans'
    BY <1>1, <1>2 DEF InhibitorInv, NoOrphans
  <1>6. TasksFollowTokens'
    BY <1>1, <1>2 DEF InhibitorInv, TasksFollowTokens
  <1> QED BY <1>3, <1>4, <1>5, <1>6 DEF InhibitorInv

\* Nothing happens to the inhibitors; a session may begin or end where none
\* is live.
LEMMA InhibitorsStay ==
  ASSUME InhibitorInv, UNCHANGED inhibitor,
         phase = "live" => phase' = "live" /\ gen' = gen
  PROVE  InhibitorInv' /\ UNCHANGED <<proc, dbus, pending, starting>>
  <1>1. UNCHANGED <<seq, proc, dbus, pending, cleanup, starting, tasks, children,
                    holding, releasing>>
    BY DEF inhibitor
  <1>2. TasksFollowTokens'
    BY <1>1 DEF InhibitorInv, TasksFollowTokens
  <1> QED
    BY <1>1, <1>2 DEF InhibitorInv, InhibitorTypes, InhibitorSets, TokensAreLatest,
                      NoOrphans, ActiveIsReal, PendingClient

(***************************************************************************)
(* The rest of the invariant.                                              *)
(***************************************************************************)
SessionTypes ==
    /\ world \in Worlds
    /\ phase \in {"off", "live", "shutting"} /\ running \in BOOLEAN
    /\ gen \in Nat /\ turns \in Nat
    /\ mode \in Modes /\ saved \in Modes
    /\ op \in Operation
    /\ waits \subseteq Nat
    /\ events \in 0..MaxEvents /\ modes \in 0..MaxModes

RestInv == SessionTypes /\ QuietWhenNotLive /\ ProcessRuns /\ OnlyRunsStart

LEMMA InvariantParts == IInv <=> InhibitorInv /\ RestInv
  <1>1. TypeOK <=> InhibitorTypes /\ SessionTypes
    BY DEF TypeOK, InhibitorTypes, InhibitorSets, SessionTypes
  <1> QED BY <1>1 DEF IInv, InhibitorInv, RestInv

LEMMA InvariantAgain ==
  ASSUME InhibitorInv', RestInv' PROVE IInv'
  <1>1. TypeOK'
    BY DEF TypeOK, InhibitorInv, InhibitorTypes, InhibitorSets, RestInv, SessionTypes
  <1> QED BY <1>1 DEF IInv, InhibitorInv, RestInv

LEMMA InvariantInit == Init => IInv
  <1> SUFFICES ASSUME Init PROVE IInv
    OBVIOUS
  <1>1. Idle \in Operation
    BY DEF Idle, Operation, OpPcs, Modes
  <1>2. SessionTypes
    <2>1. world \in Worlds /\ running \in BOOLEAN
      BY DEF Init
    <2>2. /\ phase \in {"off", "live", "shutting"} /\ gen \in Nat /\ turns \in Nat
          /\ mode \in Modes /\ saved \in Modes /\ waits \subseteq Nat
      BY DEF Init, Modes
    <2>3. events \in 0..MaxEvents /\ modes \in 0..MaxModes
      BY CaffeinateAssumption DEF Init
    <2> QED BY <1>1, <2>1, <2>2, <2>3 DEF Init, SessionTypes
  <1>3. InhibitorTypes
    BY DEF Init, InhibitorTypes, InhibitorSets
  <1>4. InhibitorInv
    BY <1>3 DEF Init, InhibitorInv, TokensAreLatest, TasksFollowTokens, NoOrphans,
                ActiveIsReal, PendingClient
  <1>5. RestInv
    BY <1>2 DEF Init, RestInv, QuietWhenNotLive, ProcessRuns, OnlyRunsStart, Idle,
                HasActiveInhibitor
  <1> QED BY <1>4, <1>5, InvariantParts

\* A step of D-Bus or of a process starts nothing.
LEMMA NothingStarts ==
  ASSUME IInv, InhibitorInv', UNCHANGED <<world, session, settings, counters>>,
         proc' = proc \/ (world.fails /\ proc' = 0),
         starting' \/ dbus' # 0 => starting \/ dbus # 0
  PROVE  IInv'
  <1>1. UNCHANGED <<world, phase, gen, running, turns, waits, mode, saved, op, events,
                    modes>>
    BY DEF session, settings, counters
  <1>2. RestInv
    BY InvariantParts
  <1>3. SessionTypes'
    BY <1>1, <1>2 DEF RestInv, SessionTypes
  <1>4. pending' # 0 => starting'
    BY DEF InhibitorInv, TokensAreLatest
  <1>5. QuietWhenNotLive'
    BY <1>1, <1>2, <1>4 DEF RestInv, QuietWhenNotLive
  <1>6. ProcessRuns'
    BY <1>1, <1>2 DEF RestInv, ProcessRuns
  <1>7. OnlyRunsStart'
    BY <1>1, <1>2 DEF RestInv, OnlyRunsStart, HasActiveInhibitor
  <1> QED BY <1>3, <1>5, <1>6, <1>7, InvariantAgain DEF RestInv

LEMMA FactoryInv ==
  ASSUME IInv, NEW t \in tasks, FactoryDone(t), UNCHANGED world PROVE IInv'
  <1>i. /\ InhibitorInv /\ t.pc = "factory"
        /\ UNCHANGED <<cleanup, session, settings, counters, phase, gen>>
    BY InhibitorPart DEF FactoryDone, session
  <1>1. CASE t.token # seq
    <2>1. CancelPendingStart(t) /\ dbus' = dbus
      BY <1>i, <1>1, LatestIsCurrent DEF FactoryDone
    <2> QED BY <1>i, <1>1, <2>1, StaleTaskEnds, NothingStarts
  <1>2. CASE t.token = seq
    <2> DEFINE next == [t EXCEPT !.pc = "inhibit", !.has = TRUE]
    <2>1. PendingStartIsCurrent(t)
      BY <1>i, <1>2, LatestIsCurrent
    <2>2. CASE pending' = 0 /\ FinishStart(t, 0) /\ UNCHANGED <<holding, releasing>>
      <3>1. InhibitorInv'
        <4>1. seq # 0
          BY <1>i, <1>2, CurrentTaskMoves
        <4> QED BY <1>i, <1>2, <2>2, <4>1, StartFinishes
      <3> QED BY <1>i, <2>2, <3>1, NothingStarts DEF FinishStart
    <2>3. CASE /\ tasks' = (tasks \ {t}) \cup {next}
               /\ holding' = holding \cup {t.token}
               /\ UNCHANGED <<seq, proc, dbus, pending, starting, children, releasing>>
      <3>1. /\ next \in Task /\ next.token = seq /\ next.pc = "inhibit" /\ next.has
            /\ next.gen = t.gen
        BY <1>i, <1>2 DEF InhibitorInv, InhibitorTypes, InhibitorSets, Task
      <3> HIDE DEF next
      <3>2. /\ \A u \in tasks' : (u \in tasks /\ u.token # seq) \/ u = next
            /\ dbus = 0 /\ phase = "live" /\ t.gen = gen /\ pending = seq /\ starting
            /\ seq # 0 /\ holding' = {seq}
        BY <1>i, <1>2, <2>3, CurrentTaskMoves DEF InhibitorInv, NoOrphans
      <3>3. InhibitorTypes'
        <4>1. InhibitorSets'
          BY <1>i, <2>3, <3>1, <3>2 DEF InhibitorInv, InhibitorTypes, InhibitorSets
        <4> QED BY <1>i, <2>3, <4>1 DEF InhibitorInv, InhibitorTypes
      <3>4. TasksFollowTokens'
        <4>1. \A u, v \in tasks' : u.token = v.token => u = v
          BY <1>i, <3>1, <3>2 DEF InhibitorInv, TasksFollowTokens
        <4>2. seq \in 1..seq
          BY <1>i, <1>2 DEF InhibitorInv, TasksFollowTokens
        <4> QED BY <1>i, <2>3, <3>1, <3>2, <4>1, <4>2 DEF InhibitorInv, TasksFollowTokens
      <3>5. next \in tasks' /\ pending' = seq
        BY <2>3, <3>2
      <3>6. NoOrphans' /\ ActiveIsReal' /\ TokensAreLatest'
        BY <1>i, <2>3, <3>1, <3>2, <3>5
        DEF InhibitorInv, NoOrphans, ActiveIsReal, TokensAreLatest, PendingClient
      <3>7. InhibitorInv'
        BY <3>3, <3>4, <3>6 DEF InhibitorInv
      <3> QED BY <1>i, <2>3, <3>7, NothingStarts
    <2> QED BY <2>1, <2>2, <2>3 DEF FactoryDone
  <1> QED BY <1>1, <1>2

LEMMA InhibitInv ==
  ASSUME IInv, NEW t \in tasks, InhibitDone(t), UNCHANGED world PROVE IInv'
  <1>i. /\ InhibitorInv /\ t.pc = "inhibit"
        /\ UNCHANGED <<cleanup, session, settings, counters, phase, gen>>
    BY InhibitorPart DEF InhibitDone, session
  <1>1. CASE t.token # seq
    <2>1. CancelPendingStart(t) /\ dbus' = dbus
      BY <1>i, <1>1, LatestIsCurrent DEF InhibitDone
    <2> QED BY <1>i, <1>1, <2>1, StaleTaskEnds, NothingStarts
  <1>2. CASE t.token = seq
    <2> DEFINE next == [t EXCEPT !.pc = "failed", !.has = FALSE]
    <2>1. PendingStartIsCurrent(t)
      BY <1>i, <1>2, LatestIsCurrent
    <2>s. starting /\ pending = seq
      BY <1>i, <1>2, CurrentTaskMoves
    <2>2. CASE pending' = 0 /\ FinishStart(t, t.token) /\ UNCHANGED <<holding, releasing>>
      <3>1. InhibitorInv'
        <4>1. seq # 0 /\ FinishStart(t, seq)
          BY <1>i, <1>2, <2>2, CurrentTaskMoves
        <4> QED BY <1>i, <1>2, <2>2, <4>1, StartFinishes
      <3> QED BY <1>i, <2>s, <2>2, <3>1, NothingStarts DEF FinishStart
    <2>3. CASE /\ pending' = 0
               /\ tasks' = (tasks \ {t}) \cup {next}
               /\ holding' = holding \ {t.token} /\ releasing' = releasing \cup {t.token}
               /\ UNCHANGED <<seq, proc, dbus, starting, children>>
      <3>1. /\ next \in Task /\ next.token = seq /\ next.pc = "failed" /\ ~next.has
            /\ next.gen = t.gen
        BY <1>i, <1>2 DEF InhibitorInv, InhibitorTypes, InhibitorSets, Task
      <3> HIDE DEF next
      <3>2. /\ \A u \in tasks' : (u \in tasks /\ u.token # seq) \/ u = next
            /\ dbus = 0 /\ phase = "live" /\ t.gen = gen
            /\ seq # 0 /\ holding' = {}
        BY <1>i, <1>2, <2>3, CurrentTaskMoves
      <3>3. InhibitorTypes'
        <4>1. seq \in Nat
          BY <1>i DEF InhibitorInv, InhibitorTypes, InhibitorSets
        <4>2. InhibitorSets'
          BY <1>i, <1>2, <2>3, <3>1, <3>2, <4>1
          DEF InhibitorInv, InhibitorTypes, InhibitorSets
        <4> QED BY <1>i, <2>3, <4>2 DEF InhibitorInv, InhibitorTypes
      <3>4. TasksFollowTokens'
        <4>1. \A u, v \in tasks' : u.token = v.token => u = v
          BY <1>i, <3>1, <3>2 DEF InhibitorInv, TasksFollowTokens
        <4>2. seq \in 1..seq
          BY <1>i, <1>2 DEF InhibitorInv, TasksFollowTokens
        <4> QED BY <1>i, <2>3, <3>1, <3>2, <4>1, <4>2 DEF InhibitorInv, TasksFollowTokens
      <3>5. NoOrphans' /\ ActiveIsReal' /\ TokensAreLatest'
        BY <1>i, <2>3, <3>2
        DEF InhibitorInv, NoOrphans, ActiveIsReal, TokensAreLatest
      <3>6. InhibitorInv'
        BY <3>3, <3>4, <3>5 DEF InhibitorInv
      <3> QED BY <1>i, <2>3, <3>2, <3>6, NothingStarts
    <2> QED BY <2>1, <2>2, <2>3 DEF InhibitDone
  <1> QED BY <1>1, <1>2

LEMMA FailedInv ==
  ASSUME IInv, NEW t \in tasks, FailedClientClosed(t), UNCHANGED world PROVE IInv'
  <1>i. /\ InhibitorInv /\ t.pc = "failed"
        /\ UNCHANGED <<cleanup, session, settings, counters, phase, gen>>
    BY InhibitorPart DEF FailedClientClosed, session
  <1>1. CASE t.token # seq
    <2>1. CancelPendingStart(t) /\ dbus' = dbus
      BY <1>i, <1>1, LatestIsCurrent DEF FailedClientClosed
    <2> QED BY <1>i, <1>1, <2>1, StaleTaskEnds, NothingStarts
  <1>2. CASE t.token = seq
    <2>1. FinishStart(t, 0) /\ UNCHANGED <<pending, holding, releasing>>
      BY <1>i, <1>2, LatestIsCurrent DEF FailedClientClosed
    <2>2. pending = 0 /\ seq # 0
      BY <1>i, <1>2, CurrentTaskMoves
    <2>3. InhibitorInv'
      BY <1>i, <1>2, <2>1, <2>2, StartFinishes
    <2> QED BY <1>i, <2>1, <2>3, NothingStarts DEF FinishStart
  <1> QED BY <1>1, <1>2

LEMMA ClosedInv ==
  ASSUME IInv, NEW c \in releasing, Closed(c), UNCHANGED world PROVE IInv'
  <1>1. /\ UNCHANGED <<seq, proc, dbus, pending, starting, tasks, children, holding>>
        /\ UNCHANGED <<session, settings, counters, phase, gen>>
        /\ cleanup' \in {0, cleanup} /\ releasing' \subseteq releasing
    BY DEF Closed, session
  <1>2. InhibitorInv'
    BY <1>1, InhibitorPart
    DEF InhibitorInv, InhibitorTypes, InhibitorSets, TokensAreLatest,
        TasksFollowTokens, NoOrphans, ActiveIsReal, PendingClient
  <1> QED BY <1>1, <1>2, NothingStarts

LEMMA ChildFailsInv ==
  ASSUME IInv, NEW c \in children, ChildFails(c), UNCHANGED world PROVE IInv'
  <1>1. /\ UNCHANGED <<seq, dbus, pending, cleanup, starting, tasks, holding, releasing>>
        /\ UNCHANGED <<session, settings, counters, phase, gen>>
        /\ world.fails /\ children' = children \ {c}
        /\ proc' = IF proc = c /\ c = seq THEN 0 ELSE proc
    BY DEF ChildFails, session
  <1>2. c = proc /\ c = seq
    BY InhibitorPart DEF InhibitorInv, NoOrphans, TokensAreLatest
  <1>3. InhibitorInv'
    BY <1>1, <1>2, InhibitorPart
    DEF InhibitorInv, InhibitorTypes, InhibitorSets, TokensAreLatest,
        TasksFollowTokens, NoOrphans, ActiveIsReal, PendingClient
  <1> QED BY <1>1, <1>3, NothingStarts

LEMMA DbusFailsInv == ASSUME IInv, DbusFails, UNCHANGED world PROVE IInv'
  <1>1. /\ UNCHANGED <<seq, proc, pending, starting, tasks, children>>
        /\ UNCHANGED <<session, settings, counters, phase, gen>>
        /\ dbus # 0 /\ dbus = seq /\ dbus' = 0 /\ cleanup' = dbus
        /\ holding' = holding \ {dbus} /\ releasing' = releasing \cup {dbus}
    BY DEF DbusFails, session
  <1>2. \A t \in tasks : t.token # seq
    BY <1>1, InhibitorPart DEF InhibitorInv, TasksFollowTokens
  <1>3. InhibitorInv'
    BY <1>1, <1>2, InhibitorPart
    DEF InhibitorInv, InhibitorTypes, InhibitorSets, TokensAreLatest,
        TasksFollowTokens, NoOrphans, ActiveIsReal, PendingClient
  <1> QED BY <1>1, <1>3, NothingStarts

(***************************************************************************)
(* The handlers of agent and session events.                               *)
(***************************************************************************)
LEMMA StopClosesClients == ASSUME InhibitorInv PROVE ToClose \subseteq Nat
  <1>1. PendingClient \subseteq Nat
    BY PendingClients DEF InhibitorInv, InhibitorTypes, InhibitorSets
  <1> QED BY <1>1 DEF ToClose, InhibitorInv, InhibitorTypes, InhibitorSets

LEMMA SessionStartInv == ASSUME IInv, SessionStart, UNCHANGED world PROVE IInv'
  <1>1. /\ InhibitorInv /\ RestInv
        /\ phase = "off" /\ phase' = "live" /\ gen' = gen + 1 /\ mode' = saved
        /\ events < MaxEvents /\ events' = events + 1
        /\ UNCHANGED inhibitor /\ UNCHANGED <<world, running, turns, waits, saved, op, modes>>
    BY InvariantParts DEF SessionStart, Event
  <1>2. InhibitorInv' /\ UNCHANGED <<proc, dbus, pending, starting>>
    BY <1>1, InhibitorsStay
  <1>3. RestInv'
    BY <1>1, <1>2, CaffeinateAssumption
    DEF RestInv, SessionTypes, QuietWhenNotLive, ProcessRuns, OnlyRunsStart,
        HasActiveInhibitor
  <1> QED BY <1>2, <1>3, InvariantAgain

LEMMA AgentStartInv == ASSUME IInv, AgentStart, UNCHANGED world PROVE IInv'
  <1>1. /\ InhibitorInv /\ RestInv
        /\ phase = "live" /\ running' = TRUE /\ turns' = turns + 1
        /\ events < MaxEvents /\ events' = events + 1
        /\ StartInhibitor(mode)
        /\ UNCHANGED <<world, phase, gen, waits, mode, saved, op, modes>>
    BY InvariantParts DEF AgentStart, Event, settings
  <1>2. InhibitorInv' /\ (world.command /\ ~world.fails => proc' # 0)
    BY <1>1, StartKeeps DEF RestInv, SessionTypes, ProcessRuns
  <1>3. RestInv'
    BY <1>1, <1>2, CaffeinateAssumption
    DEF RestInv, SessionTypes, QuietWhenNotLive, ProcessRuns, OnlyRunsStart
  <1> QED BY <1>2, <1>3, InvariantAgain

LEMMA AgentEndInv == ASSUME IInv, AgentEnd, UNCHANGED world PROVE IInv'
  <1>1. /\ InhibitorInv /\ RestInv
        /\ phase = "live" /\ turns' = IF turns = 0 THEN 0 ELSE turns - 1
        /\ events < MaxEvents /\ events' = events + 1
        /\ IF turns' = 0 THEN StopInhibitor ELSE UNCHANGED inhibitor
        /\ UNCHANGED <<world, phase, gen, waits, mode, saved, op, modes>>
    BY InvariantParts DEF AgentEnd, Event, settings
  <1>r. running' \in BOOLEAN
    BY DEF AgentEnd
  <1>2. SessionTypes' /\ QuietWhenNotLive'
    BY <1>1, <1>r, CaffeinateAssumption DEF RestInv, SessionTypes, QuietWhenNotLive
  <1>3. CASE turns' = 0
    <2>1. InhibitorInv' /\ proc' = 0 /\ dbus' = 0 /\ ~starting'
      BY <1>1, <1>3, StopQuiets
    <2>2. ProcessRuns' /\ OnlyRunsStart'
      BY <1>1, <1>3, <2>1 DEF RestInv, ProcessRuns, OnlyRunsStart, HasActiveInhibitor
    <2> QED BY <1>2, <2>1, <2>2, InvariantAgain DEF RestInv
  <1>4. CASE turns' # 0
    <2>1. InhibitorInv' /\ UNCHANGED <<proc, dbus, pending, starting>>
      BY <1>1, <1>4, InhibitorsStay
    <2>2. ProcessRuns' /\ OnlyRunsStart'
      BY <1>1, <1>2, <1>4, <2>1
      DEF RestInv, SessionTypes, ProcessRuns, OnlyRunsStart, HasActiveInhibitor
    <2> QED BY <1>2, <2>1, <2>2, InvariantAgain DEF RestInv
  <1> QED BY <1>3, <1>4

LEMMA StopInv == ASSUME IInv, StopCaffeinate, UNCHANGED world PROVE IInv'
  <1>1. /\ InhibitorInv /\ RestInv /\ phase = "live" /\ turns' = 0 /\ StopInhibitor
        /\ events < MaxEvents /\ events' = events + 1
        /\ UNCHANGED <<world, phase, gen, running, waits, mode, saved, op, modes>>
    BY InvariantParts DEF StopCaffeinate, Event, settings
  <1>2. InhibitorInv' /\ proc' = 0 /\ dbus' = 0 /\ ~starting'
    BY <1>1, StopQuiets
  <1>3. RestInv'
    BY <1>1, <1>2, CaffeinateAssumption
    DEF RestInv, SessionTypes, QuietWhenNotLive, ProcessRuns, OnlyRunsStart,
        HasActiveInhibitor
  <1> QED BY <1>2, <1>3, InvariantAgain

LEMMA ShutdownInv == ASSUME IInv, SessionShutdown, UNCHANGED world PROVE IInv'
  <1>1. /\ InhibitorInv /\ RestInv /\ phase = "live" /\ phase' = "shutting"
        /\ gen' = gen + 1 /\ turns' = 0
        /\ waits' = ToClose /\ StopInhibitor
        /\ events < MaxEvents /\ events' = events + 1
        /\ UNCHANGED <<world, mode, saved, op, modes>>
    BY InvariantParts DEF SessionShutdown, Event, settings
  <1>2. InhibitorInv' /\ proc' = 0 /\ dbus' = 0 /\ pending' = 0 /\ ~starting'
    BY <1>1, StopQuiets
  <1>r. running' \in BOOLEAN
    BY DEF SessionShutdown
  <1>3. SessionTypes'
    BY <1>1, <1>r, StopClosesClients, CaffeinateAssumption DEF RestInv, SessionTypes
  <1>4. QuietWhenNotLive'
    BY <1>1, <1>2 DEF RestInv, SessionTypes, QuietWhenNotLive, Operation
  <1>5. ProcessRuns' /\ OnlyRunsStart'
    BY <1>1, <1>2 DEF RestInv, ProcessRuns, OnlyRunsStart, HasActiveInhibitor
  <1> QED BY <1>2, <1>3, <1>4, <1>5, InvariantAgain DEF RestInv

LEMMA ShutdownEndsInv ==
  ASSUME IInv, SessionShutdownEnds, UNCHANGED world PROVE IInv'
  <1>1. /\ InhibitorInv /\ RestInv /\ phase = "shutting" /\ phase' = "off"
        /\ op.pc = "idle" /\ waits' = {} /\ UNCHANGED inhibitor
        /\ UNCHANGED <<world, gen, running, turns, mode, saved, op, events, modes>>
    BY InvariantParts DEF SessionShutdownEnds, settings, counters
  <1>2. InhibitorInv' /\ UNCHANGED <<proc, dbus, pending, starting>>
    BY <1>1, InhibitorsStay
  <1>3. RestInv'
    BY <1>1, <1>2
    DEF RestInv, SessionTypes, QuietWhenNotLive, ProcessRuns, OnlyRunsStart,
        HasActiveInhibitor
  <1> QED BY <1>2, <1>3, InvariantAgain

(***************************************************************************)
(* The steps of a mode operation.                                          *)
(***************************************************************************)
LEMMA SetModeInv ==
  ASSUME IInv, NEW m \in Modes, SetMode(m), UNCHANGED world PROVE IInv'
  <1> DEFINE restart == HasActiveInhibitor /\ mode # m
             begun == [Idle EXCEPT !.gen = gen, !.mode = m, !.prev = mode,
                                   !.restart = restart]
  <1>1. /\ InhibitorInv /\ RestInv /\ phase = "live" /\ op.pc = "idle"
        /\ modes < MaxModes /\ modes' = modes + 1
        /\ events < MaxEvents /\ events' = events + 1
        /\ UNCHANGED <<world, phase, gen, running, turns, waits, saved>>
    BY InvariantParts DEF SetMode, Event, session
  <1>2. IF restart
        THEN /\ mode' = m /\ StopInhibitor
             /\ op' = [begun EXCEPT !.pc = "stopping", !.closing = ToClose]
        ELSE op' = [begun EXCEPT !.pc = "saving"] /\ UNCHANGED <<mode, inhibitor>>
    BY DEF SetMode
  <1>3. restart \in BOOLEAN
    OBVIOUS
  <1> HIDE DEF restart
  <1>4. /\ op' \in Operation /\ op'.gen = gen
        /\ op'.pc = (IF restart THEN "stopping" ELSE "saving")
    <2>1. begun \in Operation /\ begun.gen = gen
      BY <1>1, <1>3 DEF Idle, Operation, OpPcs, Modes, RestInv, SessionTypes
    <2> HIDE DEF begun
    <2> QED BY <1>1, <1>2, <2>1, StopClosesClients DEF Operation, OpPcs
  <1> HIDE DEF begun
  <1>5. SessionTypes'
    BY <1>1, <1>2, <1>4, CaffeinateAssumption DEF RestInv, SessionTypes
  <1>6. QuietWhenNotLive'
    BY <1>1, <1>4 DEF RestInv, SessionTypes, QuietWhenNotLive
  <1>7. CASE restart
    <2>1. InhibitorInv' /\ proc' = 0 /\ dbus' = 0 /\ ~starting'
      BY <1>1, <1>2, <1>7, StopQuiets
    <2>2. ProcessRuns' /\ OnlyRunsStart'
      BY <1>1, <1>4, <1>7, <2>1 DEF RestInv, SessionTypes, ProcessRuns, OnlyRunsStart
    <2> QED BY <1>5, <1>6, <2>1, <2>2, InvariantAgain DEF RestInv
  <1>8. CASE ~restart
    <2>1. InhibitorInv' /\ UNCHANGED <<proc, dbus, pending, starting>>
      BY <1>1, <1>2, <1>8, InhibitorsStay
    <2>2. ProcessRuns' /\ OnlyRunsStart'
      BY <1>1, <1>4, <1>8, <2>1 DEF RestInv, SessionTypes, ProcessRuns, OnlyRunsStart
    <2> QED BY <1>5, <1>6, <2>1, <2>2, InvariantAgain DEF RestInv
  <1> QED BY <1>7, <1>8

LEMMA GiveUpInv ==
  ASSUME IInv, GiveUp, op.pc # "idle", UNCHANGED <<world, session, counters>>,
         Current => op.pc \notin {"stopping", "unsaving"}
  PROVE  IInv'
  <1>1. /\ InhibitorInv /\ RestInv /\ op' = Idle /\ UNCHANGED inhibitor
        /\ UNCHANGED <<world, phase, gen, running, turns, waits, mode, saved, events,
                       modes>>
    BY InvariantParts DEF GiveUp, session, counters
  <1>2. InhibitorInv' /\ UNCHANGED <<proc, dbus, pending, starting>>
    BY <1>1, InhibitorsStay
  <1>3. Idle \in Operation /\ Idle.pc = "idle"
    BY DEF Idle, Operation, OpPcs, Modes
  <1>4. SessionTypes' /\ QuietWhenNotLive' /\ OnlyRunsStart'
    BY <1>1, <1>2, <1>3
    DEF RestInv, SessionTypes, QuietWhenNotLive, OnlyRunsStart, HasActiveInhibitor
  <1>5. ProcessRuns'
    BY <1>1, <1>2 DEF RestInv, SessionTypes, QuietWhenNotLive, ProcessRuns, Current
  <1> QED BY <1>2, <1>4, <1>5, InvariantAgain DEF RestInv

LEMMA StartInInv ==
  ASSUME IInv, NEW m \in Modes, NEW pc \in {"restarting", "rollingBack", "restoring"},
         StartIn(m, pc), op.pc # "idle", Current, UNCHANGED <<world, session, counters>>
  PROVE  IInv'
  <1>1. /\ InhibitorInv /\ RestInv /\ StartInhibitor(m) /\ mode' = m
        /\ op' = [op EXCEPT !.pc = pc, !.closing = {}, !.token = Awaited]
        /\ UNCHANGED <<world, phase, gen, running, turns, waits, saved, events, modes>>
    BY InvariantParts DEF StartIn, session, counters
  <1>2. phase = "live" /\ modes # 0 /\ op.gen = gen
    BY <1>1 DEF RestInv, QuietWhenNotLive, OnlyRunsStart, Current
  <1>3. InhibitorInv' /\ (world.command /\ ~world.fails => proc' # 0)
    BY <1>1, <1>2, StartKeeps DEF RestInv, SessionTypes, ProcessRuns
  <1>4. Awaited \in Nat
    BY <1>3 DEF Awaited, InhibitorInv, InhibitorTypes, InhibitorSets
  <1>5. op' \in Operation /\ op'.gen = gen /\ op'.pc = pc
    BY <1>1, <1>2, <1>4 DEF RestInv, SessionTypes, Operation, OpPcs
  <1>6. RestInv'
    BY <1>1, <1>2, <1>3, <1>5
    DEF RestInv, SessionTypes, QuietWhenNotLive, ProcessRuns, OnlyRunsStart
  <1> QED BY <1>3, <1>6, InvariantAgain

LEMMA ModeStoppedInv == ASSUME IInv, ModeStopped, UNCHANGED world PROVE IInv'
  <1>1. /\ op.pc = "stopping" /\ UNCHANGED <<world, session, counters>>
        /\ mode \in Modes
    BY DEF ModeStopped, IInv, TypeOK
  <1>2. CASE Current
    BY <1>1, <1>2, StartInInv DEF ModeStopped
  <1>3. CASE ~Current
    BY <1>1, <1>3, GiveUpInv DEF ModeStopped
  <1> QED BY <1>2, <1>3

LEMMA ModeUnsavedInv == ASSUME IInv, ModeUnsaved, UNCHANGED world PROVE IInv'
  <1>1. /\ op.pc = "unsaving" /\ UNCHANGED <<world, session, counters>>
        /\ mode \in Modes
    BY DEF ModeUnsaved, IInv, TypeOK
  <1>2. CASE Current
    BY <1>1, <1>2, StartInInv DEF ModeUnsaved
  <1>3. CASE ~Current
    BY <1>1, <1>3, GiveUpInv DEF ModeUnsaved
  <1> QED BY <1>2, <1>3

\* The operation saves, or is done with what it saved.
LEMMA OperationMoves ==
  ASSUME IInv, UNCHANGED <<inhibitor, session, counters, world>>, op' \in Operation,
         op.pc \in {"restarting", "saving"},
         op'.pc = "idle" \/ (op'.pc = "saving" /\ op'.gen = op.gen),
         mode' \in Modes, saved' \in Modes
  PROVE  IInv'
  <1>1. /\ InhibitorInv /\ RestInv
        /\ UNCHANGED <<world, phase, gen, running, turns, waits, events, modes>>
    BY InvariantParts DEF session, counters
  <1>2. InhibitorInv' /\ UNCHANGED <<proc, dbus, pending, starting>>
    BY <1>1, InhibitorsStay
  <1>3. SessionTypes' /\ QuietWhenNotLive' /\ OnlyRunsStart'
    BY <1>1, <1>2
    DEF RestInv, SessionTypes, QuietWhenNotLive, OnlyRunsStart, HasActiveInhibitor
  <1>4. ProcessRuns'
    BY <1>1, <1>2 DEF RestInv, ProcessRuns
  <1> QED BY <1>2, <1>3, <1>4, InvariantAgain DEF RestInv

LEMMA ModeRestartedInv == ASSUME IInv, ModeRestarted, UNCHANGED world PROVE IInv'
  <1>1. /\ op.pc = "restarting" /\ UNCHANGED <<world, session, counters>>
        /\ op \in Operation /\ mode \in Modes /\ saved \in Modes
    BY DEF ModeRestarted, IInv, TypeOK
  <1>2. CASE ~Current
    BY <1>1, <1>2, GiveUpInv DEF ModeRestarted
  <1>3. CASE Current /\ HasActiveInhibitor
    <2>1. op' = [op EXCEPT !.pc = "saving", !.token = 0]
          /\ UNCHANGED <<mode, saved, inhibitor>>
      BY <1>3 DEF ModeRestarted
    <2>2. op' \in Operation /\ op'.pc = "saving" /\ op'.gen = op.gen
      BY <1>1, <2>1 DEF Operation, OpPcs
    <2> QED BY <1>1, <2>1, <2>2, OperationMoves
  <1>4. CASE Current /\ ~HasActiveInhibitor
    <2>1. StartIn(op.prev, "rollingBack") /\ op.prev \in Modes
      BY <1>1, <1>4 DEF ModeRestarted, Operation
    <2> QED BY <1>1, <1>4, <2>1, StartInInv
  <1> QED BY <1>2, <1>3, <1>4

LEMMA ModeSavedInv == ASSUME IInv, ModeSaved, UNCHANGED world PROVE IInv'
  <1>1. /\ op.pc = "saving" /\ UNCHANGED <<inhibitor, session, counters>>
        /\ saved' = op.mode /\ op' = Idle
        /\ mode' = IF Current THEN op.mode ELSE mode
        /\ op \in Operation /\ mode \in Modes
    BY DEF ModeSaved, IInv, TypeOK
  <1>2. op' \in Operation /\ op'.pc = "idle"
    BY <1>1 DEF Idle, Operation, OpPcs, Modes
  <1>3. saved' \in Modes /\ mode' \in Modes
    BY <1>1 DEF Operation
  <1> QED BY <1>1, <1>2, <1>3, OperationMoves

LEMMA ModeNotSavedInv == ASSUME IInv, ModeNotSaved, UNCHANGED world PROVE IInv'
  <1>1. /\ op.pc = "saving" /\ UNCHANGED <<world, session, counters>>
        /\ InhibitorInv /\ RestInv
        /\ UNCHANGED <<phase, gen, running, turns, waits, events, modes>>
    BY InvariantParts DEF ModeNotSaved, session, counters
  <1>2. CASE ~(Current /\ op.restart)
    <2>1. GiveUp
      BY <1>2 DEF ModeNotSaved
    <2> QED BY <1>1, <2>1, GiveUpInv
  <1>3. CASE Current /\ op.restart
    <2>1. /\ mode' = op.prev /\ StopInhibitor /\ saved' = saved
          /\ op' = [op EXCEPT !.pc = "unsaving", !.closing = ToClose]
      BY <1>3 DEF ModeNotSaved
    <2>2. InhibitorInv' /\ proc' = 0 /\ dbus' = 0 /\ ~starting'
      BY <1>1, <2>1, StopQuiets
    <2>3. phase = "live" /\ modes # 0 /\ op.gen = gen
      BY <1>1, <1>3 DEF RestInv, QuietWhenNotLive, OnlyRunsStart, Current
    <2>4. /\ op' \in Operation /\ op'.gen = gen /\ op'.pc = "unsaving"
          /\ mode' \in Modes
      BY <1>1, <2>1, <2>3, StopClosesClients
      DEF RestInv, SessionTypes, Operation, OpPcs
    <2>5. RestInv'
      BY <1>1, <2>1, <2>2, <2>3, <2>4
      DEF RestInv, SessionTypes, QuietWhenNotLive, ProcessRuns, OnlyRunsStart
    <2> QED BY <2>2, <2>5, InvariantAgain
  <1> QED BY <1>2, <1>3

LEMMA ModeRestoredInv == ASSUME IInv, ModeRestored, UNCHANGED world PROVE IInv'
  BY GiveUpInv DEF ModeRestored

(***************************************************************************)
(* Every step.                                                             *)
(***************************************************************************)
LEMMA InvariantStep == IInv /\ [Next]_vars => IInv'
  <1> SUFFICES ASSUME IInv, [Next]_vars PROVE IInv'
    OBVIOUS
  <1>1. CASE UNCHANGED vars
    BY <1>1
    DEF vars, state, inhibitor, session, settings, counters, IInv, TypeOK, TokensAreLatest,
        TasksFollowTokens, QuietWhenNotLive, ProcessRuns, OnlyRunsStart, NoOrphans,
        ActiveIsReal, PendingClient, HasActiveInhibitor
  <1>2. CASE Next
    <2> USE <1>2
    <2>w. UNCHANGED world
      BY DEF Next
    <2> USE <2>w
    <2>1. CASE \E t \in tasks : FactoryDone(t) \/ InhibitDone(t) \/ FailedClientClosed(t)
      BY <2>1, FactoryInv, InhibitInv, FailedInv
    <2>2. CASE (\E c \in releasing : Closed(c)) \/ (\E c \in children : ChildFails(c))
      BY <2>2, ClosedInv, ChildFailsInv
    <2>3. CASE ModeStopped \/ ModeRestarted \/ ModeSaved \/ ModeNotSaved
      BY <2>3, ModeStoppedInv, ModeRestartedInv, ModeSavedInv, ModeNotSavedInv
    <2>4. CASE ModeUnsaved \/ ModeRestored \/ \E m \in Modes : SetMode(m)
      BY <2>4, ModeUnsavedInv, ModeRestoredInv, SetModeInv
    <2>5. CASE DbusFails \/ SessionStart \/ AgentStart \/ AgentEnd \/ StopCaffeinate
      BY <2>5, DbusFailsInv, SessionStartInv, AgentStartInv, AgentEndInv, StopInv
    <2>6. CASE SessionShutdown \/ SessionShutdownEnds
      BY <2>6, ShutdownInv, ShutdownEndsInv
    <2> QED BY <2>1, <2>2, <2>3, <2>4, <2>5, <2>6 DEF Next, Progress
  <1> QED BY <1>1, <1>2

(***************************************************************************)
(* The inductive invariant holds in every behaviour: tokens identify the   *)
(* latest start, and what starts or is active belongs to a live session.   *)
(***************************************************************************)
THEOREM CaffeinateInvariant == Spec => []IInv
  BY InvariantInit, InvariantStep, PTL DEF Spec

(***************************************************************************)
(* The state has the types it was declared with.                           *)
(***************************************************************************)
THEOREM TypeCorrect == Spec => []TypeOK
  <1>1. IInv => TypeOK
    BY DEF IInv
  <1> QED BY <1>1, CaffeinateInvariant, PTL

(***************************************************************************)
(* Whatever order starts, stops and answers of D-Bus come in, the state    *)
(* knows every process and every client there is, and takes no other for   *)
(* active.                                                                 *)
(***************************************************************************)
THEOREM InhibitorsCorrect == Spec => []InhibitorsAreKnown
  <1>1. IInv => InhibitorsAreKnown
    BY DEF IInv, InhibitorsAreKnown
  <1> QED BY <1>1, CaffeinateInvariant, PTL

(***************************************************************************)
(* The computer is kept awake while the agent runs, unless something       *)
(* fails, and, unless the mode was changed, not longer.                    *)
(***************************************************************************)
THEOREM AwakeCorrect == Spec => []AwakeWithTheRun
  <1>1. IInv => AwakeWithTheRun
    BY DEF IInv, TypeOK, ProcessRuns, OnlyRunsStart, AwakeWithTheRun, AwakeWhileRunning,
           AwakeOnlyWhileRunning, Settled, HasActiveInhibitor
  <1> QED BY <1>1, CaffeinateInvariant, PTL

(***************************************************************************)
(* The safety half of ShutdownReleases: when a shutdown has returned, no   *)
(* process runs and no client may hold the screen saver.                   *)
(***************************************************************************)
THEOREM ShutdownCorrect == Spec => []ReleasedAfterShutdown
  <1>1. IInv => ReleasedAfterShutdown
    <2> SUFFICES ASSUME IInv, phase = "off" PROVE children = {} /\ holding = {}
      BY DEF ReleasedAfterShutdown
    <2>1. proc = 0 /\ dbus = 0 /\ pending = 0
      BY DEF IInv, QuietWhenNotLive
    <2>2. PendingClient = {}
      BY <2>1, InhibitorPart, PendingClients
    <2> QED BY <2>1, <2>2 DEF IInv, NoOrphans, TokensAreLatest
  <1> QED BY <1>1, CaffeinateInvariant, PTL
==============================================================================

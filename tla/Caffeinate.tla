------------------------------ MODULE Caffeinate ------------------------------
(***************************************************************************)
(* pi-caffeinate keeps the computer awake while an agent runs.  Starting   *)
(* an inhibitor and stopping one both wait for D-Bus, and agent events,    *)
(* commands and the shutdown of the session come in between.               *)
(*                                                                         *)
(* Source: packages/pi-caffeinate/src/caffeinate.ts.  An inhibitor is a    *)
(* child process, a D-Bus client, or both; it is named by the value of     *)
(* inhibitSequence in its start, its token.  A child that was told to end  *)
(* counts as ended.  Commands that wait in modeOperationQueue are left     *)
(* out: they read nothing before their turn but the generation, and end at *)
(* once if that has changed.  PI_CAFFEINATE_COMMAND and _DISABLED are unset.*)
(***************************************************************************)
EXTENDS Integers, FiniteSets

CONSTANTS
    Worlds,         \* the platforms, with and without failures
    MaxEvents,      \* bound on agent events, commands and session events
    MaxModes        \* bound on the mode changes among them

ASSUME CaffeinateAssumption ==
    /\ Worlds \subseteq [command : BOOLEAN, dbus : BOOLEAN, fails : BOOLEAN]
    /\ MaxEvents \in Nat /\ MaxModes \in Nat

VARIABLES
    world,      \* never changes: the platform has an inhibitor command; it is
                \* Linux, where display mode also asks the screen saver;
                \* processes, D-Bus and the settings file may fail
    phase,      \* of the session: off, live, or shutting down
    gen,        \* sessionGeneration
    running,    \* an agent run is under way in Pi
    turns,      \* activeTurns
    mode, saved,    \* state.mode, and the mode in the settings file
    seq,        \* inhibitSequence
    proc, dbus, \* state.process and state.dbus: tokens, 0 if there is none
    pending,    \* state.pendingDbus, by its token
    cleanup,    \* state.dbusCleanup, by its token
    starting,   \* inhibitorStarting
    tasks,      \* the calls of startInhibitor that wait
    op,         \* the mode operation that is under way
    waits,      \* the clients that session_shutdown waits for
    children, holding, releasing,   \* processes, and D-Bus clients
    events, modes   \* counters for the bounds

inhibitor == <<seq, proc, dbus, pending, cleanup, starting, tasks, children, holding,
               releasing>>
session == <<phase, gen, running, turns, waits>>
settings == <<mode, saved, op>>
counters == <<events, modes>>
state == <<inhibitor, session, settings, counters>>
vars == <<state, world>>

-----------------------------------------------------------------------------
Modes == {"sleep", "display"}

WantsDBus(m) == world.dbus /\ m = "display"

HasActiveInhibitor == proc # 0 \/ dbus # 0

\* pc: awaiting dbusFactory, client.inhibit, or client.close after a failure.
\* has: the pending start still holds its client.
Task == [token : Nat, gen : Nat, pc : {"factory", "inhibit", "failed"}, has : BOOLEAN]

OpPcs == {"idle", "stopping", "restarting", "rollingBack", "saving", "unsaving", "restoring"}

\* closing: the clients it waits for; token: the start that it waits for.
Operation == [pc : OpPcs, gen : Nat, mode : Modes, prev : Modes, restart : BOOLEAN,
              closing : SUBSET Nat, token : Nat]

Idle == [pc |-> "idle", gen |-> 0, mode |-> "display", prev |-> "display",
         restart |-> FALSE, closing |-> {}, token |-> 0]

TypeOK ==
    /\ world \in Worlds
    /\ phase \in {"off", "live", "shutting"} /\ running \in BOOLEAN
    /\ gen \in Nat /\ turns \in Nat /\ seq \in Nat
    /\ mode \in Modes /\ saved \in Modes
    /\ {proc, dbus, pending, cleanup} \subseteq Nat
    /\ starting \in BOOLEAN
    /\ tasks \subseteq Task
    /\ op \in Operation
    /\ waits \subseteq Nat
    /\ children \subseteq Nat /\ holding \subseteq Nat /\ releasing \subseteq Nat
    /\ events \in 0..MaxEvents /\ modes \in 0..MaxModes

Init ==
    /\ world \in Worlds
    /\ phase = "off" /\ gen = 0 /\ running = FALSE /\ turns = 0
    /\ mode = "display" /\ saved \in Modes
    /\ seq = 0 /\ proc = 0 /\ dbus = 0 /\ pending = 0 /\ cleanup = 0
    /\ starting = FALSE /\ tasks = {} /\ op = Idle /\ waits = {}
    /\ children = {} /\ holding = {} /\ releasing = {}
    /\ events = 0 /\ modes = 0

-----------------------------------------------------------------------------
\* startInhibitor up to its first await, in mode m.
StartInhibitor(m) ==
    \/ /\ HasActiveInhibitor \/ starting
       /\ UNCHANGED inhibitor
    \/ /\ ~HasActiveInhibitor /\ ~starting
       /\ seq' = seq + 1
       /\ \E spawned \in BOOLEAN :
            /\ spawned => world.command
            /\ ~spawned => world.fails \/ ~world.command
            /\ proc' = IF spawned THEN seq' ELSE 0
            /\ children' = IF spawned THEN children \cup {seq'} ELSE children
       /\ IF WantsDBus(m)
          THEN /\ starting' = TRUE /\ pending' = seq'
               /\ tasks' = tasks \cup {[token |-> seq', gen |-> gen, pc |-> "factory", has |-> FALSE]}
          ELSE UNCHANGED <<starting, pending, tasks>>
       /\ UNCHANGED <<dbus, cleanup, holding, releasing>>

\* The task that the caller of startInhibitor waits for.
Awaited == IF tasks' = tasks THEN 0 ELSE seq'

\* takePendingDbusClient
PendingClient == {t.token : t \in {u \in tasks : u.token = pending /\ u.has}}

Taken(t) == IF t.token = pending THEN [t EXCEPT !.has = FALSE] ELSE t

\* Mutant: the client of a start that waits for inhibit is left alone.
ToCloseForgetful == {dbus, cleanup} \ {0}

\* What stopInhibitor has to close, and waits for.
ToClose == ({dbus, cleanup} \ {0}) \cup PendingClient

\* Mutant: a stop forgets that a start is under way.
StopInhibitorStarting ==
    /\ seq' = seq + 1
    /\ proc' = 0 /\ dbus' = 0 /\ pending' = 0 /\ cleanup' = 0
    /\ children' = children \ {proc}
    /\ tasks' = {Taken(t) : t \in tasks}
    /\ holding' = holding \ ToClose
    /\ releasing' = releasing \cup ToClose
    /\ UNCHANGED starting

StopInhibitor ==
    /\ seq' = seq + 1
    /\ proc' = 0 /\ dbus' = 0 /\ pending' = 0 /\ cleanup' = 0 /\ starting' = FALSE
    /\ children' = children \ {proc}
    /\ tasks' = {Taken(t) : t \in tasks}
    /\ holding' = holding \ ToClose
    /\ releasing' = releasing \cup ToClose

\* cancelPendingStart, which leaves a start alone that a later one or a stop
\* has overtaken.
CancelPendingStart(t) ==
    IF t.token # seq
    THEN /\ tasks' = tasks \ {t}
         /\ UNCHANGED <<seq, proc, pending, starting, children, holding, releasing>>
    ELSE /\ seq' = seq + 1 /\ pending' = 0 /\ starting' = FALSE
         /\ proc' = IF proc = t.token THEN 0 ELSE proc
         /\ children' = IF proc = t.token THEN children \ {proc} ELSE children
         /\ tasks' = tasks \ {t}
         /\ holding' = holding \ PendingClient
         /\ releasing' = releasing \cup PendingClient

StartIsStale(t) == t.token # seq \/ t.gen # gen

PendingStartIsCurrent(t) == pending = t.token /\ ~StartIsStale(t)

-----------------------------------------------------------------------------
\* The rest of startInhibitor once D-Bus has answered; d is the client or 0.
FinishStart(t, d) ==
    /\ starting' = FALSE /\ dbus' = d /\ tasks' = tasks \ {t}
    /\ UNCHANGED <<seq, proc, children>>

\* dbusFactory returns a client, or fails.
FactoryDone(t) ==
    /\ t.pc = "factory"
    /\ IF PendingStartIsCurrent(t)
       THEN \/ /\ tasks' = (tasks \ {t}) \cup {[t EXCEPT !.pc = "inhibit", !.has = TRUE]}
               /\ holding' = holding \cup {t.token}
               /\ UNCHANGED <<seq, proc, dbus, pending, starting, children, releasing>>
            \/ /\ world.fails /\ pending' = 0 /\ FinishStart(t, 0)
               /\ UNCHANGED <<holding, releasing>>
       ELSE CancelPendingStart(t) /\ UNCHANGED dbus
    /\ UNCHANGED <<cleanup, session, settings, counters>>

\* client.inhibit returns, or fails; after a failure the client is closed.
InhibitDone(t) ==
    /\ t.pc = "inhibit"
    /\ IF PendingStartIsCurrent(t)
       THEN \/ /\ pending' = 0 /\ FinishStart(t, t.token)
               /\ UNCHANGED <<holding, releasing>>
            \/ /\ world.fails /\ pending' = 0
               /\ tasks' = (tasks \ {t}) \cup {[t EXCEPT !.pc = "failed", !.has = FALSE]}
               /\ holding' = holding \ {t.token} /\ releasing' = releasing \cup {t.token}
               /\ UNCHANGED <<seq, proc, dbus, starting, children>>
       ELSE CancelPendingStart(t) /\ UNCHANGED dbus
    /\ UNCHANGED <<cleanup, session, settings, counters>>

FailedClientClosed(t) ==
    /\ t.pc = "failed" /\ t.token \notin releasing
    /\ IF StartIsStale(t)
       THEN CancelPendingStart(t) /\ UNCHANGED dbus
       ELSE FinishStart(t, 0) /\ UNCHANGED <<pending, holding, releasing>>
    /\ UNCHANGED <<cleanup, session, settings, counters>>

Closed(c) ==
    /\ releasing' = releasing \ {c}
    /\ cleanup' = IF cleanup = c THEN 0 ELSE cleanup
    /\ UNCHANGED <<seq, proc, dbus, pending, starting, tasks, children, holding>>
    /\ UNCHANGED <<session, settings, counters>>

\* handleChildFailure
ChildFails(c) ==
    /\ world.fails
    /\ children' = children \ {c}
    /\ proc' = IF proc = c /\ c = seq THEN 0 ELSE proc
    /\ UNCHANGED <<seq, dbus, pending, cleanup, starting, tasks, holding, releasing>>
    /\ UNCHANGED <<session, settings, counters>>

\* applyDbusFailure
DbusFails ==
    /\ world.fails /\ dbus # 0 /\ dbus = seq
    /\ dbus' = 0 /\ cleanup' = dbus
    /\ holding' = holding \ {dbus} /\ releasing' = releasing \cup {dbus}
    /\ UNCHANGED <<seq, proc, pending, starting, tasks, children>>
    /\ UNCHANGED <<session, settings, counters>>

-----------------------------------------------------------------------------
Event == events < MaxEvents /\ events' = events + 1

SessionStart ==
    /\ phase = "off" /\ Event
    /\ phase' = "live" /\ gen' = gen + 1 /\ mode' = saved
    /\ UNCHANGED <<inhibitor, running, turns, waits, saved, op, modes>>

AgentStart ==
    /\ phase = "live" /\ ~running /\ Event
    /\ running' = TRUE /\ turns' = turns + 1
    /\ StartInhibitor(mode)
    /\ UNCHANGED <<phase, gen, waits, settings, modes>>

AgentEnd ==
    /\ phase = "live" /\ running /\ Event
    /\ running' = FALSE /\ turns' = IF turns = 0 THEN 0 ELSE turns - 1
    /\ IF turns' = 0 THEN StopInhibitor ELSE UNCHANGED inhibitor
    /\ UNCHANGED <<phase, gen, waits, settings, modes>>

\* /caffeinate stop
StopCaffeinate ==
    /\ phase = "live" /\ Event
    /\ turns' = 0 /\ StopInhibitor
    /\ UNCHANGED <<phase, gen, running, waits, settings, modes>>

SessionShutdown ==
    /\ phase = "live" /\ Event
    /\ phase' = "shutting" /\ gen' = gen + 1 /\ turns' = 0 /\ running' = FALSE
    /\ waits' = ToClose /\ StopInhibitor
    /\ UNCHANGED <<settings, modes>>

SessionShutdownEnds ==
    /\ phase = "shutting" /\ waits \cap releasing = {} /\ op.pc = "idle"
    /\ phase' = "off" /\ waits' = {}
    /\ UNCHANGED <<inhibitor, gen, running, turns, settings, counters>>

-----------------------------------------------------------------------------
Current == op.gen = gen

\* setModeNow up to its first await.
SetMode(m) ==
    /\ phase = "live" /\ op.pc = "idle" /\ modes < MaxModes /\ Event
    /\ modes' = modes + 1
    /\ LET restart == HasActiveInhibitor /\ mode # m
           begun == [Idle EXCEPT !.gen = gen, !.mode = m, !.prev = mode, !.restart = restart]
       IN IF restart
          THEN /\ mode' = m /\ StopInhibitor
               /\ op' = [begun EXCEPT !.pc = "stopping", !.closing = ToClose]
          ELSE op' = [begun EXCEPT !.pc = "saving"] /\ UNCHANGED <<mode, inhibitor>>
    /\ UNCHANGED <<session, saved>>

\* The operation's calls of stopInhibitor and startInhibitor have returned.
StopReturned == op.closing \cap releasing = {}
StartReturned == \A t \in tasks : t.token # op.token

GiveUp == op' = Idle /\ UNCHANGED <<mode, saved, inhibitor>>

StartIn(m, pc) ==
    /\ StartInhibitor(m) /\ mode' = m
    /\ op' = [op EXCEPT !.pc = pc, !.closing = {}, !.token = Awaited]
    /\ UNCHANGED saved

\* Mutant: an operation of an earlier session does not return.
ModeStoppedStuck ==
    /\ op.pc = "stopping" /\ StopReturned /\ Current
    /\ StartIn(mode, "restarting")
    /\ UNCHANGED <<session, counters>>

ModeStopped ==
    /\ op.pc = "stopping" /\ StopReturned
    /\ IF Current THEN StartIn(mode, "restarting") ELSE GiveUp
    /\ UNCHANGED <<session, counters>>

ModeRestarted ==
    /\ op.pc = "restarting" /\ StartReturned
    /\ IF ~Current THEN GiveUp
       ELSE IF HasActiveInhibitor
            THEN op' = [op EXCEPT !.pc = "saving", !.token = 0] /\ UNCHANGED <<mode, saved, inhibitor>>
            ELSE StartIn(op.prev, "rollingBack")
    /\ UNCHANGED <<session, counters>>

\* The settings file is written, and the mode becomes that of the session.
ModeSaved ==
    /\ op.pc = "saving"
    /\ saved' = op.mode /\ op' = Idle
    /\ mode' = IF Current THEN op.mode ELSE mode
    /\ UNCHANGED <<inhibitor, session, counters>>

ModeNotSaved ==
    /\ op.pc = "saving" /\ world.fails
    /\ IF Current /\ op.restart
       THEN /\ mode' = op.prev /\ StopInhibitor
            /\ op' = [op EXCEPT !.pc = "unsaving", !.closing = ToClose]
            /\ UNCHANGED saved
       ELSE GiveUp
    /\ UNCHANGED <<session, counters>>

ModeUnsaved ==
    /\ op.pc = "unsaving" /\ StopReturned
    /\ IF Current THEN StartIn(mode, "restoring") ELSE GiveUp
    /\ UNCHANGED <<session, counters>>

ModeRestored ==
    /\ op.pc \in {"rollingBack", "restoring"} /\ StartReturned
    /\ GiveUp
    /\ UNCHANGED <<session, counters>>

-----------------------------------------------------------------------------
\* What ends by itself: D-Bus calls have deadlines, files are written.
Progress ==
    \/ \E t \in tasks : FactoryDone(t) \/ InhibitDone(t) \/ FailedClientClosed(t)
    \/ \E c \in releasing : Closed(c)
    \/ ModeStopped \/ ModeRestarted \/ ModeSaved \/ ModeNotSaved \/ ModeUnsaved \/ ModeRestored
    \/ SessionShutdownEnds

Next ==
    /\ \/ Progress
       \/ \E c \in children : ChildFails(c)
       \/ DbusFails
       \/ SessionStart \/ AgentStart \/ AgentEnd \/ StopCaffeinate \/ SessionShutdown
       \/ \E m \in Modes : SetMode(m)
    /\ UNCHANGED world

Spec == Init /\ [][Next]_vars

FairSpec == Spec /\ WF_state(Progress)

-----------------------------------------------------------------------------
\* Nothing waits that could still change what is active.
Settled == tasks = {} /\ op.pc = "idle"

(***************************************************************************)
(* Every process that was not told to end and every client that may hold   *)
(* the screen saver is one that the next stop will find, however starts    *)
(* and stops overtake each other.                                          *)
(***************************************************************************)
NoOrphans ==
    /\ children \subseteq {proc}
    /\ holding \subseteq {dbus} \cup PendingClient

(***************************************************************************)
(* What the state takes for active is active: otherwise no later start     *)
(* would do anything.                                                      *)
(***************************************************************************)
ActiveIsReal ==
    /\ proc # 0 => proc \in children
    /\ dbus # 0 => dbus \in holding

(***************************************************************************)
(* When the shutdown of the session has returned, nothing keeps the        *)
(* computer awake.                                                         *)
(***************************************************************************)
ReleasedAfterShutdown == phase = "off" => children = {} /\ holding = {}

(***************************************************************************)
(* While the agent runs and nobody has stopped it, the computer is kept    *)
(* awake, if nothing fails and the platform has a command for it.          *)
(***************************************************************************)
AwakeWhileRunning ==
    world.command /\ ~world.fails /\ turns > 0 /\ Settled => HasActiveInhibitor

(***************************************************************************)
(* The inhibitor is released when the run ends, also when the run ends     *)
(* while its inhibitor still starts; unless the mode was changed, because  *)
(* setModeNow starts inhibitors without asking whether a run is under way. *)
(***************************************************************************)
AwakeOnlyWhileRunning == modes = 0 /\ HasActiveInhibitor /\ Settled => turns > 0

(***************************************************************************)
(* A shutdown returns, although it waits for mode operations which wait    *)
(* for starts that the shutdown itself has cancelled.                      *)
(***************************************************************************)
ShutdownReturns == phase = "shutting" ~> phase = "off"

(***************************************************************************)
(* The state knows every inhibitor there is, and no other.                 *)
(***************************************************************************)
InhibitorsAreKnown == NoOrphans /\ ActiveIsReal

(***************************************************************************)
(* The computer is kept awake while the agent runs, and not longer.        *)
(***************************************************************************)
AwakeWithTheRun == AwakeWhileRunning /\ AwakeOnlyWhileRunning

(***************************************************************************)
(* A shutdown returns, and has released everything then.                   *)
(***************************************************************************)
ShutdownReleases == []ReleasedAfterShutdown /\ ShutdownReturns

-----------------------------------------------------------------------------
(***************************************************************************)
(* The inductive invariant behind the safety properties.                   *)
(***************************************************************************)
\* What is active or under way belongs to the latest token; 0 is not one.
TokensAreLatest ==
    /\ {proc, dbus, pending} \subseteq {0, seq}
    /\ 0 \notin children /\ 0 \notin holding
    /\ pending # 0 => starting
    /\ starting => dbus = 0

\* A task of the latest token belongs to the session that is live, and to the
\* pending start until that has failed; its client is held, or none yet.
TasksFollowTokens ==
    /\ \A t \in tasks : t.token \in 1..seq
    /\ \A t, u \in tasks : t.token = u.token => t = u
    /\ \A t \in tasks : t.has => t.pc = "inhibit"
    /\ \A t \in tasks : t.token = seq =>
          /\ dbus = 0 /\ phase = "live" /\ t.gen = gen
          /\ pending = seq <=> t.pc # "failed"
          /\ t.pc = "inhibit" => t.has /\ t.token \in holding

\* Outside a live session nothing is active, and no operation is current.
QuietWhenNotLive ==
    /\ phase # "live" => /\ proc = 0 /\ dbus = 0 /\ pending = 0 /\ ~starting
                         /\ turns = 0
    /\ op.pc # "idle" => /\ op.gen <= gen
                         /\ op.gen = gen <=> phase = "live"
                         /\ phase # "off"

\* Where nothing fails, what keeps the computer awake is the process, except
\* while a mode operation has stopped it to start it again.
ProcessRuns ==
    world.command /\ ~world.fails =>
        /\ starting \/ dbus # 0 => proc # 0
        /\ turns > 0 /\ op.pc \notin {"stopping", "unsaving"} => proc # 0

\* Without mode operations only a run starts inhibitors.
OnlyRunsStart ==
    modes = 0 => op.pc = "idle" /\ (HasActiveInhibitor \/ starting => turns > 0)

IInv ==
    /\ TypeOK
    /\ TokensAreLatest
    /\ TasksFollowTokens
    /\ QuietWhenNotLive
    /\ ProcessRuns
    /\ OnlyRunsStart
    /\ NoOrphans
    /\ ActiveIsReal
=============================================================================

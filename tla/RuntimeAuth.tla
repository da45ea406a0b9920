----------------------------- MODULE RuntimeAuth -----------------------------
(***************************************************************************)
(* pi-accounts applies the account that a session has selected to Pi: a    *)
(* runtime API key and a provider configuration, the overlay.  Each        *)
(* activation awaits the credential store, the OAuth provider and Pi a     *)
(* dozen times, and selections, prompts, other processes and the end of    *)
(* the session come in between.  Generations decide whose results count.   *)
(*                                                                         *)
(* Source: packages/pi-accounts/src/runtime-auth.ts (the coordinator) and  *)
(* accounts.ts (syncProvider, the events and commands), for one provider,  *)
(* one that needs the API key bridge.  A session owns one coordinator; the *)
(* next session starts when the last is shut down.  A call of syncProvider *)
(* is a task.  An API key and an overlay are named by the login they stand *)
(* for.  Catalogs of models, the availability of a model and the texts of  *)
(* errors are left out; the awaits of the catalog are there.               *)
(***************************************************************************)
EXTENDS Integers, Sequences

CONSTANTS
    Accounts,       \* the named accounts of the provider
    Saved, Old,     \* those with a stored credential, and with one to refresh
    Restored,       \* the selections that sessions start with, Failing if invalid
    MaxSessions,    \* bound on sessions
    MaxVersions,    \* bound on the credentials issued to an account
    MaxCalls,       \* bound on selections, prompts and shutdowns
    MaxUpsets       \* bound on failing calls and on what others do

Default == "default"
Failing == "failing"

ASSUME RuntimeAuthAssumption ==
    /\ Default \notin Accounts /\ Failing \notin Accounts
    /\ Saved \subseteq Accounts /\ Old \subseteq Saved
    /\ Restored \subseteq Accounts \cup {Default, Failing}
    /\ MaxSessions \in Nat /\ MaxVersions \in Nat \ {0} /\ MaxCalls \in Nat /\ MaxUpsets \in Nat

VARIABLES
    store,      \* the version of each account's stored credential, 0 if none
    expired,    \* the accounts whose stored credential must be refreshed
    issued,     \* the newest version issued to each account
    lock,       \* the task that refreshes under the lock of the store, or 0
    update,     \* the update of the store by the refresh under way
    key, conf,  \* in Pi: the login of the runtime API key and of the overlay
    coord,      \* the coordinator of the session (those of earlier sessions stay)
    ses,        \* the session and its SessionSelectionOwner
    task,       \* the calls of syncProvider, in the order they were made
    refused,    \* Pi has failed to remove the runtime key of a session that ended
    calls, upsets   \* counters for the bounds

vars == <<store, expired, issued, lock, update, key, conf, coord, ses, task, refused, calls, upsets>>

-----------------------------------------------------------------------------
Login == [acct : Accounts \cup {Default, Failing}, v : Nat]
LoginOf(a, v) == [acct |-> a, v |-> v]
DefaultLogin == LoginOf(Default, 0)     \* no runtime key; the configuration of Pi
FailClosedLogin == LoginOf(Failing, 0)
Unset == LoginOf(Failing, 1)            \* of a variable that holds none

Selections == Accounts \cup {Default}

\* gen, cgen, rgen: the task that holds the newest generation of the overlay,
\* of the runtime key and of the refresh signal, 0 if no task does.  queue: the
\* mutations of the runtime key that wait or run, by their task, 0 for that of
\* the shutdown.  set: appliedApiKey.  may: mayHaveOverride.
Coordinator ==
    [gen : Nat, cgen : Nat, rgen : Nat, owned : BOOLEAN, previous : Login,
     queue : Seq(Nat), set : Login, may : BOOLEAN,
     pending : Login, offer : Login]

NewCoordinator ==
    [gen |-> 0, cgen |-> 0, rgen |-> 0, owned |-> FALSE, previous |-> DefaultLogin,
     queue |-> <<>>, set |-> Unset, may |-> FALSE,
     pending |-> Unset, offer |-> Unset]

Result == [status : {"none", "inactive", "active", "error"}, acct : Selections \cup {Failing}]
NoResult == [status |-> "none", acct |-> Default]
Inactive == [status |-> "inactive", acct |-> Default]
Active(a) == [status |-> "active", acct |-> a]
Error(a) == [status |-> "error", acct |-> a]

Waiting == {"read", "refresh", "refreshing", "recheck", "auth", "set", "setting", "match",
            "catalog", "verify", "clear", "restore", "conns", "credential"}

\* v0, v: the credential before the refresh and the one in use.  answer: that of the
\* refresh.  mode: activates the
\* account, or fails closed, "forced" if the connections could not be invalidated.
Task ==
    [pc : Waiting \cup {"done"}, own : Nat, acct : Selections \cup {Failing}, menu : BOOLEAN,
     aborted : BOOLEAN, v0 : Nat, v : Nat, answer : Nat,
     key : Login, force : BOOLEAN, mode : {"account", "fail", "forced"}, res : Result]

NewTask(o, a, menu) ==
    [pc |-> "read", own |-> o, acct |-> a, menu |-> menu, aborted |-> FALSE,
     v0 |-> 0, v |-> 0, answer |-> 0,
     key |-> Unset, force |-> FALSE, mode |-> "account", res |-> NoResult]

\* bad: the selection could not be restored.  run, turn: before_agent_start
\* waits for task turn.  abort: the turn that comes is aborted.
NewSession(n) ==
    [n |-> n, phase |-> "init", sel |-> Default, bad |-> FALSE, res |-> NoResult,
     ident |-> Unset, run |-> "no", turn |-> 0, abort |-> FALSE]

\* What withLockAsync knows of a refresh: the file as the task has read it under
\* the lock, and whether it was told that it has lost the lock.
Update ==
    [by : Nat, told : BOOLEAN, store : [Accounts -> 0..MaxVersions], expired : SUBSET Accounts]
NoUpdate == [by |-> 0, told |-> FALSE, store |-> [a \in Accounts |-> 0], expired |-> {}]

TypeOK ==
    /\ store \in [Accounts -> 0..MaxVersions] /\ issued \in [Accounts -> 0..MaxVersions]
    /\ expired \subseteq Accounts /\ lock \in Nat /\ update \in Update
    /\ key \in Login /\ conf \in Login
    /\ coord \in Seq(Coordinator) /\ task \in Seq(Task)
    /\ ses \in [n : Nat, phase : {"off", "init", "up", "closing", "down"}, sel : Selections,
                bad : BOOLEAN, res : Result, ident : Login, run : {"no", "starting", "ready"},
                turn : Nat, abort : BOOLEAN]
    /\ refused \in BOOLEAN /\ calls \in 0..MaxCalls /\ upsets \in 0..MaxUpsets

Init ==
    /\ store = [a \in Accounts |-> IF a \in Saved THEN 1 ELSE 0] /\ issued = store
    /\ expired = Old
    /\ lock = 0 /\ update = NoUpdate /\ key = DefaultLogin /\ conf = DefaultLogin
    /\ coord = <<>> /\ task = <<>>
    /\ ses = [NewSession(0) EXCEPT !.phase = "off"]
    /\ refused = FALSE /\ calls = 0 /\ upsets = 0

-----------------------------------------------------------------------------
(* What a task works on: its coordinator, itself, the overlay, the session. *)
World(t) == [c |-> coord[task[t].own], k |-> task[t], conf |-> conf, s |-> ses]

Commit(t, w) ==
    /\ coord' = [coord EXCEPT ![task[t].own] = w.c]
    /\ task' = [task EXCEPT ![t] = w.k]
    /\ conf' = w.conf
    /\ ses' = w.s

Latest == Len(task)

IsOwnerCurrent(w) == w.k.own = w.s.n /\ w.s.phase = "up"

Aborted(w, t) == w.c.rgen # t \/ w.k.aborted \/ ~IsOwnerCurrent(w)

IsCurrent(w, t) == w.c.gen = t

At(w, pc) == [w EXCEPT !.k.pc = pc]

NoOffers(w) == [w EXCEPT !.c.pending = Unset, !.c.offer = Unset]

BeginOperation(w, t) == [w EXCEPT !.c.gen = t, !.c.cgen = t]

\* RuntimeProviderOverlay.apply and remove, for an operation that is current.
ApplyOverlay(w, l) ==
    [w EXCEPT !.conf = l, !.c.owned = TRUE, !.c.previous = IF w.c.owned THEN @ ELSE w.conf]

RemoveOverlay(w) ==
    IF w.c.owned THEN [w EXCEPT !.conf = w.c.previous, !.c.owned = FALSE] ELSE w

-----------------------------------------------------------------------------
(* The end of syncProvider, after ensureActive has returned r. *)

\* Mutant: an older task does not see that there is a newer one.
SupersededNever(w, t) == ~IsOwnerCurrent(w)

Superseded(w, t) == ~IsOwnerCurrent(w) \/ Latest # t

\* before_agent_start has the result it waits for.
TurnReady(s, r) == [s EXCEPT !.run = "ready", !.turn = 0, !.abort = r.status = "error"]

\* The task is over; a superseded one returns the latest, which may be done.
End(w, t, r) ==
    [w EXCEPT
        !.k = [NewTask(@.own, Default, FALSE) EXCEPT !.pc = "done", !.res = r],
        !.s = IF @.turn # t THEN @
              ELSE IF ~IsOwnerCurrent(w) THEN [@ EXCEPT !.run = "no", !.turn = 0]
              ELSE IF Latest = t THEN TurnReady(@, r)
              ELSE IF task[Latest].pc = "done" THEN TurnReady(@, task[Latest].res)
              ELSE [@ EXCEPT !.turn = Latest]]

PublishCredentialOffer(w, t, r) ==
    [w EXCEPT !.c.offer = IF r.status = "active" /\ IsCurrent(w, t)
                          THEN w.c.pending ELSE Unset,
              !.c.pending = Unset]

Publish(w, t, r) ==
    LET p == PublishCredentialOffer(w, t, r) IN End([p EXCEPT !.s.res = r], t, r)

\* getAppliedAuthIdentity
Identity(w, r) ==
    CASE r.status = "active" -> w.c.pending
      [] r.status = "error" -> LoginOf(r.acct, 0)
      [] OTHER -> DefaultLogin

ShouldInvalidate(w, id) == w.s.ident # id /\ ~(w.s.ident = Unset /\ id = DefaultLogin)

Settle(w, t, r) ==
    IF Superseded(w, t) THEN End(w, t, Inactive)
    ELSE IF w.k.mode = "forced" THEN Publish(w, t, r)
    ELSE IF ShouldInvalidate(w, Identity(w, r)) THEN [At(w, "conns") EXCEPT !.k.res = r]
    ELSE Publish([w EXCEPT !.s.ident = Identity(w, r)], t, r)

-----------------------------------------------------------------------------
(* ensureActive *)

Enqueue(w, t) == [w EXCEPT !.c.queue = Append(@, t)]

FailClosed(w, t) ==
    IF ~IsCurrent(w, t) THEN Settle(w, t, Inactive)
    ELSE [Enqueue(At(ApplyOverlay(NoOffers(w), FailClosedLogin), "set"), t)
            EXCEPT !.k.key = FailClosedLogin, !.k.force = FALSE,
                   !.k.acct = IF @ = Default THEN Failing ELSE @,
                   !.k.mode = IF @ = "forced" THEN @ ELSE "fail"]

EnsureActive(w, t) ==
    LET b == [BeginOperation(At(NoOffers(w), "read"), t) EXCEPT !.c.rgen = t]
    IN IF b.k.aborted THEN FailClosed(b, t) ELSE b

\* The credential in use is not the stored one any more.
Retry(w, t) == IF IsCurrent(w, t) THEN EnsureActive(w, t) ELSE Settle(w, t, Inactive)

\* Steps of task t, at pc; a step may fail, and then the rest of it is Failed.
Step(t, pc) == task[t].pc = pc /\ UNCHANGED <<store, expired, issued, lock, update, key, refused>>
counters == <<calls, upsets>>
NoFault == UNCHANGED counters
Call == calls < MaxCalls /\ calls' = calls + 1 /\ UNCHANGED upsets
Upset == upsets < MaxUpsets /\ upsets' = upsets + 1 /\ UNCHANGED calls
Fault == Upset

Stored(t) == IF task[t].acct \in Accounts THEN store[task[t].acct] ELSE 0

Read(t) ==
    /\ Step(t, "read")
    /\ LET w == World(t) IN
       \/ /\ lock = 0 /\ NoFault
          /\ Commit(t,
               IF Aborted(w, t) THEN FailClosed(w, t)
               ELSE IF w.k.acct = Default THEN [Enqueue(At(w, "clear"), t) EXCEPT !.c.cgen = 0]
               ELSE IF Stored(t) = 0 THEN FailClosed(w, t)
               ELSE [At(w, IF w.k.acct \in expired THEN "refresh" ELSE "auth")
                        EXCEPT !.k.v = Stored(t)])
       \/ Fault /\ Commit(t, FailClosed(w, t))

-----------------------------------------------------------------------------
(* The store of the credentials, shared with other sessions and processes. *)

\* The updates of one process wait for each other, whatever becomes of the lock.
Serialized == lock = 0 /\ update.by = 0

\* updateProviderAsync has the lock and reads the store again; the OAuth
\* provider issues a new credential at some time before it answers.
LockStore(t) ==
    /\ task[t].pc = "refresh"
    /\ LET w == [World(t) EXCEPT !.k.v = Stored(t)]
           a == task[t].acct IN
       \/ /\ Serialized /\ NoFault
          /\ \/ /\ Stored(t) # 0 /\ a \in expired /\ ~Aborted(w, t)
                /\ issued[a] < MaxVersions
                /\ issued' = [issued EXCEPT ![a] = @ + 1]
                /\ Commit(t, [At(w, "refreshing") EXCEPT !.k.answer = issued'[a],
                                                         !.k.v0 = task[t].v])
                /\ lock' = t
                /\ update' = [by |-> t, told |-> FALSE, store |-> store, expired |-> expired]
             \/ /\ Stored(t) = 0 \/ a \notin expired \/ Aborted(w, t)
                /\ Commit(t, IF Stored(t) = 0 THEN FailClosed(World(t), t)
                             ELSE IF a \notin expired THEN At(w, "auth") ELSE At(w, "recheck"))
                /\ UNCHANGED <<issued, lock, update>>
       \/ Fault /\ Commit(t, At(World(t), "recheck")) /\ UNCHANGED <<issued, lock, update>>
    /\ UNCHANGED <<store, expired, key, refused>>

Unlocked(t) == IF lock = t THEN 0 ELSE lock

\* Mutant: the loss of the lock is not looked at before the store is written.
CompromisedNever == FALSE

\* throwIfCompromised, which knows of a lost lock only what it was told.
Compromised == update.told

UpdateEnds(t) == update' = NoUpdate /\ lock' = Unlocked(t)

Unwritten == UNCHANGED <<store, expired>>

\* The whole file is written as it was read.
WriteBack == store' = update.store /\ expired' = update.expired

\* The provider has answered: the new credential is written into the file that
\* was read, which is written without it if the operation is over by now.  A
\* lost lock drops it, and the task has its credential of before the update.
Refreshed(t) ==
    /\ task[t].pc = "refreshing" /\ update.by = t
    /\ LET w == [World(t) EXCEPT !.k.answer = 0, !.k.v0 = 0]
           a == task[t].acct
           new == task[t].answer IN
       \/ /\ Compromised /\ Unwritten
          /\ Commit(t, [At(w, "recheck") EXCEPT !.k.v = task[t].v0])
       \/ /\ ~Compromised /\ Aborted(w, t) /\ WriteBack
          /\ Commit(t, At(w, "recheck"))
       \/ /\ ~Compromised /\ ~Aborted(w, t)
          /\ store' = [update.store EXCEPT ![a] = new]
          /\ expired' = update.expired \ {a}
          /\ Commit(t, [At(w, "auth") EXCEPT !.k.v = new])
    /\ UpdateEnds(t)
    /\ UNCHANGED <<issued, key, refused, calls, upsets>>

\* The provider has failed, or the file cannot be written.
RefreshFails(t) ==
    /\ task[t].pc = "refreshing" /\ update.by = t /\ Fault
    /\ LET w == [World(t) EXCEPT !.k.answer = 0, !.k.v0 = 0] IN
       \/ ~Compromised /\ WriteBack /\ Commit(t, At(w, "recheck"))
       \/ Unwritten /\ Commit(t, [At(w, "recheck") EXCEPT !.k.v = task[t].v0])
    /\ UpdateEnds(t)
    /\ UNCHANGED <<issued, key, refused>>

\* selectedCredentialMatches after a failed refresh or conversion.
Recheck(t) ==
    /\ Step(t, "recheck")
    /\ LET w == World(t) IN
       \/ /\ lock = 0 /\ NoFault
          /\ Commit(t, IF Stored(t) = w.k.v THEN FailClosed(w, t) ELSE Retry(w, t))
       \/ Fault /\ Commit(t, FailClosed(w, t))

\* toAuth, which checks nothing when it returns, and selectedCredentialMatches.
ToAuth(t) ==
    /\ Step(t, "auth")
    /\ LET w == World(t)
           l == LoginOf(w.k.acct, w.k.v) IN
       \/ /\ lock = 0 /\ NoFault
          /\ Commit(t,
               IF Stored(t) # w.k.v THEN Retry(w, t)
               ELSE IF Aborted(w, t) THEN FailClosed(w, t)
               ELSE [Enqueue(At(ApplyOverlay(w, l), "set"), t) EXCEPT !.k.key = l])
       \/ Fault /\ (Commit(t, At(w, "recheck")) \/ Commit(t, FailClosed(w, t)))

\* The catalog, where a change is seen at once or after the next await, which
\* is selectedCredentialMatches.
RefreshCatalog(t) ==
    /\ Step(t, "catalog")
    /\ LET w == World(t) IN
       \/ /\ lock = 0 /\ NoFault
          /\ Commit(t, IF Stored(t) # w.k.v THEN Retry(w, t)
                       ELSE IF Aborted(w, t) THEN FailClosed(w, t)
                       ELSE At(w, "verify"))
       \/ NoFault /\ Aborted(w, t) /\ Commit(t, FailClosed(w, t))
       \/ Fault /\ Commit(t, FailClosed(w, t))

VerifyOverlay(t) ==
    /\ Step(t, "verify")
    /\ LET w == World(t) IN
       \/ /\ NoFault
          /\ Commit(t,
               IF Aborted(w, t) \/ conf # w.k.key THEN FailClosed(w, t)
               ELSE Settle([w EXCEPT !.c.pending = w.k.key], t, Active(w.k.acct)))
       \/ Fault /\ Commit(t, FailClosed(w, t))

-----------------------------------------------------------------------------
(* RuntimeApiKeyController: the mutations of a coordinator run one by one. *)

IsNext(t) == LET q == coord[task[t].own].queue IN q # <<>> /\ Head(q) = t

Dequeue(w) == [w EXCEPT !.c.queue = Tail(@)]

\* Mutant: the generation is not checked when the turn has come.
SetBeginsStale(t) ==
    /\ Step(t, "set") /\ IsNext(t) /\ NoFault
    /\ LET w == World(t) IN
       Commit(t, IF ~w.k.force /\ w.c.set = w.k.key THEN At(Dequeue(w), "match")
                 ELSE [At(w, "setting") EXCEPT !.c.set = Unset, !.c.may = TRUE])

SetBegins(t) ==
    /\ Step(t, "set") /\ IsNext(t) /\ NoFault
    /\ LET w == World(t) IN
       Commit(t, IF w.c.cgen # t THEN Settle(Dequeue(w), t, Inactive)
                 ELSE IF ~w.k.force /\ w.c.set = w.k.key THEN At(Dequeue(w), "match")
                 ELSE [At(w, "setting") EXCEPT !.c.set = Unset, !.c.may = TRUE])

SetEnds(t) ==
    /\ task[t].pc = "setting"
    /\ key' = task[t].key
    /\ LET w == [Dequeue(World(t)) EXCEPT !.c.set = task[t].key] IN
       Commit(t, IF w.c.cgen # t THEN Settle(w, t, Inactive) ELSE At(w, "match"))
    /\ UNCHANGED <<store, expired, issued, lock, update, refused, counters>>

\* The key cannot be applied: only an activation fails closed for that.
NotApplied(w, t) ==
    IF w.k.mode = "account" THEN FailClosed(w, t) ELSE Settle(w, t, Error(w.k.acct))

SetFails(t) ==
    /\ Step(t, "setting") /\ Fault
    /\ Commit(t, NotApplied(Dequeue(World(t)), t))

Match(t) ==
    /\ Step(t, "match")
    /\ LET w == World(t)
           mismatch == IF w.k.force THEN NotApplied(w, t)
                       ELSE [Enqueue(At(w, "set"), t) EXCEPT !.k.force = TRUE] IN
       \/ /\ NoFault
          /\ Commit(t, IF key # w.k.key THEN mismatch
                       ELSE IF w.k.mode # "account" THEN Settle(w, t, Error(w.k.acct))
                       ELSE IF Aborted(w, t) THEN FailClosed(w, t)
                       ELSE At(w, "catalog"))
       \/ Fault /\ Commit(t, mismatch)

\* restoreDefault has thrown.
RestoreFails(w, t) ==
    IF ~IsCurrent(w, t) THEN Settle(w, t, Inactive)
    ELSE FailClosed([BeginOperation(w, t) EXCEPT !.k.acct = Failing], t)

Cleared(w) == [Dequeue(w) EXCEPT !.c.set = IF w.c.may THEN Unset ELSE @, !.c.may = FALSE]

Clear(t) ==
    /\ task[t].pc = "clear" /\ IsNext(t)
    /\ LET w == World(t) IN
       \/ /\ NoFault /\ key' = (IF w.c.may THEN DefaultLogin ELSE key)
          /\ Commit(t, IF Aborted(w, t) THEN RestoreFails(Cleared(w), t) ELSE At(Cleared(w), "restore"))
       \/ /\ w.c.may /\ Fault
          /\ Commit(t, RestoreFails(Dequeue(w), t))
          /\ UNCHANGED key
    /\ UNCHANGED <<store, expired, issued, lock, update, refused>>

\* The rest of restoreDefault; the catalog is refreshed if an account had one.
Restore(t) ==
    /\ Step(t, "restore")
    /\ LET w == World(t) IN
       \/ NoFault /\ Commit(t, Settle(IF IsCurrent(w, t) THEN RemoveOverlay(w) ELSE w, t, Inactive))
       \/ NoFault /\ Aborted(w, t) /\ Commit(t, RestoreFails(w, t))
       \/ Fault /\ Commit(t, RestoreFails(w, t))

-----------------------------------------------------------------------------
(* The awaits of syncProvider *)

InvalidateConnections(t) ==
    /\ Step(t, "conns")
    /\ LET w == World(t) IN
       \/ /\ NoFault
          /\ Commit(t, IF Superseded(w, t) THEN End(w, t, Inactive)
                       ELSE Publish([w EXCEPT !.s.ident = Identity(w, w.k.res)], t, w.k.res))
       \/ /\ Fault
          /\ Commit(t, IF Superseded(w, t) THEN End(w, t, Inactive) ELSE At(w, "credential"))

\* selectedCredential, then forceFailClosed.
SelectedCredential(t) ==
    /\ Step(t, "credential")
    /\ (lock = 0 /\ NoFault) \/ Fault
    /\ LET w == World(t) IN
       Commit(t, IF Superseded(w, t) THEN End(w, t, Inactive)
                 ELSE FailClosed([BeginOperation(w, t) EXCEPT !.k.mode = "forced"], t))

-----------------------------------------------------------------------------
(* The session *)

\* syncProvider up to its first await, in a session that has become s.
SyncIn(s, menu) ==
    /\ LET t == Len(task) + 1
           k == NewTask(s.n, IF s.bad THEN Failing ELSE s.sel, menu)
           w == [c |-> coord[s.n], k |-> k, conf |-> conf, s |-> s]
           b == IF s.bad THEN FailClosed(BeginOperation(w, t), t) ELSE EnsureActive(w, t) IN
       /\ coord' = [coord EXCEPT ![s.n] = b.c]
       /\ task' = Append(task, b.k)
       /\ conf' = b.conf
       /\ ses' = b.s
    /\ UNCHANGED <<lock, update, key, refused>>

KeepStore == UNCHANGED <<store, expired, issued>>

SessionStart ==
    /\ ses.phase \in {"off", "down"} /\ ses.n < MaxSessions
    /\ ses' = NewSession(ses.n + 1)
    /\ coord' = Append(coord, NewCoordinator)
    /\ UNCHANGED <<store, expired, issued, lock, update, key, conf, task, refused, counters>>

\* The selection is restored, and syncAll begins.
SessionReady ==
    /\ ses.phase = "init"
    /\ \E a \in Restored :
         /\ SyncIn([ses EXCEPT !.phase = "up", !.sel = IF a = Failing THEN Default ELSE a,
                               !.bad = a = Failing], FALSE)
         /\ IF a = Failing THEN Fault ELSE NoFault
    /\ KeepStore

ModelSelect == ses.phase = "up" /\ Call /\ SyncIn(ses, FALSE) /\ KeepStore

BeforeAgentStart ==
    /\ ses.phase = "up" /\ ses.run = "no" /\ Call
    /\ SyncIn([ses EXCEPT !.run = "starting", !.turn = Len(task) + 1, !.abort = FALSE], FALSE)
    /\ KeepStore

TurnStart ==
    /\ ses.phase = "up" /\ ses.run = "ready"
    /\ ses' = [ses EXCEPT !.run = "no", !.abort = FALSE]
    /\ UNCHANGED <<store, expired, issued, lock, update, key, conf, coord, task, refused, counters>>

\* persistSelection
Selecting(a) == [ses EXCEPT !.sel = a, !.bad = FALSE]

SwitchAccount ==
    /\ ses.phase = "up" /\ Call
    /\ \E a \in {b \in Accounts : store[b] # 0} \cup {Default} : SyncIn(Selecting(a), TRUE)
    /\ KeepStore

LoginAccount ==
    /\ ses.phase = "up" /\ Serialized /\ Call
    /\ \E a \in Accounts :
         /\ issued[a] < MaxVersions
         /\ issued' = [issued EXCEPT ![a] = @ + 1]
         /\ store' = [store EXCEPT ![a] = issued'[a]]
         /\ expired' = expired \ {a}
         /\ SyncIn(Selecting(a), TRUE)

\* The entry of the default selection may not be saved.
RemoveAccount ==
    /\ ses.phase = "up" /\ Serialized /\ Call
    /\ \E a \in Accounts, saved \in BOOLEAN :
         /\ store[a] # 0
         /\ store' = [store EXCEPT ![a] = 0]
         /\ expired' = expired \ {a}
         /\ IF ~ses.bad /\ ses.sel = a
            THEN SyncIn(IF saved THEN Selecting(Default) ELSE ses, TRUE)
            ELSE saved /\ UNCHANGED <<lock, update, key, conf, coord, ses, task, refused>>
    /\ UNCHANGED issued

\* The menu is closed; it aborts what it has started.
MenuCloses(t) ==
    /\ task[t].menu /\ task[t].pc # "done" /\ ~task[t].aborted /\ Upset
    /\ task' = [task EXCEPT ![t].aborted = TRUE]
    /\ UNCHANGED <<store, expired, issued, lock, update, key, conf, coord, ses, refused>>

\* session_shutdown: invalidate, then clear up to its first await.
SessionShutdown ==
    /\ ses.phase \in {"init", "up"} /\ Call
    /\ LET c == coord[ses.n] IN
       /\ coord' = [coord EXCEPT ![ses.n] =
             [c EXCEPT !.gen = 0, !.cgen = 0, !.rgen = 0,
                       !.pending = Unset, !.offer = Unset, !.queue = Append(@, 0)]]
       /\ ses' = [ses EXCEPT !.phase = "closing", !.res = NoResult, !.ident = Unset,
                             !.abort = FALSE, !.run = "no", !.turn = 0]
    /\ UNCHANGED <<store, expired, issued, lock, update, key, conf, task, refused>>

ShutdownClears ==
    /\ ses.phase = "closing"
    /\ LET c == coord[ses.n]
           w == [c |-> c, conf |-> conf] IN
       /\ c.queue # <<>> /\ Head(c.queue) = 0
       /\ \/ /\ NoFault
             /\ key' = (IF c.may THEN DefaultLogin ELSE key)
             /\ LET r == IF c.gen = 0 THEN RemoveOverlay(Cleared(w)) ELSE Cleared(w) IN
                coord' = [coord EXCEPT ![ses.n] = r.c] /\ conf' = r.conf
             /\ UNCHANGED refused
          \/ /\ c.may /\ Fault /\ refused' = TRUE
             /\ coord' = [coord EXCEPT ![ses.n].queue = Tail(@)]
             /\ UNCHANGED <<key, conf>>
    /\ ses' = [ses EXCEPT !.phase = "down"]
    /\ UNCHANGED <<store, expired, issued, lock, update, task>>

-----------------------------------------------------------------------------
(* The other processes and sessions that use the store. *)

OthersChange ==
    /\ \E a \in Accounts :
         \/ /\ issued[a] < MaxVersions
            /\ issued' = [issued EXCEPT ![a] = @ + 1]
            /\ store' = [store EXCEPT ![a] = issued'[a]]
         \/ store[a] # 0 /\ store' = [store EXCEPT ![a] = 0] /\ UNCHANGED issued
    /\ expired' = {a \in expired : store'[a] = store[a]}
    /\ UNCHANGED <<key, conf, coord, ses, task, refused>>

OthersStore == lock = 0 /\ Upset /\ OthersChange /\ UNCHANGED <<lock, update>>

\* A lock that was not renewed for half a minute, while this process stood
\* still, counts as stale, and another process takes it: to read the store, or
\* to change it.  The refresh does not know.
LockTaken ==
    /\ lock # 0 /\ Upset
    /\ OthersChange \/ UNCHANGED <<store, expired, issued, key, conf, coord, ses, task, refused>>
    /\ lock' = 0 /\ UNCHANGED update

\* A refresh that has lost its lock and does not know it.
Unaware == update.by # 0 /\ lock # update.by /\ ~update.told

\* onCompromised, when the timer that renews the lock finds it gone, if it runs
\* before the refresh ends.
LockCompromised ==
    /\ Unaware /\ NoFault
    /\ update' = [update EXCEPT !.told = TRUE]
    /\ UNCHANGED <<store, expired, issued, lock, key, conf, coord, ses, task, refused>>

-----------------------------------------------------------------------------
TaskStep(t) ==
    \/ Read(t) \/ LockStore(t) \/ Refreshed(t) \/ RefreshFails(t) \/ Recheck(t)
    \/ ToAuth(t) \/ SetBegins(t) \/ SetEnds(t) \/ SetFails(t) \/ Match(t)
    \/ RefreshCatalog(t) \/ VerifyOverlay(t)
    \/ Clear(t) \/ Restore(t) \/ InvalidateConnections(t) \/ SelectedCredential(t)

Next ==
    \/ \E t \in DOMAIN task : TaskStep(t) \/ MenuCloses(t)
    \/ SessionStart \/ SessionReady \/ ModelSelect \/ BeforeAgentStart \/ TurnStart
    \/ SwitchAccount \/ LoginAccount \/ RemoveAccount
    \/ SessionShutdown \/ ShutdownClears
    \/ OthersStore \/ LockTaken \/ LockCompromised

Spec == Init /\ [][Next]_vars

-----------------------------------------------------------------------------
(* Properties *)

\* The key and the overlay in Pi are those of the selection.
Applied(s, k, cf) ==
    /\ k.acct = s.sel /\ cf = k
    /\ s.sel = Default => k = DefaultLogin

\* before_agent_start returns, and the turn is not aborted, only when Pi uses
\* the account that is selected then: there is no turn on another account or
\* on Pi's own login, whatever was switched, removed or replaced meanwhile.
TurnsAreAuthenticated ==
    [][ses.run = "starting" /\ ses'.run = "ready" /\ ~ses'.abort
          => refused \/ Applied(ses', key', conf')]_vars

\* The credential offered to other extensions is that of the session that
\* runs, of the account selected in it, and Pi uses that very credential.
OfferIsApplied ==
    \A o \in DOMAIN coord : coord[o].offer # Unset =>
        /\ o = ses.n /\ ses.phase = "up"
        /\ key = coord[o].offer /\ Applied(ses, key, conf)

\* Once session_shutdown is over, and until the next session has begun, Pi
\* has its own login and configuration again: nothing that still runs for an
\* earlier session writes to them.  Pi must let the key be removed.
ShutdownLeavesNothing ==
    ses.phase \in {"off", "down", "init"} /\ ~refused =>
        key = DefaultLogin /\ conf = DefaultLogin

\* What enters the store is the newest credential of its account, and an account
\* that was removed enters it only with a credential issued for that: a refresh
\* replaces nothing that others have stored meanwhile and brings nothing back
\* that they have removed.  The lock of the store is what protects them; a
\* refresh that has lost it and has not been told yet may still do either.
VersionsNeverGoBack ==
    [][\A a \in Accounts : store'[a] \notin {0, store[a]} =>
          \/ Unaware /\ update'.by = 0
          \/ store'[a] = issued'[a] /\ (store[a] = 0 => issued[a] < issued'[a])]_vars

\* When no activation is under way the session has the result of its last
\* selection, and Pi agrees with it; it has failed closed only if something
\* did fail, or nothing valid is selected.
RestsWithTheSelection ==
    ses.phase = "up" /\ (\A t \in DOMAIN task : task[t].pc = "done") =>
        \/ /\ ses.res.status = "error"
           /\ upsets > 0 \/ ses.bad \/ (ses.sel \in Accounts /\ store[ses.sel] = 0)
        \/ /\ ses.res = (IF ses.sel = Default THEN Inactive ELSE Active(ses.sel))
           /\ refused \/ Applied(ses, key, conf)

\* What the session shows, what it offers and what Pi uses agree, while there
\* is a session and when there is none.
AccountsAgree == OfferIsApplied /\ RestsWithTheSelection /\ ShutdownLeavesNothing
==============================================================================

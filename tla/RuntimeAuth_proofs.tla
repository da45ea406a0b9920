-------------------------- MODULE RuntimeAuth_proofs --------------------------
(***************************************************************************)
(* Proofs about RuntimeAuth, for any accounts, selections and bounds.  The *)
(* operators of a task take a world, its view of the coordinator, itself,  *)
(* the overlay and the session, to a world; a lemma for each says what it  *)
(* may change (Effect), and one lemma says that whatever is committed of   *)
(* that kind keeps the invariant.                                          *)
(*                                                                         *)
(* The second half of the module is about a session that is on: what its   *)
(* newest task is going to leave in Pi agrees with what is selected        *)
(* (AgreeInv), whatever its older tasks still do.                          *)
(***************************************************************************)
EXTENDS RuntimeAuth, TLAPS

Session ==
    [n : Nat, phase : {"off", "init", "up", "closing", "down"}, sel : Selections,
     bad : BOOLEAN, res : Result, ident : Login, run : {"no", "starting", "ready"},
     turn : Nat, abort : BOOLEAN]
Worlds == [c : Coordinator, k : Task, conf : Login, s : Session]

\* The session is on, or is being shut down.
Live == ses.phase \in {"up", "closing"}

\* There is a coordinator for each session so far, and every task belongs to one.
Shape ==
    /\ Len(coord) = ses.n
    /\ ses.n = 0 <=> ses.phase = "off"
    /\ \A t \in DOMAIN task : task[t].own \in 1 .. ses.n

\* No task of a session that has ended is current.
QuietCoordinators ==
    \A o \in 1 .. ses.n : o # ses.n \/ ses.phase # "up" =>
        coord[o].gen = 0 /\ coord[o].cgen = 0

\* A key is only being set by the first of the queue, and for a session that lasts.
OneMutation ==
    \A t \in DOMAIN task : task[t].pc = "setting" =>
        /\ task[t].own = ses.n /\ Live
        /\ coord[ses.n].queue # <<>> /\ Head(coord[ses.n].queue) = t /\ coord[ses.n].may

\* The coordinator of the session knows that there is a key, or an overlay, to remove.
KeyIsRemovable == ~refused /\ key # DefaultLogin => Live /\ coord[ses.n].may
OverlayIsRemovable ==
    /\ ~refused /\ conf # DefaultLogin => Live /\ coord[ses.n].owned
    /\ ~refused /\ Live /\ coord[ses.n].owned => coord[ses.n].previous = DefaultLogin
    /\ ses.phase = "init" => ~coord[ses.n].owned

\* The update of the store under way is that of a task that refreshes.
UpdateIsKnown ==
    update.by # 0 =>
        /\ update.by \in DOMAIN task /\ task[update.by].pc = "refreshing"
        /\ task[update.by].acct \in Accounts
        /\ task[update.by].answer \in 0 .. MaxVersions
        /\ task[update.by].answer <= issued[task[update.by].acct]

\* While the lock of the store is held its holder has the newest credential, and
\* the store as it is.
LockIsHeld ==
    lock # 0 =>
        /\ update.by = lock /\ ~update.told
        /\ update.store = store /\ update.expired = expired
        /\ task[lock].answer = issued[task[lock].acct]
        /\ store[task[lock].acct] # 0

\* What is about the coordinators, the tasks and Pi, and what is about the store.
ActivationInv ==
    /\ coord \in Seq(Coordinator) /\ task \in Seq(Task) /\ ses \in Session
    /\ key \in Login /\ conf \in Login /\ refused \in BOOLEAN
    /\ Shape /\ QuietCoordinators /\ OneMutation /\ KeyIsRemovable /\ OverlayIsRemovable
StoreInv ==
    /\ store \in [Accounts -> 0 .. MaxVersions] /\ issued \in [Accounts -> 0 .. MaxVersions]
    /\ expired \subseteq Accounts /\ lock \in Nat /\ update \in Update
    /\ \A a \in Accounts : store[a] <= issued[a] /\ update.store[a] <= issued[a]
    /\ UpdateIsKnown /\ LockIsHeld
CountersInv == calls \in 0 .. MaxCalls /\ upsets \in 0 .. MaxUpsets

IInv == ActivationInv /\ StoreInv /\ CountersInv

-----------------------------------------------------------------------------
LEMMA Values ==
  /\ {DefaultLogin, FailClosedLogin, Unset} \subseteq Login
  /\ {NoResult, Inactive} \subseteq Result
  /\ \A a \in Selections \cup {Failing} : Active(a) \in Result /\ Error(a) \in Result
  /\ \A a \in Selections \cup {Failing}, v \in Nat : LoginOf(a, v) \in Login
BY DEF DefaultLogin, FailClosedLogin, Unset, Login, LoginOf, NoResult, Inactive, Active, Error,
       Result, Selections

LEMMA NewValues ==
  /\ NewCoordinator \in Coordinator
  /\ \A o \in Nat, a \in Selections \cup {Failing}, menu \in BOOLEAN :
       NewTask(o, a, menu) \in Task /\ NewTask(o, a, menu).own = o
  /\ \A n \in Nat : NewSession(n) \in Session
<1> DEFINE default == DefaultLogin
           unset == Unset
           none == NoResult
<1>1. default \in Login /\ unset \in Login /\ none \in Result
  BY Values
<1> HIDE DEF default, unset, none
<1>2. NewCoordinator \in Coordinator
  <2>1. NewCoordinator =
          [gen |-> 0, cgen |-> 0, rgen |-> 0, owned |-> FALSE, previous |-> default,
           queue |-> <<>>, set |-> unset, may |-> FALSE, pending |-> unset, offer |-> unset]
    BY DEF NewCoordinator, default, unset
  <2> QED
    BY <1>1, <2>1 DEF Coordinator
<1>3. ASSUME NEW o \in Nat, NEW a \in Selections \cup {Failing}, NEW menu \in BOOLEAN
      PROVE  NewTask(o, a, menu) \in Task /\ NewTask(o, a, menu).own = o
  <2>1. NewTask(o, a, menu) =
          [pc |-> "read", own |-> o, acct |-> a, menu |-> menu, aborted |-> FALSE,
           v0 |-> 0, v |-> 0, answer |-> 0,
           key |-> unset, force |-> FALSE, mode |-> "account", res |-> none]
    BY DEF NewTask, unset, none
  <2> QED
    BY <1>1, <2>1 DEF Task, Waiting
<1>4. ASSUME NEW n \in Nat PROVE NewSession(n) \in Session
  <2>1. NewSession(n) =
          [n |-> n, phase |-> "init", sel |-> Default, bad |-> FALSE, res |-> none,
           ident |-> unset, run |-> "no", turn |-> 0, abort |-> FALSE]
    BY DEF NewSession, unset, none
  <2> QED
    BY <1>1, <2>1 DEF Session, Selections
<1> QED
  BY <1>2, <1>3, <1>4
-----------------------------------------------------------------------------
(***************************************************************************)
(* What the operators of a task may change.  They neither touch Pi's key   *)
(* nor start to set one, and they enqueue at most one mutation.  Only a    *)
(* task that is current, or that belongs to the session that is on, writes *)
(* the overlay or takes a generation, and it leaves an overlay that can be *)
(* removed if it finds one.                                                *)
(***************************************************************************)
SameOverlay(w, v) ==
    v.conf = w.conf /\ v.c.owned = w.c.owned /\ v.c.previous = w.c.previous
Removable(w) ==
    /\ w.conf # DefaultLogin => w.c.owned
    /\ w.c.owned => w.c.previous = DefaultLogin

Writes(w, t) == IsCurrent(w, t) \/ IsOwnerCurrent(w)

\* The same task of the same session, and what it has written.
Follows(w, v, t) ==
    /\ v \in Worlds
    /\ v.k.own = w.k.own /\ v.s.n = w.s.n /\ v.s.phase = w.s.phase /\ v.c.may = w.c.may
    /\ IF Writes(w, t) THEN v.c.gen \in {w.c.gen, t} /\ (Removable(w) => Removable(v))
       ELSE v.c.gen = w.c.gen /\ v.c.cgen = w.c.cgen /\ SameOverlay(w, v)

\* Before the task has got to its next await, and when it has.
Prelude(w, v, t) == Follows(w, v, t) /\ v.c.queue = w.c.queue
Effect(w, v, t) ==
    /\ Follows(w, v, t)
    /\ v.c.queue \in {w.c.queue, Append(w.c.queue, t)}
    /\ v.k.pc # "setting"

LEMMA Fields ==
  ASSUME NEW w \in Worlds
  PROVE  /\ w.c \in Coordinator /\ w.k \in Task /\ w.conf \in Login /\ w.s \in Session
         /\ w.c.gen \in Nat /\ w.c.cgen \in Nat /\ w.c.queue \in Seq(Nat)
         /\ w.c.owned \in BOOLEAN
         /\ w.c.previous \in Login /\ w.c.pending \in Login /\ w.c.offer \in Login
         /\ w.c.set \in Login
         /\ w.k.acct \in Selections \cup {Failing} /\ w.k.own \in Nat /\ w.k.v \in Nat
         /\ w.k.key \in Login /\ w.k.res \in Result
BY DEF Worlds, Coordinator, Task, Session

\* A part of a world is replaced.
LEMMA Parts ==
  ASSUME NEW w \in Worlds
  PROVE  /\ \A c \in Coordinator : [w EXCEPT !.c = c] \in Worlds
         /\ \A k \in Task : [w EXCEPT !.k = k] \in Worlds
         /\ \A s \in Session : [w EXCEPT !.s = s] \in Worlds
         /\ \A k \in Task, s \in Session : [w EXCEPT !.k = k, !.s = s] \in Worlds
         /\ \A l \in Login : [w EXCEPT !.conf = l] \in Worlds
BY DEF Worlds

LEMMA EndEffect ==
  ASSUME NEW w \in Worlds, task \in Seq(Task), NEW t \in DOMAIN task, NEW r \in Result
  PROVE  Effect(w, End(w, t, r), t)
<1> DEFINE new == NewTask(w.k.own, Default, FALSE)
           k == [new EXCEPT !.pc = "done", !.res = r]
           s == IF w.s.turn # t THEN w.s
                ELSE IF ~IsOwnerCurrent(w) THEN [w.s EXCEPT !.run = "no", !.turn = 0]
                ELSE IF Latest = t THEN TurnReady(w.s, r)
                ELSE IF task[Latest].pc = "done" THEN TurnReady(w.s, task[Latest].res)
                ELSE [w.s EXCEPT !.turn = Latest]
<1>1. k \in Task /\ k.own = w.k.own /\ k.pc = "done"
  <2>1. new \in Task /\ new.own = w.k.own
    <3>1. new \in Task
      BY Fields, NewValues DEF Selections
    <3> QED
      BY <3>1 DEF NewTask
  <2> HIDE DEF new
  <2> QED
    BY <2>1 DEF Task
<1>2. s \in Session /\ s.n = w.s.n /\ s.phase = w.s.phase
  <2>1. w.s \in Session
    BY Fields
  <2>2. Latest \in Nat
    BY DEF Latest
  <2>3. \A x \in Result : /\ TurnReady(w.s, x) \in Session /\ TurnReady(w.s, x).n = w.s.n
                          /\ TurnReady(w.s, x).phase = w.s.phase
    BY <2>1 DEF TurnReady, Session
  <2>4. \A x \in Nat : /\ [w.s EXCEPT !.turn = x] \in Session
                       /\ [w.s EXCEPT !.turn = x].n = w.s.n
                       /\ [w.s EXCEPT !.turn = x].phase = w.s.phase
    BY <2>1 DEF Session
  <2>5. /\ [w.s EXCEPT !.run = "no", !.turn = 0] \in Session
        /\ [w.s EXCEPT !.run = "no", !.turn = 0].n = w.s.n
        /\ [w.s EXCEPT !.run = "no", !.turn = 0].phase = w.s.phase
    BY <2>1 DEF Session
  <2>6. task[Latest].res \in Result
    <3>1. task[Latest] \in Task
      BY DEF Latest
    <3> QED
      BY <3>1 DEF Task
  <2> QED
    BY <2>1, <2>2, <2>3, <2>4, <2>5, <2>6
<1>3. End(w, t, r) = [w EXCEPT !.k = k, !.s = s]
  BY Fields DEF End, Worlds
<1> HIDE DEF k, s
<1>4. [w EXCEPT !.k = k, !.s = s] \in Worlds
  BY <1>1, <1>2, Parts
<1>5. /\ [w EXCEPT !.k = k, !.s = s].c = w.c /\ [w EXCEPT !.k = k, !.s = s].conf = w.conf
      /\ [w EXCEPT !.k = k, !.s = s].k = k /\ [w EXCEPT !.k = k, !.s = s].s = s
  BY DEF Worlds
<1> QED
  BY <1>1, <1>2, <1>3, <1>4, <1>5 DEF Effect, Follows, SameOverlay, Removable

\* A change that no Effect looks at, wherever the task goes.
Minor(w, v) ==
    /\ v \in Worlds /\ v.k.own = w.k.own /\ v.s.n = w.s.n /\ v.s.phase = w.s.phase
    /\ v.c.may = w.c.may /\ v.c.queue = w.c.queue
    /\ v.c.gen = w.c.gen /\ v.c.cgen = w.c.cgen /\ SameOverlay(w, v)

LEMMA MinorComposes ==
  ASSUME NEW u, NEW v, NEW w, Minor(u, v), Minor(v, w)
  PROVE  Minor(u, w)
BY DEF Minor, SameOverlay

LEMMA MinorIsPrelude ==
  ASSUME NEW w, NEW v, NEW t, Minor(w, v)
  PROVE  Prelude(w, v, t)
BY DEF Minor, Prelude, Follows, SameOverlay, Removable

LEMMA FollowsComposes ==
  ASSUME NEW u, NEW v, NEW w, NEW t, Follows(u, v, t), Follows(v, w, t)
  PROVE  Follows(u, w, t)
BY DEF Follows, Writes, IsCurrent, IsOwnerCurrent, SameOverlay

LEMMA PreludeThenEffect ==
  ASSUME NEW u, NEW v, NEW w, NEW t, Prelude(u, v, t), Effect(v, w, t)
  PROVE  Effect(u, w, t)
BY FollowsComposes DEF Prelude, Effect

LEMMA MinorThenEffect ==
  ASSUME NEW u, NEW v, NEW w, NEW t, Minor(u, v), Effect(v, w, t)
  PROVE  Effect(u, w, t)
BY MinorIsPrelude, PreludeThenEffect

LEMMA MinorIsEffect ==
  ASSUME NEW w, NEW v, NEW t, Minor(w, v), v.k.pc # "setting"
  PROVE  Effect(w, v, t)
BY MinorIsPrelude DEF Effect, Prelude

LEMMA SessionMinor ==
  ASSUME NEW w \in Worlds
  PROVE  /\ \A r \in Result : Minor(w, [w EXCEPT !.s.res = r])
         /\ \A l \in Login : Minor(w, [w EXCEPT !.s.ident = l])
<1>1. \A r \in Result : [w.s EXCEPT !.res = r] \in Session
  BY Fields DEF Session
<1>2. \A l \in Login : [w.s EXCEPT !.ident = l] \in Session
  BY Fields DEF Session
<1>3. w.s \in Session
  BY Fields
<1>4. ASSUME NEW r \in Result PROVE Minor(w, [w EXCEPT !.s.res = r])
  <2> DEFINE s == [w.s EXCEPT !.res = r]
  <2>1. s \in Session /\ s.n = w.s.n /\ s.phase = w.s.phase
    BY <1>1, <1>3 DEF Session
  <2>2. [w EXCEPT !.s.res = r] = [w EXCEPT !.s = s]
    BY DEF Worlds
  <2> HIDE DEF s
  <2> QED
    BY <2>1, <2>2, Parts DEF Minor, SameOverlay, Worlds
<1>5. ASSUME NEW l \in Login PROVE Minor(w, [w EXCEPT !.s.ident = l])
  <2> DEFINE s == [w.s EXCEPT !.ident = l]
  <2>1. s \in Session /\ s.n = w.s.n /\ s.phase = w.s.phase
    BY <1>2, <1>3 DEF Session
  <2>2. [w EXCEPT !.s.ident = l] = [w EXCEPT !.s = s]
    BY DEF Worlds
  <2> HIDE DEF s
  <2> QED
    BY <2>1, <2>2, Parts DEF Minor, SameOverlay, Worlds
<1> QED
  BY <1>4, <1>5

\* The fields of the task but its owner and where it is.
LEMMA TaskMinor ==
  ASSUME NEW w \in Worlds, NEW k \in Task, k.own = w.k.own
  PROVE  Minor(w, [w EXCEPT !.k = k]) /\ [w EXCEPT !.k = k].k = k
                                      /\ [w EXCEPT !.k = k].c = w.c
BY Parts DEF Minor, SameOverlay, Worlds

LEMMA CoordinatorMinor ==
  ASSUME NEW w \in Worlds, NEW c \in Coordinator, c.may = w.c.may, c.queue = w.c.queue,
         c.gen = w.c.gen, c.cgen = w.c.cgen, c.owned = w.c.owned, c.previous = w.c.previous
  PROVE  Minor(w, [w EXCEPT !.c = c]) /\ [w EXCEPT !.c = c].k = w.k
                                      /\ [w EXCEPT !.c = c].c = c
BY Parts DEF Minor, SameOverlay, Worlds

LEMMA AtMinor ==
  ASSUME NEW w \in Worlds, NEW pc \in Waiting
  PROVE  Minor(w, At(w, pc)) /\ At(w, pc).k.pc = pc /\ At(w, pc).c = w.c
         /\ At(w, pc).k.acct = w.k.acct /\ At(w, pc).conf = w.conf /\ At(w, pc).s = w.s
<1> DEFINE k == [w.k EXCEPT !.pc = pc]
<1>1. k \in Task /\ k.own = w.k.own /\ k.pc = pc /\ k.acct = w.k.acct
  BY Fields DEF Task
<1>2. At(w, pc) = [w EXCEPT !.k = k]
  BY DEF At, Worlds
<1> HIDE DEF k
<1>3. [w EXCEPT !.k = k].conf = w.conf /\ [w EXCEPT !.k = k].s = w.s
  BY DEF Worlds
<1> QED
  BY <1>1, <1>2, <1>3, TaskMinor

LEMMA NoOffersMinor ==
  ASSUME NEW w \in Worlds
  PROVE  Minor(w, NoOffers(w)) /\ NoOffers(w).k = w.k
<1> DEFINE unset == Unset
           c == [w.c EXCEPT !.pending = unset, !.offer = unset]
<1>1. unset \in Login
  BY Values
<1>2. NoOffers(w) = [w EXCEPT !.c = c]
  BY DEF NoOffers, Worlds
<1> HIDE DEF unset
<1>3. /\ c \in Coordinator /\ c.may = w.c.may /\ c.queue = w.c.queue /\ c.gen = w.c.gen
      /\ c.cgen = w.c.cgen /\ c.owned = w.c.owned /\ c.previous = w.c.previous
  BY <1>1, Fields DEF Coordinator
<1> HIDE DEF c
<1> QED
  BY <1>2, <1>3, CoordinatorMinor

LEMMA PublishEffect ==
  ASSUME NEW w \in Worlds, task \in Seq(Task), NEW t \in DOMAIN task, NEW r \in Result
  PROVE  Effect(w, Publish(w, t, r), t)
<1> DEFINE unset == Unset
           offer == IF r.status = "active" /\ IsCurrent(w, t) THEN w.c.pending ELSE unset
           c == [w.c EXCEPT !.offer = offer, !.pending = unset]
           p == [w EXCEPT !.c = c]
           q == [p EXCEPT !.s.res = r]
<1>1. unset \in Login
  BY Values
<1>2. Publish(w, t, r) = End(q, t, r)
  BY DEF Publish, PublishCredentialOffer, Worlds
<1> HIDE DEF unset
<1>3. offer \in Login
  BY <1>1, Fields
<1> HIDE DEF offer
<1>4. /\ c \in Coordinator /\ c.may = w.c.may /\ c.queue = w.c.queue /\ c.gen = w.c.gen
      /\ c.cgen = w.c.cgen /\ c.owned = w.c.owned /\ c.previous = w.c.previous
  BY <1>1, <1>3, Fields DEF Coordinator
<1> HIDE DEF c
<1>5. Minor(w, p) /\ p \in Worlds
  BY <1>4, CoordinatorMinor DEF Minor
<1> HIDE DEF p
<1>6. Minor(p, q) /\ q \in Worlds
  BY <1>5, SessionMinor DEF Minor
<1> HIDE DEF q
<1>7. Effect(q, End(q, t, r), t)
  BY <1>6, EndEffect
<1> QED
  BY <1>2, <1>5, <1>6, <1>7, MinorComposes, MinorThenEffect

LEMMA IdentityIsLogin ==
  ASSUME NEW w \in Worlds, NEW r \in Result
  PROVE  Identity(w, r) \in Login
<1>1. /\ r.acct \in Selections \cup {Failing}
      /\ r.status \in {"none", "inactive", "active", "error"}
  BY DEF Result
<1>2. LoginOf(r.acct, 0) \in Login
  BY <1>1, Values
<1> QED
  BY <1>1, <1>2, Fields, Values DEF Identity

LEMMA SettleEffect ==
  ASSUME NEW w \in Worlds, task \in Seq(Task), NEW t \in DOMAIN task, NEW r \in Result
  PROVE  Effect(w, Settle(w, t, r), t)
<1> DEFINE id == Identity(w, r)
           v == [w EXCEPT !.s.ident = id]
           u == At(w, "conns")
           k == [u.k EXCEPT !.res = r]
<1>1. id \in Login
  BY IdentityIsLogin
<1>2. Effect(w, End(w, t, Inactive), t) /\ Effect(w, Publish(w, t, r), t)
  BY EndEffect, PublishEffect, Values
<1>3. Effect(w, [u EXCEPT !.k.res = r], t)
  <2>1. Minor(w, u) /\ u \in Worlds /\ u.k.pc = "conns"
    BY AtMinor DEF Waiting, Minor
  <2> HIDE DEF u
  <2>2. k \in Task /\ k.own = u.k.own /\ k.pc = "conns"
    BY <2>1, Fields DEF Task
  <2>3. [u EXCEPT !.k.res = r] = [u EXCEPT !.k = k]
    BY <2>1 DEF Worlds
  <2> HIDE DEF k
  <2>4. Minor(u, [u EXCEPT !.k = k]) /\ [u EXCEPT !.k = k].k.pc = "conns"
    BY <2>1, <2>2, TaskMinor
  <2> QED
    BY <2>1, <2>3, <2>4, MinorComposes, MinorIsEffect
<1>4. Effect(w, Publish(v, t, r), t)
  <2> HIDE DEF id
  <2>1. Minor(w, v) /\ v \in Worlds
    BY <1>1, SessionMinor DEF Minor
  <2> HIDE DEF v
  <2> QED
    BY <2>1, PublishEffect, MinorThenEffect
<1> QED
  BY <1>2, <1>3, <1>4 DEF Settle, u, v, id

LEMMA EffectThenTask ==
  ASSUME NEW w, NEW v, NEW t, Effect(w, v, t), NEW k \in Task, k.own = v.k.own,
         k.pc # "setting"
  PROVE  Effect(w, [v EXCEPT !.k = k], t)
<1>1. v \in Worlds
  BY DEF Effect, Follows
<1>2. /\ [v EXCEPT !.k = k] \in Worlds /\ [v EXCEPT !.k = k].k = k
      /\ [v EXCEPT !.k = k].c = v.c /\ [v EXCEPT !.k = k].s = v.s
      /\ [v EXCEPT !.k = k].conf = v.conf
  BY <1>1, Parts DEF Worlds
<1> HIDE DEF Worlds
<1> QED
  BY <1>2 DEF Effect, Follows, SameOverlay, Removable

LEMMA ApplyOverlayPrelude ==
  ASSUME NEW w \in Worlds, NEW l \in Login, NEW t, Writes(w, t)
  PROVE  Prelude(w, ApplyOverlay(w, l), t) /\ ApplyOverlay(w, l).k = w.k
<1> DEFINE previous == IF w.c.owned THEN w.c.previous ELSE w.conf
           c == [w.c EXCEPT !.owned = TRUE, !.previous = previous]
           v == [w EXCEPT !.conf = l, !.c = c]
<1>1. ApplyOverlay(w, l) = v
  BY DEF ApplyOverlay, Worlds
<1>2. previous \in Login
  BY Fields
<1>3. Removable(w) => previous = DefaultLogin
  BY DEF Removable
<1> HIDE DEF previous
<1>4. /\ c \in Coordinator /\ c.may = w.c.may /\ c.queue = w.c.queue /\ c.gen = w.c.gen
      /\ c.cgen = w.c.cgen /\ c.owned = TRUE /\ c.previous = previous
  BY <1>2, Fields DEF Coordinator
<1> HIDE DEF c
<1>5. v \in Worlds
  BY <1>4 DEF Worlds
<1>6. v.k = w.k /\ v.s = w.s /\ v.conf = l /\ v.c = c
  BY DEF Worlds
<1> HIDE DEF v
<1> QED
  BY <1>1, <1>3, <1>4, <1>5, <1>6 DEF Prelude, Follows, Removable

LEMMA RemoveOverlayPrelude ==
  ASSUME NEW w \in Worlds, NEW t, Writes(w, t)
  PROVE  Prelude(w, RemoveOverlay(w), t)
<1> DEFINE c == [w.c EXCEPT !.owned = FALSE]
           v == [w EXCEPT !.conf = w.c.previous, !.c = c]
<1>1. CASE w.c.owned
  <2>1. RemoveOverlay(w) = v
    BY <1>1 DEF RemoveOverlay, Worlds
  <2>2. /\ c \in Coordinator /\ c.may = w.c.may /\ c.queue = w.c.queue /\ c.gen = w.c.gen
        /\ c.cgen = w.c.cgen /\ c.owned = FALSE
    BY Fields DEF Coordinator
  <2> HIDE DEF c
  <2>3. v \in Worlds
    BY <2>2, Fields DEF Worlds
  <2>4. v.k = w.k /\ v.s = w.s /\ v.conf = w.c.previous /\ v.c = c
    BY DEF Worlds
  <2> HIDE DEF v
  <2> QED
    BY <1>1, <2>1, <2>2, <2>3, <2>4 DEF Prelude, Follows, Removable
<1>2. CASE ~w.c.owned
  BY <1>2 DEF RemoveOverlay, Prelude, Follows
<1> QED
  BY <1>1, <1>2

\* Taking the newest generations.
LEMMA BeginPrelude ==
  ASSUME NEW w \in Worlds, NEW t \in Nat, Writes(w, t)
  PROVE  LET v == BeginOperation(w, t) IN
           Prelude(w, v, t) /\ IsCurrent(v, t) /\ v.k = w.k
<1> DEFINE c == [w.c EXCEPT !.gen = t, !.cgen = t]
           v == [w EXCEPT !.c = c]
<1>1. BeginOperation(w, t) = v
  BY DEF BeginOperation, Worlds
<1>2. /\ c \in Coordinator /\ c.may = w.c.may /\ c.queue = w.c.queue /\ c.gen = t
      /\ c.owned = w.c.owned /\ c.previous = w.c.previous
  BY Fields DEF Coordinator
<1> HIDE DEF c
<1>3. v \in Worlds
  BY <1>2, Parts
<1>4. v.k = w.k /\ v.s = w.s /\ v.conf = w.conf /\ v.c = c
  BY DEF Worlds
<1> HIDE DEF v
<1> QED
  BY <1>1, <1>2, <1>3, <1>4 DEF Prelude, Follows, Removable, IsCurrent

LEMMA EnqueueFields ==
  ASSUME NEW w \in Worlds, NEW t \in Nat
  PROVE  LET v == Enqueue(w, t) IN
           /\ v \in Worlds /\ v.k = w.k /\ v.s = w.s /\ v.conf = w.conf
           /\ v.c.may = w.c.may /\ v.c.queue = Append(w.c.queue, t)
           /\ v.c.gen = w.c.gen /\ v.c.cgen = w.c.cgen /\ SameOverlay(w, v)
<1> DEFINE q == Append(w.c.queue, t)
           c == [w.c EXCEPT !.queue = q]
<1>1. Enqueue(w, t) = [w EXCEPT !.c = c]
  BY DEF Enqueue, Worlds
<1>2. q \in Seq(Nat)
  BY Fields
<1> HIDE DEF q
<1>3. /\ c \in Coordinator /\ c.may = w.c.may /\ c.queue = q /\ c.gen = w.c.gen
      /\ c.cgen = w.c.cgen /\ c.owned = w.c.owned /\ c.previous = w.c.previous
  BY <1>2, Fields DEF Coordinator
<1> HIDE DEF c
<1>4. [w EXCEPT !.c = c] \in Worlds
  BY <1>3, Parts
<1>5. /\ [w EXCEPT !.c = c].k = w.k /\ [w EXCEPT !.c = c].s = w.s
      /\ [w EXCEPT !.c = c].conf = w.conf /\ [w EXCEPT !.c = c].c = c
  BY DEF Worlds
<1> QED
  BY <1>1, <1>3, <1>4, <1>5 DEF SameOverlay, q

\* A task that goes to pc has a mutation of the key put into the queue.
LEMMA EnqueueEffect ==
  ASSUME NEW w \in Worlds, NEW t \in Nat, NEW pc \in Waiting \ {"setting"}
  PROVE  LET v == Enqueue(At(w, pc), t) IN
           /\ Effect(w, v, t) /\ v \in Worlds /\ v.k.own = w.k.own /\ v.k.pc = pc
<1> DEFINE b == At(w, pc)
           v == Enqueue(b, t)
<1>1. Minor(w, b) /\ b.k.pc = pc /\ b \in Worlds
  BY AtMinor DEF Minor
<1> HIDE DEF b
<1>2. /\ v \in Worlds /\ v.k = b.k /\ v.s = b.s /\ v.conf = b.conf
      /\ v.c.may = b.c.may /\ v.c.queue = Append(b.c.queue, t)
      /\ v.c.gen = b.c.gen /\ v.c.cgen = b.c.cgen /\ SameOverlay(b, v)
  BY <1>1, EnqueueFields
<1> HIDE DEF v
<1>3. Effect(b, v, t)
  BY <1>1, <1>2 DEF Effect, Follows, SameOverlay, Removable
<1> QED
  BY <1>1, <1>2, <1>3, MinorThenEffect DEF Minor, b, v

\* The overlay is written first.
LEMMA ApplyEffect ==
  ASSUME NEW w \in Worlds, NEW l \in Login, NEW t \in Nat, Writes(w, t)
  PROVE  LET v == Enqueue(At(ApplyOverlay(w, l), "set"), t) IN
           /\ Effect(w, v, t) /\ v \in Worlds /\ v.k.own = w.k.own /\ v.k.pc = "set"
<1> DEFINE a == ApplyOverlay(w, l)
           v == Enqueue(At(a, "set"), t)
<1>1. Prelude(w, a, t) /\ a \in Worlds /\ a.k = w.k
  BY ApplyOverlayPrelude DEF Prelude, Follows
<1> HIDE DEF a
<1>2. Effect(a, v, t) /\ v \in Worlds /\ v.k.own = a.k.own /\ v.k.pc = "set"
  BY <1>1, EnqueueEffect DEF Waiting
<1> HIDE DEF v
<1> QED
  BY <1>1, <1>2, PreludeThenEffect DEF a, v

LEMMA FailClosedEffect ==
  ASSUME NEW w \in Worlds, NEW t \in Nat, task \in Seq(Task),
         IsCurrent(w, t) \/ t \in DOMAIN task
  PROVE  Effect(w, FailClosed(w, t), t)
<1>1. CASE ~IsCurrent(w, t)
  BY <1>1, SettleEffect, Values DEF FailClosed
<1>2. CASE IsCurrent(w, t)
  <2> DEFINE l == FailClosedLogin
             u == NoOffers(w)
             v == Enqueue(At(ApplyOverlay(u, l), "set"), t)
             acct == IF v.k.acct = Default THEN Failing ELSE v.k.acct
             mode == IF v.k.mode = "forced" THEN "forced" ELSE "fail"
             k == [v.k EXCEPT !.key = l, !.force = FALSE, !.acct = acct, !.mode = mode]
  <2>1. l \in Login
    BY Values
  <2>2. FailClosed(w, t) = [v EXCEPT !.k.key = l, !.k.force = FALSE, !.k.acct = acct,
                                     !.k.mode = mode]
    <3> DEFINE x == v
    <3>1. FailClosed(w, t) = [x EXCEPT !.k.key = l, !.k.force = FALSE,
                       !.k.acct = IF @ = Default THEN Failing ELSE @,
                       !.k.mode = IF @ = "forced" THEN @ ELSE "fail"]
      BY <1>2 DEF FailClosed
    <3> HIDE DEF x, l
    <3> QED
      BY <3>1 DEF x
  <2> HIDE DEF l
  <2>3. Minor(w, u) /\ u \in Worlds /\ IsCurrent(u, t)
    BY <1>2, NoOffersMinor DEF Minor, IsCurrent
  <2> HIDE DEF u
  <2>4. Effect(u, v, t) /\ v \in Worlds /\ v.k.pc = "set"
    BY <2>1, <2>3, ApplyEffect DEF Writes
  <2> HIDE DEF v
  <2>5. acct \in Selections \cup {Failing} /\ mode \in {"fail", "forced"}
    BY <2>4, Fields DEF Task
  <2> HIDE DEF acct, mode
  <2>6. k \in Task /\ k.own = v.k.own /\ k.pc = "set"
    BY <2>1, <2>4, <2>5, Fields DEF Task
  <2>7. [v EXCEPT !.k.key = l, !.k.force = FALSE, !.k.acct = acct, !.k.mode = mode]
          = [v EXCEPT !.k = k]
    BY <2>4 DEF Worlds
  <2> HIDE DEF k
  <2> QED
    BY <2>2, <2>3, <2>4, <2>6, <2>7, EffectThenTask, MinorThenEffect
<1> QED
  BY <1>1, <1>2

\* The signal of the newest refresh, the key known to be in Pi, the offer to come.
LEMMA RefreshSignalMinor ==
  ASSUME NEW w \in Worlds, NEW x \in Nat
  PROVE  Minor(w, [w EXCEPT !.c.rgen = x]) /\ [w EXCEPT !.c.rgen = x].k = w.k
<1> DEFINE c == [w.c EXCEPT !.rgen = x]
<1>1. [w EXCEPT !.c.rgen = x] = [w EXCEPT !.c = c]
  BY DEF Worlds
<1>2. /\ c \in Coordinator /\ c.may = w.c.may /\ c.queue = w.c.queue /\ c.gen = w.c.gen
      /\ c.cgen = w.c.cgen /\ c.owned = w.c.owned /\ c.previous = w.c.previous
  BY Fields DEF Coordinator
<1> HIDE DEF c
<1> QED
  BY <1>1, <1>2, CoordinatorMinor

LEMMA AppliedKeyMinor ==
  ASSUME NEW w \in Worlds, NEW l \in Login
  PROVE  Minor(w, [w EXCEPT !.c.set = l]) /\ [w EXCEPT !.c.set = l].k = w.k
<1> DEFINE c == [w.c EXCEPT !.set = l]
<1>1. [w EXCEPT !.c.set = l] = [w EXCEPT !.c = c]
  BY DEF Worlds
<1>2. /\ c \in Coordinator /\ c.may = w.c.may /\ c.queue = w.c.queue /\ c.gen = w.c.gen
      /\ c.cgen = w.c.cgen /\ c.owned = w.c.owned /\ c.previous = w.c.previous
  BY Fields DEF Coordinator
<1> HIDE DEF c
<1> QED
  BY <1>1, <1>2, CoordinatorMinor

LEMMA PendingOfferMinor ==
  ASSUME NEW w \in Worlds, NEW l \in Login
  PROVE  Minor(w, [w EXCEPT !.c.pending = l]) /\ [w EXCEPT !.c.pending = l].k = w.k
<1> DEFINE c == [w.c EXCEPT !.pending = l]
<1>1. [w EXCEPT !.c.pending = l] = [w EXCEPT !.c = c]
  BY DEF Worlds
<1>2. /\ c \in Coordinator /\ c.may = w.c.may /\ c.queue = w.c.queue /\ c.gen = w.c.gen
      /\ c.cgen = w.c.cgen /\ c.owned = w.c.owned /\ c.previous = w.c.previous
  BY Fields DEF Coordinator
<1> HIDE DEF c
<1> QED
  BY <1>1, <1>2, CoordinatorMinor

LEMMA EnsureActiveEffect ==
  ASSUME NEW w \in Worlds, NEW t \in Nat, task \in Seq(Task), Writes(w, t)
  PROVE  Effect(w, EnsureActive(w, t), t)
<1> DEFINE u == At(NoOffers(w), "read")
           v == BeginOperation(u, t)
           b == [v EXCEPT !.c.rgen = t]
<1>1. Minor(w, u) /\ u.k.pc = "read" /\ u \in Worlds
  <2>1. Minor(w, NoOffers(w)) /\ NoOffers(w) \in Worlds
    BY NoOffersMinor DEF Minor
  <2> QED
    BY <2>1, AtMinor, MinorComposes DEF Waiting, Minor
<1>2. EnsureActive(w, t) = IF b.k.aborted THEN FailClosed(b, t) ELSE b
  BY DEF EnsureActive
<1> HIDE DEF u
<1>3. Prelude(w, u, t) /\ Writes(u, t)
  BY <1>1, MinorIsPrelude DEF Writes, IsCurrent, IsOwnerCurrent, Minor
<1>4. Prelude(u, v, t) /\ IsCurrent(v, t) /\ v.k = u.k /\ v \in Worlds
  BY <1>1, <1>3, BeginPrelude DEF Prelude, Follows
<1> HIDE DEF v
<1>5. Minor(v, b) /\ b.k = v.k /\ b \in Worlds /\ IsCurrent(b, t)
  BY <1>4, RefreshSignalMinor DEF Minor, IsCurrent
<1> HIDE DEF b
<1>6. Effect(v, b, t)
  BY <1>1, <1>4, <1>5, MinorIsEffect
<1>7. Effect(v, FailClosed(b, t), t)
  BY <1>5, FailClosedEffect, MinorThenEffect
<1> QED
  BY <1>2, <1>3, <1>4, <1>6, <1>7, PreludeThenEffect

LEMMA RetryEffect ==
  ASSUME NEW w \in Worlds, task \in Seq(Task), NEW t \in DOMAIN task
  PROVE  Effect(w, Retry(w, t), t)
BY EnsureActiveEffect, SettleEffect, Values DEF Retry, Writes

LEMMA NotAppliedEffect ==
  ASSUME NEW w \in Worlds, task \in Seq(Task), NEW t \in DOMAIN task
  PROVE  Effect(w, NotApplied(w, t), t)
<1>1. Error(w.k.acct) \in Result
  BY Fields, Values
<1> QED
  BY <1>1, FailClosedEffect, SettleEffect DEF NotApplied

\* The operation begins again, with another account or another mode, to fail.
LEMMA FailsAgainEffect ==
  ASSUME NEW w \in Worlds, task \in Seq(Task), NEW t \in DOMAIN task, Writes(w, t)
  PROVE  /\ Effect(w, FailClosed([BeginOperation(w, t) EXCEPT !.k.acct = Failing], t), t)
         /\ Effect(w, FailClosed([BeginOperation(w, t) EXCEPT !.k.mode = "forced"], t), t)
<1> DEFINE v == BeginOperation(w, t)
           k1 == [v.k EXCEPT !.acct = Failing]
           k2 == [v.k EXCEPT !.mode = "forced"]
<1>1. Prelude(w, v, t) /\ IsCurrent(v, t) /\ v \in Worlds
  BY BeginPrelude DEF Prelude, Follows
<1> HIDE DEF v
<1>2. [v EXCEPT !.k.acct = Failing] = [v EXCEPT !.k = k1]
  BY <1>1 DEF Worlds
<1>3. [v EXCEPT !.k.mode = "forced"] = [v EXCEPT !.k = k2]
  BY <1>1 DEF Worlds
<1>4. k1 \in Task /\ k1.own = v.k.own /\ k2 \in Task /\ k2.own = v.k.own
  BY <1>1, Fields DEF Task
<1> HIDE DEF k1, k2
<1>5. ASSUME NEW k \in Task, k.own = v.k.own
      PROVE  Effect(w, FailClosed([v EXCEPT !.k = k], t), t)
  <2> DEFINE x == [v EXCEPT !.k = k]
  <2>1. Minor(v, x) /\ x \in Worlds
    BY <1>1, <1>5, TaskMinor DEF Minor
  <2> HIDE DEF x
  <2>2. Effect(x, FailClosed(x, t), t)
    BY <2>1, FailClosedEffect
  <2>3. Effect(w, FailClosed(x, t), t)
    BY <1>1, <2>1, <2>2, MinorThenEffect, PreludeThenEffect
  <2> QED
    BY <2>3 DEF x
<1>6. /\ Effect(w, FailClosed([v EXCEPT !.k = k1], t), t)
      /\ Effect(w, FailClosed([v EXCEPT !.k = k2], t), t)
  BY <1>4, <1>5
<1> QED
  BY <1>2, <1>3, <1>6, Zenon DEF v

LEMMA RestoreFailsEffect ==
  ASSUME NEW w \in Worlds, task \in Seq(Task), NEW t \in DOMAIN task
  PROVE  Effect(w, RestoreFails(w, t), t)
BY FailsAgainEffect, SettleEffect, Values DEF RestoreFails, Writes

-----------------------------------------------------------------------------
(* What a task commits *)

LEMMA WorldFacts ==
  ASSUME ActivationInv, NEW t \in DOMAIN task
  PROVE  /\ World(t) \in Worlds /\ t \in Nat /\ t # 0 /\ task[t] \in Task
         /\ task[t].own \in DOMAIN coord /\ coord[task[t].own] \in Coordinator
         /\ World(t).c = coord[task[t].own] /\ World(t).k = task[t]
         /\ World(t).conf = conf /\ World(t).s = ses
<1>1. t \in Nat /\ t # 0 /\ task[t] \in Task
  BY DEF ActivationInv
<1>2. task[t].own \in DOMAIN coord /\ coord[task[t].own] \in Coordinator
  BY DEF ActivationInv, Shape, Session
<1>3. World(t) \in Worlds
  BY <1>1, <1>2 DEF World, Worlds, ActivationInv
<1> QED
  BY <1>1, <1>2, <1>3 DEF World

\* u is what t starts from: what it finds, with the first mutation done perhaps.
Found(u, t) ==
    LET c == coord[task[t].own] IN
    /\ u \in Worlds /\ u.k.own = task[t].own
    /\ u.s.n = ses.n /\ u.s.phase = ses.phase /\ u.conf = conf
    /\ u.c.gen = c.gen /\ u.c.cgen = c.cgen
    /\ u.c.owned = c.owned /\ u.c.previous = c.previous
    /\ u.c.queue = c.queue \/ (IsNext(t) /\ u.c.queue = Tail(c.queue))

\* What becomes of the key: nothing, or t sets it, or t clears it.
KeyStep(u, t) ==
    LET c == coord[task[t].own] IN
    \/ key' = key /\ u.c.may = c.may
    \/ task[t].pc = "setting" /\ key' \in Login /\ u.c.may = c.may
    \/ /\ task[t].pc = "clear" /\ IsNext(t) /\ ~u.c.may
       /\ key' = (IF c.may THEN DefaultLogin ELSE key)

\* Only the session that is on is written for.
LEMMA WritersAreOn ==
  ASSUME ActivationInv, NEW t \in DOMAIN task, NEW u, Found(u, t), Writes(u, t)
  PROVE  task[t].own = ses.n /\ ses.phase = "up"
<1>1. u.c.gen = t => task[t].own = ses.n /\ ses.phase = "up"
  <2> DEFINE o == task[t].own
  <2>1. o \in 1 .. ses.n /\ t # 0
    BY WorldFacts DEF ActivationInv, Shape
  <2>2. u.c.gen = coord[o].gen
    BY DEF Found
  <2> QED
    BY <2>1, <2>2 DEF ActivationInv, QuietCoordinators
<1> QED
  BY <1>1 DEF Writes, IsCurrent, IsOwnerCurrent, Found

LEMMA FirstStaysFirst ==
  ASSUME NEW q \in Seq(Nat), q # <<>>, NEW t \in Nat
  PROVE  Append(q, t) # <<>> /\ Head(Append(q, t)) = Head(q)
OBVIOUS

LEMMA CommitKeeps ==
  ASSUME ActivationInv, NEW t \in DOMAIN task, NEW u, Found(u, t), KeyStep(u, t),
         NEW v, Effect(u, v, t), Commit(t, v), refused' = refused
  PROVE  ActivationInv'
<1> DEFINE o == task[t].own
<1>1. /\ t \in Nat /\ t # 0 /\ o \in DOMAIN coord /\ coord[o] \in Coordinator
      /\ o \in 1 .. ses.n /\ ses.n \in Nat
  BY WorldFacts DEF ActivationInv, Shape, Session
<1>2. /\ v \in Worlds /\ v.c \in Coordinator /\ v.k \in Task /\ v.conf \in Login
      /\ v.s \in Session /\ v.k.own = o /\ v.s.n = ses.n /\ v.s.phase = ses.phase
      /\ v.c.may = u.c.may /\ v.k.pc # "setting"
  BY Fields DEF Effect, Follows, Found
<1>3. /\ coord' \in Seq(Coordinator) /\ Len(coord') = Len(coord) /\ coord'[o] = v.c
      /\ \A p \in DOMAIN coord : p # o => coord'[p] = coord[p]
  BY <1>1, <1>2 DEF Commit, ActivationInv
<1>4. /\ task' \in Seq(Task) /\ DOMAIN task' = DOMAIN task /\ task'[t] = v.k
      /\ \A p \in DOMAIN task : p # t => task'[p] = task[p]
  BY <1>2 DEF Commit, ActivationInv
<1>5. ses' = v.s /\ conf' = v.conf /\ ses'.n = ses.n /\ ses'.phase = ses.phase
  BY <1>2 DEF Commit
<1>6. ~(o = ses.n /\ ses.phase = "up") =>
        v.c.gen = coord[o].gen /\ v.c.cgen = coord[o].cgen /\ v.conf = conf
        /\ v.c.owned = coord[o].owned /\ v.c.previous = coord[o].previous
  BY WritersAreOn DEF Effect, Follows, SameOverlay, Found
<1>7. key' \in Login
  BY Values DEF KeyStep, ActivationInv
<1>8. Shape'
  BY <1>1, <1>2, <1>3, <1>4, <1>5 DEF ActivationInv, Shape
<1>9. QuietCoordinators'
  BY <1>1, <1>3, <1>5, <1>6 DEF ActivationInv, QuietCoordinators, Shape
<1>10. ASSUME NEW p \in DOMAIN task, p # t, task[p].pc = "setting", o = ses.n
       PROVE  /\ Live /\ v.c.queue # <<>> /\ Head(v.c.queue) = p /\ v.c.may /\ coord[o].may
              /\ ~IsNext(t)
  <2>1. /\ Live /\ coord[o].queue # <<>> /\ Head(coord[o].queue) = p /\ coord[o].may
    BY <1>10 DEF ActivationInv, OneMutation
  <2>2. ~IsNext(t)
    BY <1>10, <2>1 DEF IsNext
  <2>3. u.c.queue = coord[o].queue /\ u.c.may
    BY <2>1, <2>2 DEF Found, KeyStep
  <2>4. v.c.queue \in {coord[o].queue, Append(coord[o].queue, t)}
    BY <2>3 DEF Effect
  <2>5. coord[o].queue \in Seq(Nat)
    BY <1>1 DEF Coordinator
  <2>6. v.c.queue # <<>> /\ Head(v.c.queue) = p
    BY <1>1, <2>1, <2>4, <2>5, FirstStaysFirst
  <2> QED
    BY <1>2, <2>1, <2>2, <2>3, <2>6
<1>11. OneMutation'
  <2> SUFFICES ASSUME NEW p \in DOMAIN task, task'[p].pc = "setting"
               PROVE  /\ task'[p].own = ses.n /\ Live /\ coord'[ses.n].queue # <<>>
                      /\ Head(coord'[ses.n].queue) = p /\ coord'[ses.n].may
    BY <1>4, <1>5 DEF OneMutation, Live
  <2>1. p # t /\ task'[p] = task[p] /\ task[p].pc = "setting"
    BY <1>2, <1>4
  <2>2. /\ task[p].own = ses.n /\ Live /\ coord[ses.n].queue # <<>>
        /\ Head(coord[ses.n].queue) = p /\ coord[ses.n].may
    BY <2>1 DEF ActivationInv, OneMutation
  <2>3. CASE o = ses.n
    BY <1>3, <1>10, <2>1, <2>2, <2>3
  <2>4. CASE o # ses.n
    <3>1. ses.n \in DOMAIN coord
      BY <1>1 DEF ActivationInv, Shape
    <3> QED
      BY <1>3, <2>1, <2>2, <2>4, <3>1
  <2> QED
    BY <2>3, <2>4
<1>12. KeyIsRemovable'
  <2> SUFFICES ASSUME ~refused, key' # DefaultLogin
               PROVE  Live /\ coord'[ses.n].may
    BY <1>5 DEF KeyIsRemovable, Live
  <2>1. Live /\ coord[ses.n].may
    <3>1. key # DefaultLogin \/ task[t].pc = "setting"
      BY DEF KeyStep
    <3> QED
      BY <3>1 DEF ActivationInv, KeyIsRemovable, OneMutation
  <2>2. CASE o = ses.n
    BY <1>2, <1>3, <2>1, <2>2 DEF KeyStep
  <2>3. CASE o # ses.n
    <3>1. ses.n \in DOMAIN coord
      BY <1>1 DEF ActivationInv, Shape
    <3> QED
      BY <1>3, <2>1, <2>3, <3>1
  <2> QED
    BY <2>1, <2>2, <2>3
<1>13. OverlayIsRemovable'
  <2>1. ses.n \in DOMAIN coord
    BY <1>1 DEF ActivationInv, Shape
  <2>2. CASE o = ses.n /\ ses.phase = "up"
    <3>1. ~refused => Removable(u)
      BY <2>2 DEF ActivationInv, OverlayIsRemovable, Live, Removable, Found
    <3>2. ~refused => Removable(v)
      BY <3>1 DEF Effect, Follows, SameOverlay, Removable
    <3> QED
      BY <1>3, <1>5, <2>2, <3>2 DEF OverlayIsRemovable, Live, Removable
  <2>3. CASE ~(o = ses.n /\ ses.phase = "up")
    <3>1. /\ conf' = conf /\ coord'[ses.n].owned = coord[ses.n].owned
          /\ coord'[ses.n].previous = coord[ses.n].previous
      BY <1>3, <1>5, <1>6, <2>1, <2>3
    <3> QED
      BY <1>5, <3>1 DEF ActivationInv, OverlayIsRemovable, Live
  <2> QED
    BY <2>2, <2>3
<1> QED
  BY <1>2, <1>3, <1>4, <1>5, <1>7, <1>8, <1>9, <1>11, <1>12, <1>13 DEF ActivationInv

\* t begins to set the key.
LEMMA SettingKeeps ==
  ASSUME ActivationInv, NEW t \in DOMAIN task, IsNext(t), coord[task[t].own].cgen = t,
         Commit(t, [At(World(t), "setting") EXCEPT !.c.set = Unset, !.c.may = TRUE]),
         key' = key, refused' = refused
  PROVE  ActivationInv'
<1> DEFINE o == task[t].own
           w == World(t)
           unset == Unset
           a == At(w, "setting")
           c == [a.c EXCEPT !.set = unset, !.may = TRUE]
           v == [a EXCEPT !.c = c]
<1>1. /\ t \in Nat /\ t # 0 /\ o \in DOMAIN coord /\ coord[o] \in Coordinator
      /\ o \in 1 .. ses.n /\ ses.n \in Nat /\ task[t].own = o
  BY WorldFacts DEF ActivationInv, Shape, Session
<1>2. o = ses.n /\ ses.phase = "up"
  <2>1. coord[o].cgen = t
    OBVIOUS
  <2> HIDE DEF o
  <2> QED
    BY <1>1, <2>1 DEF ActivationInv, QuietCoordinators
<1>3. w \in Worlds /\ w.c = coord[o] /\ w.k = task[t] /\ w.conf = conf /\ w.s = ses
  BY WorldFacts
<1> HIDE DEF w
<1>4. /\ a \in Worlds /\ a.k.own = o /\ a.k.pc = "setting" /\ a.c = coord[o]
      /\ a.conf = conf /\ a.s = ses /\ a.k \in Task
  BY <1>1, <1>3, AtMinor, Fields DEF Minor, Waiting
<1>5. Commit(t, v)
  <2>1. [a EXCEPT !.c.set = unset, !.c.may = TRUE] = v
    BY <1>4 DEF Worlds
  <2> QED
    BY <2>1 DEF w
<1> HIDE DEF a
<1>6. unset \in Login
  BY Values
<1> HIDE DEF unset
<1>7. /\ c \in Coordinator /\ c.may = TRUE /\ c.queue = coord[o].queue
      /\ c.gen = coord[o].gen /\ c.cgen = coord[o].cgen
      /\ c.owned = coord[o].owned /\ c.previous = coord[o].previous
  BY <1>4, <1>6, Fields DEF Coordinator
<1> HIDE DEF c
<1>8. v.c = c /\ v.k = a.k /\ v.conf = conf /\ v.s = ses
  BY <1>4 DEF Worlds
<1> HIDE DEF v
<1>9. /\ coord' \in Seq(Coordinator) /\ Len(coord') = Len(coord) /\ coord'[o] = c
      /\ \A p \in DOMAIN coord : p # o => coord'[p] = coord[p]
  BY <1>1, <1>5, <1>7, <1>8 DEF Commit, ActivationInv
<1>10. /\ task' \in Seq(Task) /\ DOMAIN task' = DOMAIN task /\ task'[t] = a.k
       /\ \A p \in DOMAIN task : p # t => task'[p] = task[p]
  BY <1>4, <1>5, <1>8 DEF Commit, ActivationInv
<1>11. ses' = ses /\ conf' = conf
  BY <1>5, <1>8 DEF Commit
<1>12. Shape' /\ QuietCoordinators'
  <2>1. Shape'
    BY <1>1, <1>4, <1>9, <1>10, <1>11 DEF ActivationInv, Shape
  <2>2. QuietCoordinators'
    BY <1>1, <1>7, <1>9, <1>11 DEF ActivationInv, QuietCoordinators, Shape
  <2> QED
    BY <2>1, <2>2
<1>13. OneMutation'
  <2>1. coord[o].queue # <<>> /\ Head(coord[o].queue) = t
    BY DEF IsNext
  <2>2. \A p \in DOMAIN task : task[p].pc = "setting" => p = t
    BY <1>2, <2>1 DEF ActivationInv, OneMutation
  <2> QED
    BY <1>2, <1>4, <1>7, <1>9, <1>10, <1>11, <2>1, <2>2 DEF OneMutation, Live
<1>14. KeyIsRemovable' /\ OverlayIsRemovable'
  BY <1>1, <1>2, <1>7, <1>9, <1>11
  DEF ActivationInv, KeyIsRemovable, OverlayIsRemovable, Live
<1> QED
  BY <1>9, <1>10, <1>11, <1>12, <1>13, <1>14 DEF ActivationInv

\* A call of syncProvider is made in the session that is on, or that gets ready.
LEMMA SyncKeeps ==
  ASSUME ActivationInv, NEW s \in Session, s.n = ses.n, s.phase = "up",
         ses.phase \in {"init", "up"}, NEW menu \in BOOLEAN, SyncIn(s, menu)
  PROVE  ActivationInv'
<1> DEFINE n == ses.n
           t == Len(task) + 1
           acct == IF s.bad THEN Failing ELSE s.sel
           k == NewTask(s.n, acct, menu)
           w == [c |-> coord[s.n], k |-> k, conf |-> conf, s |-> s]
           b == IF s.bad THEN FailClosed(BeginOperation(w, t), t) ELSE EnsureActive(w, t)
<1>1. n \in Nat /\ n # 0 /\ n \in DOMAIN coord /\ coord[n] \in Coordinator
      /\ t \in Nat /\ t # 0 /\ task \in Seq(Task)
  BY DEF ActivationInv, Shape, Session
<1>2. w \in Worlds /\ w.c = coord[n] /\ w.k.own = n /\ w.conf = conf /\ w.s = s
  <2>1. acct \in Selections \cup {Failing}
    BY DEF Session
  <2> HIDE DEF acct
  <2>2. k \in Task /\ k.own = n
    BY <1>1, <2>1, NewValues
  <2> HIDE DEF k
  <2> QED
    BY <1>1, <2>2 DEF Worlds, ActivationInv
<1>3. Writes(w, t)
  BY <1>2 DEF Writes, IsOwnerCurrent
<1>4. /\ coord' = [coord EXCEPT ![n] = b.c] /\ task' = Append(task, b.k)
      /\ conf' = b.conf /\ ses' = b.s /\ key' = key /\ refused' = refused
  BY DEF SyncIn
<1> HIDE DEF w, t
<1>5. Effect(w, b, t)
  <2>1. Effect(w, EnsureActive(w, t), t)
    BY <1>1, <1>2, <1>3, EnsureActiveEffect
  <2> DEFINE u == BeginOperation(w, t)
  <2>2. Prelude(w, u, t) /\ IsCurrent(u, t) /\ u \in Worlds
    BY <1>1, <1>2, <1>3, BeginPrelude DEF Prelude, Follows
  <2> HIDE DEF u
  <2>3. Effect(w, FailClosed(u, t), t)
    BY <1>1, <2>2, FailClosedEffect, PreludeThenEffect
  <2> QED
    BY <2>1, <2>3 DEF u
<1> HIDE DEF b
<1>6. /\ b \in Worlds /\ b.c \in Coordinator /\ b.k \in Task /\ b.conf \in Login
      /\ b.s \in Session /\ b.k.own = n /\ b.s.n = n /\ b.s.phase = "up"
      /\ b.c.may = coord[n].may /\ b.k.pc # "setting"
      /\ b.c.queue \in {coord[n].queue, Append(coord[n].queue, t)}
      /\ Removable(w) => Removable(b)
  BY <1>2, <1>3, <1>5, Fields DEF Effect, Follows
<1>7. /\ coord' \in Seq(Coordinator) /\ Len(coord') = Len(coord) /\ coord'[n] = b.c
      /\ \A p \in DOMAIN coord : p # n => coord'[p] = coord[p]
  BY <1>1, <1>4, <1>6 DEF ActivationInv
<1>8. /\ task' \in Seq(Task) /\ DOMAIN task' = DOMAIN task \cup {t} /\ task'[t] = b.k
      /\ t \notin DOMAIN task /\ \A p \in DOMAIN task : task'[p] = task[p]
  BY <1>4, <1>6 DEF ActivationInv, t
<1>9. Shape' /\ QuietCoordinators'
  BY <1>1, <1>4, <1>6, <1>7, <1>8 DEF ActivationInv, Shape, QuietCoordinators
<1>10. OneMutation'
  <2> SUFFICES ASSUME NEW p \in DOMAIN task, task[p].pc = "setting"
               PROVE  /\ task[p].own = n /\ b.c.queue # <<>> /\ Head(b.c.queue) = p /\ b.c.may
    BY <1>4, <1>6, <1>7, <1>8 DEF OneMutation, Live
  <2>1. /\ task[p].own = n /\ coord[n].queue # <<>>
        /\ Head(coord[n].queue) = p /\ coord[n].may
    BY DEF ActivationInv, OneMutation
  <2>2. coord[n].queue \in Seq(Nat)
    BY <1>1 DEF Coordinator
  <2>3. b.c.queue # <<>> /\ Head(b.c.queue) = p
    BY <1>1, <1>6, <2>1, <2>2, FirstStaysFirst
  <2> QED
    BY <1>6, <2>1, <2>3
<1>11. KeyIsRemovable'
  BY <1>4, <1>6, <1>7 DEF ActivationInv, KeyIsRemovable, Live
<1>12. OverlayIsRemovable'
  <2>1. ~refused => Removable(w)
    BY <1>2 DEF ActivationInv, OverlayIsRemovable, Live, Removable
  <2> QED
    BY <1>4, <1>6, <1>7, <2>1 DEF OverlayIsRemovable, Live, Removable
<1> QED
  BY <1>4, <1>6, <1>7, <1>8, <1>9, <1>10, <1>11, <1>12 DEF ActivationInv

-----------------------------------------------------------------------------
(* The steps of a task keep what is about the coordinators, tasks and Pi. *)

LEMMA PlainStepKeeps ==
  ASSUME ActivationInv, NEW t \in DOMAIN task, NEW v, Effect(World(t), v, t), Commit(t, v),
         UNCHANGED <<key, refused>>
  PROVE  ActivationInv'
BY CommitKeeps, WorldFacts DEF Found, KeyStep

\* The mutation that was the first is over.
LEMMA DequeueFields ==
  ASSUME NEW w \in Worlds, w.c.queue # <<>>
  PROVE  LET v == Dequeue(w) IN
           /\ v \in Worlds /\ v.k = w.k /\ v.s = w.s /\ v.conf = w.conf
           /\ v.c.queue = Tail(w.c.queue) /\ v.c.may = w.c.may /\ v.c.set = w.c.set
           /\ v.c.gen = w.c.gen /\ v.c.cgen = w.c.cgen
           /\ v.c.owned = w.c.owned /\ v.c.previous = w.c.previous
<1> DEFINE q == Tail(w.c.queue)
           c == [w.c EXCEPT !.queue = q]
<1>1. Dequeue(w) = [w EXCEPT !.c = c]
  BY DEF Dequeue, Worlds
<1>2. q \in Seq(Nat)
  BY Fields
<1> HIDE DEF q
<1>3. /\ c \in Coordinator /\ c.may = w.c.may /\ c.queue = q /\ c.gen = w.c.gen
      /\ c.cgen = w.c.cgen /\ c.owned = w.c.owned /\ c.previous = w.c.previous
      /\ c.set = w.c.set
  BY <1>2, Fields DEF Coordinator
<1> HIDE DEF c
<1>4. [w EXCEPT !.c = c] \in Worlds
  BY <1>3, Parts
<1>5. /\ [w EXCEPT !.c = c].k = w.k /\ [w EXCEPT !.c = c].s = w.s
      /\ [w EXCEPT !.c = c].conf = w.conf /\ [w EXCEPT !.c = c].c = c
  BY DEF Worlds
<1> QED
  BY <1>1, <1>3, <1>4, <1>5 DEF q

LEMMA FirstIsDone ==
  ASSUME ActivationInv, NEW t \in DOMAIN task, IsNext(t)
  PROVE  /\ Found(Dequeue(World(t)), t) /\ Dequeue(World(t)) \in Worlds
         /\ Dequeue(World(t)).c.may = coord[task[t].own].may
         /\ Dequeue(World(t)).c.set = coord[task[t].own].set
         /\ Dequeue(World(t)).k = task[t]
<1>1. World(t) \in Worlds /\ World(t).c.queue # <<>>
  BY WorldFacts DEF IsNext
<1> QED
  BY <1>1, DequeueFields, WorldFacts DEF Found

LEMMA FirstDoneKeeps ==
  ASSUME ActivationInv, NEW t \in DOMAIN task, IsNext(t),
         NEW v, Effect(Dequeue(World(t)), v, t), Commit(t, v),
         key' = key \/ (task[t].pc = "setting" /\ key' \in Login),
         refused' = refused
  PROVE  ActivationInv'
<1>1. Found(Dequeue(World(t)), t) /\ KeyStep(Dequeue(World(t)), t)
  BY FirstIsDone DEF KeyStep
<1> QED
  BY <1>1, CommitKeeps

LEMMA CredentialMinor ==
  ASSUME NEW w \in Worlds, NEW x \in Nat
  PROVE  Minor(w, [w EXCEPT !.k.v = x]) /\ [w EXCEPT !.k.v = x].k.pc = w.k.pc
<1> DEFINE k == [w.k EXCEPT !.v = x]
<1>1. [w EXCEPT !.k.v = x] = [w EXCEPT !.k = k]
  BY DEF Worlds
<1>2. k \in Task /\ k.own = w.k.own /\ k.pc = w.k.pc
  BY Fields DEF Task
<1> HIDE DEF k
<1> QED
  BY <1>1, <1>2, TaskMinor

LEMMA NoAnswerMinor ==
  ASSUME NEW w \in Worlds
  PROVE  LET v == [w EXCEPT !.k.answer = 0, !.k.v0 = 0] IN
           Minor(w, v) /\ v.k.pc = w.k.pc
<1> DEFINE k == [w.k EXCEPT !.answer = 0, !.v0 = 0]
<1>1. [w EXCEPT !.k.answer = 0, !.k.v0 = 0] = [w EXCEPT !.k = k]
  BY DEF Worlds
<1>2. k \in Task /\ k.own = w.k.own /\ k.pc = w.k.pc
  BY Fields DEF Task
<1> HIDE DEF k
<1> QED
  BY <1>1, <1>2, TaskMinor

LEMMA AtEffect ==
  ASSUME NEW w \in Worlds, NEW pc \in Waiting \ {"setting"}, NEW t
  PROVE  Effect(w, At(w, pc), t)
BY AtMinor, MinorIsEffect

LEMMA StoredIsNat ==
  ASSUME StoreInv, NEW t
  PROVE  Stored(t) \in Nat
BY RuntimeAuthAssumption DEF StoreInv, Stored

LEMMA ReadKeeps ==
  ASSUME ActivationInv, StoreInv, NEW t \in DOMAIN task, Read(t)
  PROVE  ActivationInv'
<1> DEFINE w == World(t)
           a == At(w, "clear")
           e == Enqueue(a, t)
           u == [e EXCEPT !.c.cgen = 0]
<1>1. w \in Worlds /\ t \in Nat /\ task \in Seq(Task)
  BY WorldFacts DEF ActivationInv
<1>2. Effect(w, FailClosed(w, t), t)
  BY <1>1, FailClosedEffect
<1>3. ASSUME NEW pc \in {"refresh", "auth"}
      PROVE  Effect(w, [At(w, pc) EXCEPT !.k.v = Stored(t)], t)
  <2> DEFINE b == At(w, pc)
             x == Stored(t)
  <2>1. Minor(w, b) /\ b \in Worlds /\ b.k.pc = pc
    BY <1>1, AtMinor DEF Minor, Waiting
  <2>2. x \in Nat
    BY StoredIsNat
  <2> HIDE DEF b, x
  <2>3. Minor(b, [b EXCEPT !.k.v = x]) /\ [b EXCEPT !.k.v = x].k.pc = pc
    BY <2>1, <2>2, CredentialMinor
  <2>4. Effect(w, [b EXCEPT !.k.v = x], t)
    BY <2>1, <2>3, MinorComposes, MinorIsEffect
  <2> QED
    BY <2>4 DEF b, x
<1>4. ASSUME ~Aborted(w, t) PROVE Effect(w, u, t)
  <2>1. Effect(w, e, t) /\ e \in Worlds /\ Writes(w, t)
    BY <1>1, <1>4, EnqueueEffect DEF Waiting, Aborted, Writes
  <2> DEFINE c == [e.c EXCEPT !.cgen = 0]
  <2> HIDE DEF e
  <2>2. u = [e EXCEPT !.c = c]
    BY <2>1 DEF Worlds
  <2>3. /\ c \in Coordinator /\ c.may = e.c.may /\ c.queue = e.c.queue /\ c.gen = e.c.gen
        /\ c.owned = e.c.owned /\ c.previous = e.c.previous
    BY <2>1, Fields DEF Coordinator
  <2> HIDE DEF c
  <2>4. u \in Worlds /\ u.c = c /\ u.k = e.k /\ u.conf = e.conf /\ u.s = e.s
    BY <2>1, <2>2, <2>3, Parts DEF Worlds
  <2> HIDE DEF u
  <2> QED
    BY <2>1, <2>3, <2>4 DEF Effect, Follows, Removable
<1>5. UNCHANGED <<key, refused>>
  BY DEF Read, Step
<1>6. \E v : Commit(t, v) /\ Effect(w, v, t)
  <2> HIDE DEF w
  <2>1. CASE Commit(t, FailClosed(w, t))
    BY <1>2, <2>1
  <2>2. CASE ~Aborted(w, t) /\ Commit(t, u)
    BY <1>4, <2>2
  <2>3. ASSUME NEW pc \in {"refresh", "auth"}, Commit(t, [At(w, pc) EXCEPT !.k.v = Stored(t)])
        PROVE  \E v : Commit(t, v) /\ Effect(w, v, t)
    BY <1>3, <2>3
  <2> HIDE DEF u
  <2>4. \/ Commit(t, FailClosed(w, t))
        \/ ~Aborted(w, t) /\ Commit(t, u)
        \/ \E pc \in {"refresh", "auth"} : Commit(t, [At(w, pc) EXCEPT !.k.v = Stored(t)])
    <3>1. Read(t) => \/ Commit(t, FailClosed(w, t))
                     \/ Commit(t,
                          IF Aborted(w, t) THEN FailClosed(w, t)
                          ELSE IF w.k.acct = Default THEN u
                          ELSE IF Stored(t) = 0 THEN FailClosed(w, t)
                          ELSE [At(w, IF w.k.acct \in expired THEN "refresh" ELSE "auth")
                                  EXCEPT !.k.v = Stored(t)])
      BY DEF Read, w, u
    <3> DEFINE pc == IF w.k.acct \in expired THEN "refresh" ELSE "auth"
    <3>2. pc \in {"refresh", "auth"}
      OBVIOUS
    <3> HIDE DEF pc
    <3>3. \/ Commit(t, FailClosed(w, t))
          \/ ~Aborted(w, t) /\ Commit(t, u)
          \/ Commit(t, [At(w, pc) EXCEPT !.k.v = Stored(t)])
      BY <3>1 DEF pc
    <3> QED
      BY <3>2, <3>3, Zenon
  <2> QED
    BY <2>1, <2>2, <2>3, <2>4
<1> QED
  BY <1>5, <1>6, PlainStepKeeps

LEMMA LockStoreKeeps ==
  ASSUME ActivationInv, StoreInv, NEW t \in DOMAIN task, LockStore(t)
  PROVE  ActivationInv'
<1> DEFINE w == World(t)
           x == Stored(t)
           u == [w EXCEPT !.k.v = x]
           b == At(u, "refreshing")
           acct == task[t].acct
<1>1. w \in Worlds /\ t \in Nat /\ task \in Seq(Task) /\ task[t].v \in Nat
  BY WorldFacts DEF ActivationInv, Task
<1>2. Effect(w, FailClosed(w, t), t) /\ Effect(w, At(w, "recheck"), t)
  BY <1>1, FailClosedEffect, AtEffect DEF Waiting
<1>3. UNCHANGED <<key, refused>>
  BY DEF LockStore
<1>4. \/ Commit(t, FailClosed(w, t)) \/ Commit(t, At(w, "recheck"))
      \/ Commit(t, At(u, "auth")) \/ Commit(t, At(u, "recheck"))
      \/ /\ acct \in Accounts /\ issued' = [issued EXCEPT ![acct] = @ + 1]
         /\ issued[acct] < MaxVersions
         /\ Commit(t, [b EXCEPT !.k.answer = issued'[acct], !.k.v0 = task[t].v])
  <2>1. Stored(t) # 0 => acct \in Accounts
    BY DEF Stored
  <2> QED
    BY <2>1 DEF LockStore
<1>5. Minor(w, u) /\ u \in Worlds
  <2>1. x \in Nat
    BY StoredIsNat
  <2> HIDE DEF w, x
  <2> QED
    BY <1>1, <2>1, CredentialMinor DEF Minor
<1> HIDE DEF w, u
<1>6. Effect(w, At(u, "auth"), t) /\ Effect(w, At(u, "recheck"), t)
  BY <1>5, AtEffect, MinorThenEffect DEF Waiting
<1>7. ASSUME NEW n \in Nat, NEW m \in Nat
      PROVE  Effect(w, [b EXCEPT !.k.answer = n, !.k.v0 = m], t)
  <2>1. Minor(w, b) /\ b \in Worlds /\ b.k.pc = "refreshing"
    BY <1>5, AtMinor, MinorComposes DEF Minor, Waiting
  <2> HIDE DEF b
  <2> DEFINE k == [b.k EXCEPT !.answer = n, !.v0 = m]
  <2>2. [b EXCEPT !.k.answer = n, !.k.v0 = m] = [b EXCEPT !.k = k]
    BY <2>1 DEF Worlds
  <2>3. k \in Task /\ k.own = b.k.own /\ k.pc = "refreshing"
    BY <2>1, Fields DEF Task
  <2> HIDE DEF k
  <2>4. Minor(b, [b EXCEPT !.k = k]) /\ [b EXCEPT !.k = k].k = k
    BY <2>1, <2>3, TaskMinor
  <2> QED
    BY <2>1, <2>2, <2>3, <2>4, MinorComposes, MinorIsEffect
<1>8. ASSUME acct \in Accounts, issued' = [issued EXCEPT ![acct] = @ + 1]
      PROVE  issued'[acct] \in Nat
  BY <1>8, RuntimeAuthAssumption DEF StoreInv
<1>9. \E v : Commit(t, v) /\ Effect(w, v, t)
  <2> HIDE DEF b, acct
  <2>1. ASSUME acct \in Accounts, issued' = [issued EXCEPT ![acct] = @ + 1],
               Commit(t, [b EXCEPT !.k.answer = issued'[acct], !.k.v0 = task[t].v])
        PROVE  \E v : Commit(t, v) /\ Effect(w, v, t)
    <3> DEFINE v == [b EXCEPT !.k.answer = issued'[acct], !.k.v0 = task[t].v]
    <3>1. Effect(w, v, t) /\ Commit(t, v)
      BY <1>1, <1>7, <1>8, <2>1
    <3> QED
      BY <3>1
  <2> QED
    BY <1>2, <1>4, <1>6, <2>1
<1> QED
  BY <1>3, <1>9, PlainStepKeeps DEF w

LEMMA RefreshKeeps ==
  ASSUME ActivationInv, StoreInv, NEW t \in DOMAIN task, Refreshed(t) \/ RefreshFails(t)
  PROVE  ActivationInv'
<1> DEFINE w == World(t)
           u == [w EXCEPT !.k.answer = 0, !.k.v0 = 0]
           a == At(u, "auth")
           b == At(u, "recheck")
           new == task[t].answer
           x == task[t].v0
<1>1. w \in Worlds /\ t \in Nat /\ task \in Seq(Task) /\ new \in Nat /\ task[t].v0 \in Nat
  BY WorldFacts DEF ActivationInv, Task
<1>2. UNCHANGED <<key, refused>>
  BY DEF Refreshed, RefreshFails
<1>3. \/ Commit(t, [a EXCEPT !.k.v = new]) \/ Commit(t, [b EXCEPT !.k.v = x])
      \/ Commit(t, b)
  BY DEF Refreshed, RefreshFails
<1>4. Minor(w, u) /\ u \in Worlds
  <2> HIDE DEF w
  <2> QED
    BY <1>1, NoAnswerMinor DEF Minor
<1> HIDE DEF w, u, new
<1>5. /\ Minor(w, a) /\ a \in Worlds /\ a.k.pc = "auth"
      /\ Minor(w, b) /\ b \in Worlds /\ b.k.pc = "recheck"
  BY <1>1, <1>4, AtMinor, MinorComposes DEF Minor, Waiting
<1>6. x \in Nat
  BY <1>1
<1> HIDE DEF a, b, x
<1>7. Effect(w, [a EXCEPT !.k.v = new], t)
  <2> DEFINE v == [a EXCEPT !.k.v = new]
  <2>1. Minor(a, v) /\ v.k.pc = "auth"
    BY <1>1, <1>5, CredentialMinor
  <2> HIDE DEF v
  <2>2. Effect(w, v, t)
    BY <1>5, <2>1, MinorComposes, MinorIsEffect
  <2> QED
    BY <2>2 DEF v
<1>8. Effect(w, [b EXCEPT !.k.v = x], t)
  <2> DEFINE v == [b EXCEPT !.k.v = x]
  <2>1. Minor(b, v) /\ v.k.pc = "recheck"
    BY <1>5, <1>6, CredentialMinor
  <2> HIDE DEF v
  <2>2. Effect(w, v, t)
    BY <1>5, <2>1, MinorComposes, MinorIsEffect
  <2> QED
    BY <2>2 DEF v
<1>9. Effect(w, b, t)
  BY <1>5, MinorIsEffect
<1>10. \E v : Commit(t, v) /\ Effect(w, v, t)
  BY <1>3, <1>7, <1>8, <1>9, Zenon
<1> QED
  BY <1>2, <1>10, PlainStepKeeps DEF w

LEMMA RecheckKeeps ==
  ASSUME ActivationInv, NEW t \in DOMAIN task, Recheck(t)
  PROVE  ActivationInv'
<1>1. World(t) \in Worlds /\ t \in Nat /\ task \in Seq(Task)
  BY WorldFacts DEF ActivationInv
<1>2. Effect(World(t), FailClosed(World(t), t), t) /\ Effect(World(t), Retry(World(t), t), t)
  BY <1>1, FailClosedEffect, RetryEffect
<1>3. UNCHANGED <<key, refused>>
  BY DEF Recheck, Step
<1>4. Commit(t, FailClosed(World(t), t)) \/ Commit(t, Retry(World(t), t))
  BY DEF Recheck
<1> QED
  BY <1>2, <1>3, <1>4, PlainStepKeeps

LEMMA ToAuthKeeps ==
  ASSUME ActivationInv, NEW t \in DOMAIN task, ToAuth(t)
  PROVE  ActivationInv'
<1> DEFINE w == World(t)
           l == LoginOf(w.k.acct, w.k.v)
           e == Enqueue(At(ApplyOverlay(w, l), "set"), t)
<1>1. w \in Worlds /\ t \in Nat /\ task \in Seq(Task)
  BY WorldFacts DEF ActivationInv
<1>2. UNCHANGED <<key, refused>>
  BY DEF ToAuth, Step
<1>3. \/ Commit(t, Retry(w, t)) \/ Commit(t, FailClosed(w, t)) \/ Commit(t, At(w, "recheck"))
      \/ ~Aborted(w, t) /\ Commit(t, [e EXCEPT !.k.key = l])
  BY DEF ToAuth
<1>4. l \in Login
  BY <1>1, Fields, Values
<1> HIDE DEF w, l
<1>5. /\ Effect(w, Retry(w, t), t) /\ Effect(w, FailClosed(w, t), t)
      /\ Effect(w, At(w, "recheck"), t)
  BY <1>1, FailClosedEffect, RetryEffect, AtEffect DEF Waiting
<1>6. ASSUME ~Aborted(w, t) PROVE Effect(w, [e EXCEPT !.k.key = l], t)
  <2>1. Writes(w, t)
    BY <1>6 DEF Aborted, Writes
  <2>2. Effect(w, e, t) /\ e \in Worlds /\ e.k.pc = "set"
    BY <1>1, <1>4, <2>1, ApplyEffect
  <2> HIDE DEF e
  <2> DEFINE k == [e.k EXCEPT !.key = l]
  <2>3. k \in Task /\ k.own = e.k.own /\ k.pc = "set"
    BY <1>4, <2>2, Fields DEF Task
  <2>4. [e EXCEPT !.k.key = l] = [e EXCEPT !.k = k]
    BY <2>2 DEF Worlds
  <2> HIDE DEF k
  <2> QED
    BY <2>2, <2>3, <2>4, EffectThenTask
<1> HIDE DEF e
<1>7. \E v : Commit(t, v) /\ Effect(w, v, t)
  BY <1>3, <1>5, <1>6
<1> QED
  BY <1>2, <1>7, PlainStepKeeps DEF w

LEMMA RefreshCatalogKeeps ==
  ASSUME ActivationInv, NEW t \in DOMAIN task, RefreshCatalog(t)
  PROVE  ActivationInv'
<1> DEFINE w == World(t)
<1>1. w \in Worlds /\ t \in Nat /\ task \in Seq(Task)
  BY WorldFacts DEF ActivationInv
<1>2. UNCHANGED <<key, refused>>
  BY DEF RefreshCatalog, Step
<1>3. \/ Commit(t, Retry(w, t)) \/ Commit(t, FailClosed(w, t)) \/ Commit(t, At(w, "verify"))
  BY DEF RefreshCatalog
<1> HIDE DEF w
<1>4. /\ Effect(w, Retry(w, t), t) /\ Effect(w, FailClosed(w, t), t)
      /\ Effect(w, At(w, "verify"), t)
  BY <1>1, FailClosedEffect, RetryEffect, AtEffect DEF Waiting
<1> QED
  BY <1>2, <1>3, <1>4, PlainStepKeeps DEF w

LEMMA VerifyOverlayKeeps ==
  ASSUME ActivationInv, NEW t \in DOMAIN task, VerifyOverlay(t)
  PROVE  ActivationInv'
<1> DEFINE w == World(t)
           l == w.k.key
           u == [w EXCEPT !.c.pending = l]
           r == Active(w.k.acct)
<1>1. w \in Worlds /\ t \in Nat /\ task \in Seq(Task)
  BY WorldFacts DEF ActivationInv
<1>2. UNCHANGED <<key, refused>>
  BY DEF VerifyOverlay, Step
<1>3. Commit(t, FailClosed(w, t)) \/ Commit(t, Settle(u, t, r))
  BY DEF VerifyOverlay
<1>4. l \in Login /\ r \in Result
  BY <1>1, Fields, Values
<1>5. Minor(w, u) /\ u \in Worlds
  <2> HIDE DEF w, l
  <2> QED
    BY <1>1, <1>4, PendingOfferMinor DEF Minor
<1> HIDE DEF w, u, r
<1>6. Effect(w, FailClosed(w, t), t) /\ Effect(w, Settle(u, t, r), t)
  BY <1>1, <1>4, <1>5, FailClosedEffect, SettleEffect, MinorThenEffect
<1> QED
  BY <1>2, <1>3, <1>6, PlainStepKeeps DEF w

LEMMA MatchKeeps ==
  ASSUME ActivationInv, NEW t \in DOMAIN task, Match(t)
  PROVE  ActivationInv'
<1> DEFINE w == World(t)
           e == Enqueue(At(w, "set"), t)
           u == [e EXCEPT !.k.force = TRUE]
           r == Error(w.k.acct)
<1>1. w \in Worlds /\ t \in Nat /\ task \in Seq(Task)
  BY WorldFacts DEF ActivationInv
<1>2. UNCHANGED <<key, refused>>
  BY DEF Match, Step
<1>3. \/ Commit(t, NotApplied(w, t)) \/ Commit(t, u) \/ Commit(t, Settle(w, t, r))
      \/ Commit(t, FailClosed(w, t)) \/ Commit(t, At(w, "catalog"))
  BY DEF Match
<1>4. r \in Result
  BY <1>1, Fields, Values
<1> HIDE DEF w, r
<1>5. /\ Effect(w, NotApplied(w, t), t) /\ Effect(w, FailClosed(w, t), t)
      /\ Effect(w, Settle(w, t, r), t) /\ Effect(w, At(w, "catalog"), t)
  BY <1>1, <1>4, NotAppliedEffect, FailClosedEffect, SettleEffect, AtEffect DEF Waiting
<1>6. Effect(w, u, t)
  <2>1. Effect(w, e, t) /\ e \in Worlds /\ e.k.pc = "set"
    BY <1>1, EnqueueEffect DEF Waiting
  <2> HIDE DEF e
  <2> DEFINE k == [e.k EXCEPT !.force = TRUE]
  <2>2. k \in Task /\ k.own = e.k.own /\ k.pc = "set"
    BY <2>1, Fields DEF Task
  <2>3. u = [e EXCEPT !.k = k]
    BY <2>1 DEF Worlds
  <2> HIDE DEF k
  <2> QED
    BY <2>1, <2>2, <2>3, EffectThenTask
<1> HIDE DEF u
<1> QED
  BY <1>2, <1>3, <1>5, <1>6, PlainStepKeeps DEF w

LEMMA SetBeginsKeeps ==
  ASSUME ActivationInv, NEW t \in DOMAIN task, SetBegins(t)
  PROVE  ActivationInv'
<1> DEFINE w == World(t)
           d == Dequeue(w)
<1>1. w \in Worlds /\ w.c = coord[task[t].own] /\ t \in Nat /\ task \in Seq(Task)
  BY WorldFacts DEF ActivationInv
<1>2. UNCHANGED <<key, refused>> /\ IsNext(t)
  BY DEF SetBegins, Step
<1>3. d \in Worlds
  BY <1>2, FirstIsDone
<1>4. \/ Commit(t, Settle(d, t, Inactive)) \/ Commit(t, At(d, "match"))
      \/ /\ coord[task[t].own].cgen = t
         /\ Commit(t, [At(w, "setting") EXCEPT !.c.set = Unset, !.c.may = TRUE])
  BY <1>1 DEF SetBegins
<1> HIDE DEF d
<1>5. Effect(d, Settle(d, t, Inactive), t) /\ Effect(d, At(d, "match"), t)
  BY <1>1, <1>3, SettleEffect, AtEffect, Values DEF Waiting
<1>6. CASE Commit(t, Settle(d, t, Inactive))
  BY <1>2, <1>5, <1>6, FirstDoneKeeps DEF d
<1>7. CASE Commit(t, At(d, "match"))
  BY <1>2, <1>5, <1>7, FirstDoneKeeps DEF d
<1>8. CASE /\ coord[task[t].own].cgen = t
           /\ Commit(t, [At(w, "setting") EXCEPT !.c.set = Unset, !.c.may = TRUE])
  BY <1>2, <1>8, SettingKeeps
<1> QED
  BY <1>4, <1>6, <1>7, <1>8

\* A task that sets the key is the first of the queue of its coordinator.
LEMMA SetterIsNext ==
  ASSUME ActivationInv, NEW t \in DOMAIN task, task[t].pc = "setting"
  PROVE  IsNext(t)
BY DEF ActivationInv, OneMutation, IsNext

LEMMA SetEndsKeeps ==
  ASSUME ActivationInv, NEW t \in DOMAIN task, SetEnds(t) \/ SetFails(t)
  PROVE  ActivationInv'
<1> DEFINE d == Dequeue(World(t))
           l == task[t].key
           u == [d EXCEPT !.c.set = l]
<1>1. task[t].pc = "setting" /\ refused' = refused
  BY DEF SetEnds, SetFails, Step
<1>2. /\ t \in Nat /\ task \in Seq(Task) /\ l \in Login
      /\ IsNext(t) /\ d \in Worlds
  BY <1>1, WorldFacts, SetterIsNext, FirstIsDone DEF ActivationInv, Task
<1>3. \/ key' = l /\ (Commit(t, Settle(u, t, Inactive)) \/ Commit(t, At(u, "match")))
      \/ key' = key /\ Commit(t, NotApplied(d, t))
  BY DEF SetEnds, SetFails, Step
<1>4. Effect(d, NotApplied(d, t), t)
  BY <1>2, NotAppliedEffect
<1>5. Minor(d, u) /\ u \in Worlds
  <2> HIDE DEF d, l
  <2> QED
    BY <1>2, AppliedKeyMinor DEF Minor
<1> HIDE DEF u
<1>6. Effect(d, Settle(u, t, Inactive), t) /\ Effect(d, At(u, "match"), t)
  <2> HIDE DEF d
  <2> QED
    BY <1>2, <1>5, SettleEffect, AtEffect, MinorThenEffect, Values DEF Waiting
<1>7. key' = key \/ (task[t].pc = "setting" /\ key' \in Login)
  BY <1>1, <1>2, <1>3
<1>8. \E v : Commit(t, v) /\ Effect(d, v, t)
  BY <1>3, <1>4, <1>6
<1> QED
  BY <1>1, <1>2, <1>7, <1>8, FirstDoneKeeps

LEMMA ClearKeeps ==
  ASSUME ActivationInv, NEW t \in DOMAIN task, Clear(t)
  PROVE  ActivationInv'
<1> DEFINE d == Dequeue(World(t))
           set == IF d.c.may THEN Unset ELSE d.c.set
           c == [d.c EXCEPT !.set = set, !.may = FALSE]
           u == [d EXCEPT !.c = c]
           o == task[t].own
<1>1. task[t].pc = "clear" /\ IsNext(t) /\ refused' = refused
  BY DEF Clear
<1>2. /\ t \in Nat /\ task \in Seq(Task) /\ d \in Worlds /\ Found(d, t)
      /\ World(t).c = coord[o] /\ d.c.may = coord[o].may
  BY <1>1, WorldFacts, FirstIsDone DEF ActivationInv
<1>3. Cleared(World(t)) = u
  BY <1>2 DEF Cleared, Worlds
<1>4. \/ /\ key' = (IF coord[o].may THEN DefaultLogin ELSE key)
         /\ Commit(t, RestoreFails(u, t)) \/ Commit(t, At(u, "restore"))
      \/ key' = key /\ Commit(t, RestoreFails(d, t))
  BY <1>2, <1>3 DEF Clear
<1> HIDE DEF d, o
<1>5. set \in Login
  BY <1>2, Fields, Values
<1> HIDE DEF set
<1>6. /\ c \in Coordinator /\ c.may = FALSE /\ c.queue = d.c.queue
      /\ c.gen = d.c.gen /\ c.cgen = d.c.cgen /\ c.owned = d.c.owned
      /\ c.previous = d.c.previous
  BY <1>2, <1>5, Fields DEF Coordinator
<1> HIDE DEF c
<1>7. u \in Worlds /\ u.c = c /\ u.k = d.k /\ u.s = d.s /\ u.conf = d.conf
  BY <1>2, <1>6, Parts DEF Worlds
<1> HIDE DEF u
<1>8. Found(u, t)
  BY <1>2, <1>6, <1>7 DEF Found
<1>9. /\ Effect(d, RestoreFails(d, t), t) /\ Effect(u, RestoreFails(u, t), t)
      /\ Effect(u, At(u, "restore"), t)
  BY <1>2, <1>7, RestoreFailsEffect, AtEffect DEF Waiting
<1>10. CASE key' = key /\ Commit(t, RestoreFails(d, t))
  BY <1>1, <1>2, <1>9, <1>10, FirstDoneKeeps DEF d
<1>11. CASE /\ key' = (IF coord[o].may THEN DefaultLogin ELSE key)
            /\ Commit(t, RestoreFails(u, t)) \/ Commit(t, At(u, "restore"))
  <2>1. KeyStep(u, t)
    BY <1>1, <1>6, <1>7, <1>11 DEF KeyStep, o
  <2> QED
    BY <1>1, <1>8, <1>9, <1>11, <2>1, CommitKeeps
<1> QED
  BY <1>4, <1>10, <1>11

LEMMA RestoreKeeps ==
  ASSUME ActivationInv, NEW t \in DOMAIN task, Restore(t)
  PROVE  ActivationInv'
<1> DEFINE w == World(t)
           u == RemoveOverlay(w)
<1>1. w \in Worlds /\ t \in Nat /\ task \in Seq(Task)
  BY WorldFacts DEF ActivationInv
<1>2. UNCHANGED <<key, refused>>
  BY DEF Restore, Step
<1>3. \/ IsCurrent(w, t) /\ Commit(t, Settle(u, t, Inactive))
      \/ Commit(t, Settle(w, t, Inactive)) \/ Commit(t, RestoreFails(w, t))
  BY DEF Restore
<1> HIDE DEF w
<1>4. Effect(w, Settle(w, t, Inactive), t) /\ Effect(w, RestoreFails(w, t), t)
  BY <1>1, SettleEffect, RestoreFailsEffect, Values
<1>5. ASSUME IsCurrent(w, t) PROVE Effect(w, Settle(u, t, Inactive), t)
  <2>1. Prelude(w, u, t) /\ u \in Worlds
    BY <1>1, <1>5, RemoveOverlayPrelude DEF Writes, Prelude, Follows
  <2> HIDE DEF u
  <2> QED
    BY <1>1, <2>1, SettleEffect, PreludeThenEffect, Values
<1> QED
  BY <1>2, <1>3, <1>4, <1>5, PlainStepKeeps DEF w

LEMMA InvalidateConnectionsKeeps ==
  ASSUME ActivationInv, NEW t \in DOMAIN task, InvalidateConnections(t)
  PROVE  ActivationInv'
<1> DEFINE w == World(t)
           r == w.k.res
           id == Identity(w, r)
           u == [w EXCEPT !.s.ident = id]
<1>1. w \in Worlds /\ t \in Nat /\ task \in Seq(Task)
  BY WorldFacts DEF ActivationInv
<1>2. UNCHANGED <<key, refused>>
  BY DEF InvalidateConnections, Step
<1>3. \/ Commit(t, End(w, t, Inactive)) \/ Commit(t, Publish(u, t, r))
      \/ Commit(t, At(w, "credential"))
  BY DEF InvalidateConnections
<1>4. r \in Result
  BY <1>1, Fields
<1> HIDE DEF w, r
<1>5. id \in Login
  BY <1>1, <1>4, IdentityIsLogin
<1> HIDE DEF id
<1>6. Minor(w, u) /\ u \in Worlds
  BY <1>1, <1>5, SessionMinor DEF Minor
<1> HIDE DEF u
<1>7. /\ Effect(w, End(w, t, Inactive), t) /\ Effect(w, Publish(u, t, r), t)
      /\ Effect(w, At(w, "credential"), t)
  BY <1>1, <1>4, <1>6, EndEffect, PublishEffect, AtEffect, MinorThenEffect, Values DEF Waiting
<1> QED
  BY <1>2, <1>3, <1>7, PlainStepKeeps DEF w

LEMMA SelectedCredentialKeeps ==
  ASSUME ActivationInv, NEW t \in DOMAIN task, SelectedCredential(t)
  PROVE  ActivationInv'
<1> DEFINE w == World(t)
           f == FailClosed([BeginOperation(w, t) EXCEPT !.k.mode = "forced"], t)
<1>1. w \in Worlds /\ t \in Nat /\ task \in Seq(Task)
  BY WorldFacts DEF ActivationInv
<1>2. UNCHANGED <<key, refused>>
  BY DEF SelectedCredential, Step
<1>3. Commit(t, End(w, t, Inactive)) \/ (~Superseded(w, t) /\ Commit(t, f))
  BY DEF SelectedCredential
<1>4. Effect(w, End(w, t, Inactive), t)
  BY <1>1, EndEffect, Values
<1>5. ASSUME ~Superseded(w, t) PROVE Effect(w, f, t)
  BY <1>1, <1>5, FailsAgainEffect DEF Superseded, Writes
<1> HIDE DEF w, f
<1> QED
  BY <1>2, <1>3, <1>4, <1>5, PlainStepKeeps DEF w

-----------------------------------------------------------------------------
(* The steps of the session *)

LEMMA TaskStepKeeps ==
  ASSUME ActivationInv, StoreInv, NEW t \in DOMAIN task, TaskStep(t)
  PROVE  ActivationInv'
BY ReadKeeps, LockStoreKeeps, RefreshKeeps, RecheckKeeps, ToAuthKeeps, SetBeginsKeeps,
   SetEndsKeeps, MatchKeeps, RefreshCatalogKeeps, VerifyOverlayKeeps, ClearKeeps,
   RestoreKeeps, InvalidateConnectionsKeeps, SelectedCredentialKeeps
DEF TaskStep

\* The coordinators, Pi and whether the session is on stay as they are.
LEMMA QuietStepKeeps ==
  ASSUME ActivationInv, UNCHANGED <<key, conf, coord, refused>>,
         ses' \in Session, ses'.n = ses.n, ses'.phase = ses.phase,
         task' \in Seq(Task), DOMAIN task' = DOMAIN task,
         \A t \in DOMAIN task : task'[t].own = task[t].own /\ task'[t].pc = task[t].pc
  PROVE  ActivationInv'
<1>1. Shape' /\ QuietCoordinators'
  BY DEF ActivationInv, Shape, QuietCoordinators
<1>2. OneMutation' /\ KeyIsRemovable' /\ OverlayIsRemovable'
  BY DEF ActivationInv, OneMutation, KeyIsRemovable, OverlayIsRemovable, Live
<1> QED
  BY <1>1, <1>2 DEF ActivationInv

LEMMA MenuClosesKeeps ==
  ASSUME ActivationInv, NEW t \in DOMAIN task, MenuCloses(t)
  PROVE  ActivationInv'
<1> DEFINE k == [task[t] EXCEPT !.aborted = TRUE]
<1>1. k \in Task /\ k.own = task[t].own /\ k.pc = task[t].pc
  <2>1. task[t] \in Task
    BY WorldFacts
  <2> QED
    BY <2>1 DEF Task
<1>2. task' = [task EXCEPT ![t] = k]
  BY DEF MenuCloses
<1> HIDE DEF k
<1>3. /\ task' \in Seq(Task) /\ DOMAIN task' = DOMAIN task
      /\ \A p \in DOMAIN task : task'[p].own = task[p].own /\ task'[p].pc = task[p].pc
  BY <1>1, <1>2 DEF ActivationInv
<1> QED
  BY <1>3, QuietStepKeeps DEF MenuCloses, ActivationInv

LEMMA TurnStartKeeps ==
  ASSUME ActivationInv, TurnStart
  PROVE  ActivationInv'
<1>1. ses' \in Session /\ ses'.n = ses.n /\ ses'.phase = ses.phase
  BY DEF TurnStart, ActivationInv, Session
<1> QED
  BY <1>1, QuietStepKeeps DEF TurnStart, ActivationInv

\* The sessions that the events make before they call syncProvider.
LEMMA NewSelections ==
  ASSUME ses \in Session
  PROVE  /\ \A a \in Selections :
              Selecting(a) \in Session /\ Selecting(a).n = ses.n
              /\ Selecting(a).phase = ses.phase
         /\ \A a \in Restored :
              LET s == [ses EXCEPT !.phase = "up", !.sel = IF a = Failing THEN Default ELSE a,
                                   !.bad = a = Failing] IN
              s \in Session /\ s.n = ses.n /\ s.phase = "up"
         /\ LET s == [ses EXCEPT !.run = "starting", !.turn = Len(task) + 1,
                                 !.abort = FALSE] IN
              task \in Seq(Task) => s \in Session /\ s.n = ses.n /\ s.phase = ses.phase
<1>1. ASSUME NEW a \in Selections
      PROVE  Selecting(a) \in Session /\ Selecting(a).n = ses.n
             /\ Selecting(a).phase = ses.phase
  BY DEF Selecting, Session
<1>2. ASSUME NEW a \in Restored
      PROVE  LET s == [ses EXCEPT !.phase = "up", !.sel = IF a = Failing THEN Default ELSE a,
                                  !.bad = a = Failing] IN
             s \in Session /\ s.n = ses.n /\ s.phase = "up"
  <2> DEFINE sel == IF a = Failing THEN Default ELSE a
             bad == a = Failing
  <2>1. sel \in Selections /\ bad \in BOOLEAN
    BY RuntimeAuthAssumption DEF Selections
  <2> HIDE DEF sel, bad
  <2>2. LET s == [ses EXCEPT !.phase = "up", !.sel = sel, !.bad = bad] IN
        s \in Session /\ s.n = ses.n /\ s.phase = "up"
    BY <2>1 DEF Session
  <2> QED
    BY <2>2 DEF sel, bad
<1>3. ASSUME task \in Seq(Task)
      PROVE  LET s == [ses EXCEPT !.run = "starting", !.turn = Len(task) + 1,
                                  !.abort = FALSE] IN
             s \in Session /\ s.n = ses.n /\ s.phase = ses.phase
  <2> DEFINE next == Len(task) + 1
  <2>1. next \in Nat
    BY <1>3
  <2> HIDE DEF next
  <2>2. LET s == [ses EXCEPT !.run = "starting", !.turn = next, !.abort = FALSE] IN
        s \in Session /\ s.n = ses.n /\ s.phase = ses.phase
    BY <2>1 DEF Session
  <2> QED
    BY <2>2 DEF next
<1> QED
  BY <1>1, <1>2, <1>3

LEMMA CallsKeep ==
  ASSUME ActivationInv,
         SessionReady \/ ModelSelect \/ BeforeAgentStart \/ SwitchAccount \/ LoginAccount
           \/ RemoveAccount
  PROVE  ActivationInv'
<1>1. ses \in Session /\ task \in Seq(Task)
  BY DEF ActivationInv
<1>2. CASE SessionReady
  <2>1. PICK a \in Restored :
          SyncIn([ses EXCEPT !.phase = "up", !.sel = IF a = Failing THEN Default ELSE a,
                             !.bad = a = Failing], FALSE)
    BY <1>2 DEF SessionReady
  <2> DEFINE s == [ses EXCEPT !.phase = "up", !.sel = IF a = Failing THEN Default ELSE a,
                              !.bad = a = Failing]
  <2>2. s \in Session /\ s.n = ses.n /\ s.phase = "up" /\ SyncIn(s, FALSE)
    BY <1>1, <2>1, NewSelections
  <2> HIDE DEF s
  <2>3. ses.phase = "init"
    BY <1>2 DEF SessionReady
  <2> QED
    BY <2>2, <2>3, SyncKeeps
<1>3. CASE ModelSelect
  BY <1>1, <1>3, SyncKeeps DEF ModelSelect
<1>4. CASE BeforeAgentStart
  <2> DEFINE s == [ses EXCEPT !.run = "starting", !.turn = Len(task) + 1, !.abort = FALSE]
  <2>1. s \in Session /\ s.n = ses.n /\ s.phase = "up" /\ SyncIn(s, FALSE)
    BY <1>1, <1>4, NewSelections DEF BeforeAgentStart
  <2> HIDE DEF s
  <2>2. ses.phase = "up"
    BY <1>4 DEF BeforeAgentStart
  <2> QED
    BY <2>1, <2>2, SyncKeeps
<1>5. ASSUME NEW a \in Selections, SyncIn(Selecting(a), TRUE), ses.phase = "up"
      PROVE  ActivationInv'
  BY <1>1, <1>5, NewSelections, SyncKeeps
<1>6. CASE SwitchAccount
  BY <1>5, <1>6 DEF SwitchAccount, Selections
<1>7. CASE LoginAccount
  BY <1>5, <1>7 DEF LoginAccount, Selections
<1>8. CASE RemoveAccount
  <2>1. \/ SyncIn(Selecting(Default), TRUE) \/ SyncIn(ses, TRUE)
        \/ UNCHANGED <<lock, key, conf, coord, ses, task, refused>>
    BY <1>8 DEF RemoveAccount
  <2>2. ses.phase = "up"
    BY <1>8 DEF RemoveAccount
  <2>3. CASE SyncIn(Selecting(Default), TRUE)
    BY <1>5, <2>2, <2>3 DEF Selections
  <2>4. CASE SyncIn(ses, TRUE)
    BY <1>1, <2>2, <2>4, SyncKeeps
  <2>5. CASE UNCHANGED <<lock, key, conf, coord, ses, task, refused>>
    BY <1>1, <2>5, QuietStepKeeps
  <2> QED
    BY <2>1, <2>3, <2>4, <2>5
<1> QED
  BY <1>2, <1>3, <1>4, <1>6, <1>7, <1>8

LEMMA SessionStartKeeps ==
  ASSUME ActivationInv, SessionStart
  PROVE  ActivationInv'
<1> DEFINE n == ses.n + 1
           c == NewCoordinator
           s == NewSession(n)
<1>1. ses.n \in Nat /\ n \in Nat /\ Len(coord) = ses.n
  BY DEF ActivationInv, Shape, Session
<1>2. c \in Coordinator /\ c.gen = 0 /\ c.cgen = 0 /\ ~c.owned
  BY NewValues DEF NewCoordinator
<1>3. s \in Session /\ s.n = n /\ s.phase = "init"
  <2> HIDE DEF n
  <2> QED
    BY <1>1, NewValues DEF NewSession
<1>4. /\ ses' = s /\ coord' = Append(coord, c)
      /\ UNCHANGED <<key, conf, task, refused>> /\ ses.phase \in {"off", "down"}
  BY DEF SessionStart
<1> HIDE DEF c, s
<1>5. /\ coord' \in Seq(Coordinator) /\ Len(coord') = n /\ coord'[n] = c
      /\ \A p \in 1 .. ses.n : coord'[p] = coord[p]
  BY <1>1, <1>2, <1>4 DEF ActivationInv
<1>6. Shape'
  BY <1>1, <1>3, <1>4, <1>5 DEF ActivationInv, Shape
<1>7. QuietCoordinators'
  BY <1>1, <1>2, <1>3, <1>4, <1>5 DEF ActivationInv, QuietCoordinators
<1>8. OneMutation'
  BY <1>4 DEF ActivationInv, OneMutation, Live
<1>9. KeyIsRemovable' /\ OverlayIsRemovable'
  BY <1>2, <1>3, <1>4, <1>5 DEF ActivationInv, KeyIsRemovable, OverlayIsRemovable, Live
<1> QED
  BY <1>3, <1>4, <1>5, <1>6, <1>7, <1>8, <1>9 DEF ActivationInv

LEMMA SessionShutdownKeeps ==
  ASSUME ActivationInv, SessionShutdown
  PROVE  ActivationInv'
<1> DEFINE n == ses.n
           unset == Unset
           none == NoResult
           q == Append(coord[n].queue, 0)
           c == [coord[n] EXCEPT !.gen = 0, !.cgen = 0, !.rgen = 0,
                                 !.pending = unset, !.offer = unset, !.queue = q]
           s == [ses EXCEPT !.phase = "closing", !.res = none, !.ident = unset,
                            !.abort = FALSE, !.run = "no", !.turn = 0]
<1>1. n \in Nat /\ n # 0 /\ n \in DOMAIN coord /\ coord[n] \in Coordinator /\ Len(coord) = n
  BY DEF ActivationInv, Shape, Session, SessionShutdown
<1>2. unset \in Login /\ none \in Result
  BY Values
<1>3. /\ ses' = s /\ coord' = [coord EXCEPT ![n] = c]
      /\ UNCHANGED <<key, conf, task, refused>> /\ ses.phase \in {"init", "up"}
  BY DEF SessionShutdown
<1> HIDE DEF unset, none
<1>4. s \in Session /\ s.n = n /\ s.phase = "closing"
  BY <1>2 DEF ActivationInv, Session
<1> HIDE DEF s
<1>5. coord[n].queue \in Seq(Nat)
  BY <1>1 DEF Coordinator
<1>6. q \in Seq(Nat)
  BY <1>5
<1>7. coord[n].queue # <<>> => q # <<>> /\ Head(q) = Head(coord[n].queue)
  BY <1>5, FirstStaysFirst
<1> HIDE DEF q
<1>8. /\ c \in Coordinator /\ c.gen = 0 /\ c.cgen = 0 /\ c.may = coord[n].may
      /\ c.owned = coord[n].owned /\ c.previous = coord[n].previous /\ c.queue = q
  BY <1>1, <1>2, <1>6 DEF Coordinator
<1> HIDE DEF c
<1>9. /\ coord' \in Seq(Coordinator) /\ Len(coord') = Len(coord) /\ coord'[n] = c
      /\ \A p \in DOMAIN coord : p # n => coord'[p] = coord[p]
  BY <1>1, <1>3, <1>8 DEF ActivationInv
<1>10. Shape'
  BY <1>1, <1>3, <1>4, <1>9 DEF ActivationInv, Shape
<1>11. QuietCoordinators'
  BY <1>1, <1>3, <1>4, <1>8, <1>9 DEF ActivationInv, QuietCoordinators
<1>12. OneMutation'
  BY <1>3, <1>4, <1>7, <1>8, <1>9 DEF ActivationInv, OneMutation, Live
<1>13. KeyIsRemovable' /\ OverlayIsRemovable'
  BY <1>3, <1>4, <1>8, <1>9 DEF ActivationInv, KeyIsRemovable, OverlayIsRemovable, Live
<1> QED
  BY <1>3, <1>4, <1>9, <1>10, <1>11, <1>12, <1>13 DEF ActivationInv

LEMMA ShutdownClearsKeeps ==
  ASSUME ActivationInv, ShutdownClears
  PROVE  ActivationInv'
<1> DEFINE n == ses.n
           c == coord[n]
           s == [ses EXCEPT !.phase = "down"]
<1>1. /\ n \in Nat /\ n # 0 /\ n \in DOMAIN coord /\ c \in Coordinator /\ Len(coord) = n
      /\ n \in 1 .. n
  BY DEF ActivationInv, Shape, Session, ShutdownClears
<1>2. /\ ses' = s /\ UNCHANGED task /\ ses.phase = "closing"
      /\ c.queue # <<>> /\ Head(c.queue) = 0
  BY DEF ShutdownClears
<1>3. s \in Session /\ s.n = n /\ s.phase = "down"
  BY DEF ActivationInv, Session
<1> HIDE DEF s
<1>4. c.gen = 0 /\ c.cgen = 0
  BY <1>1, <1>2 DEF ActivationInv, QuietCoordinators
<1>5. \A t \in DOMAIN task : task[t].pc # "setting"
  <2>1. \A t \in DOMAIN task : t # 0
    BY DEF ActivationInv
  <2> QED
    BY <1>2, <2>1 DEF ActivationInv, OneMutation
<1>6. c.queue \in Seq(Nat) /\ Tail(c.queue) \in Seq(Nat)
  <2>1. c.queue \in Seq(Nat)
    BY <1>1 DEF Coordinator
  <2> QED
    BY <1>2, <2>1
<1>7. \E d \in Coordinator :
        /\ coord' = [coord EXCEPT ![n] = d] /\ d.gen = 0 /\ d.cgen = 0
        /\ key' \in Login /\ conf' \in Login /\ refused' \in BOOLEAN
        /\ ~refused' => key' = DefaultLogin /\ conf' = DefaultLogin
  <2> DEFINE q == Tail(c.queue)
             unset == Unset
             set == IF c.may THEN unset ELSE c.set
             d1 == [c EXCEPT !.queue = q, !.set = set, !.may = FALSE]
             d2 == [d1 EXCEPT !.owned = FALSE]
             d3 == [c EXCEPT !.queue = q]
             w == [c |-> c, conf |-> conf]
             r == RemoveOverlay(Cleared(w))
  <2>1. unset \in Login
    BY Values
  <2>2. \/ /\ key' = (IF c.may THEN DefaultLogin ELSE key)
           /\ coord' = [coord EXCEPT ![n] = r.c] /\ conf' = r.conf
           /\ UNCHANGED refused
        \/ refused' = TRUE /\ coord' = [coord EXCEPT ![n] = d3] /\ UNCHANGED <<key, conf>>
    BY <1>4 DEF ShutdownClears
  <2>3. IF c.owned THEN r.c = d2 /\ r.conf = c.previous ELSE r.c = d1 /\ r.conf = conf
    <3> DEFINE pair == [c : Coordinator, conf : Login]
    <3> HIDE DEF c
    <3>1. w \in pair /\ w.c = c /\ w.conf = conf
      BY <1>1 DEF ActivationInv
    <3>2. Dequeue(w) = [w EXCEPT !.c = d3]
      BY <3>1 DEF Dequeue
    <3>3. /\ d3.set = c.set
          /\ d1 = [d3 EXCEPT !.set = set, !.may = FALSE]
          /\ d1.owned = c.owned /\ d1.previous = c.previous
      BY <1>1 DEF Coordinator
    <3> HIDE DEF d1, d3, w
    <3>4. Cleared(w) = [w EXCEPT !.c = d1]
      BY <3>1, <3>2, <3>3 DEF Cleared
    <3> DEFINE x == [w EXCEPT !.c = d1]
    <3>5. x \in [c : {d1}, conf : Login] /\ x.c = d1 /\ x.conf = conf
      BY <3>1
    <3> HIDE DEF x
    <3>6. CASE c.owned
      <4>1. RemoveOverlay(x) = [x EXCEPT !.conf = c.previous, !.c = d2]
        BY <3>3, <3>5, <3>6 DEF RemoveOverlay
      <4> HIDE DEF d2
      <4>2. r.c = d2 /\ r.conf = c.previous
        BY <3>4, <3>5, <4>1 DEF x
      <4> QED
        BY <3>6, <4>2
    <3>7. CASE ~c.owned
      BY <3>3, <3>4, <3>5, <3>7 DEF RemoveOverlay, x
    <3> QED
      BY <3>6, <3>7
  <2> HIDE DEF unset, q
  <2>4. q \in Seq(Nat)
    BY <1>6 DEF q
  <2>5. d1 \in Coordinator /\ d1.gen = 0 /\ d1.cgen = 0
    <3>1. set \in Login
      BY <1>1, <2>1 DEF Coordinator
    <3> HIDE DEF set
    <3> QED
      BY <1>1, <1>4, <2>4, <3>1 DEF Coordinator
  <2>6. d2 \in Coordinator /\ d2.gen = 0 /\ d2.cgen = 0
    <3> HIDE DEF d1
    <3> QED
      BY <2>5 DEF Coordinator
  <2>7. d3 \in Coordinator /\ d3.gen = 0 /\ d3.cgen = 0
    BY <1>1, <1>4, <2>4 DEF Coordinator
  <2>8. c.previous \in Login
    BY <1>1 DEF Coordinator
  <2>9. ~refused => /\ key # DefaultLogin => c.may
                    /\ conf # DefaultLogin => c.owned
                    /\ c.owned => c.previous = DefaultLogin
    BY <1>2 DEF ActivationInv, KeyIsRemovable, OverlayIsRemovable, Live
  <2>10. key \in Login /\ conf \in Login /\ DefaultLogin \in Login /\ refused \in BOOLEAN
    BY Values DEF ActivationInv
  <2> HIDE DEF d1, d2, d3, c, r
  <2>11. CASE refused' = TRUE /\ coord' = [coord EXCEPT ![n] = d3] /\ UNCHANGED <<key, conf>>
    BY <2>7, <2>10, <2>11
  <2>12. CASE /\ key' = (IF c.may THEN DefaultLogin ELSE key)
              /\ coord' = [coord EXCEPT ![n] = r.c] /\ conf' = r.conf
              /\ UNCHANGED refused
    <3>1. CASE c.owned
      BY <2>3, <2>6, <2>8, <2>9, <2>10, <2>12, <3>1
    <3>2. CASE ~c.owned
      BY <2>3, <2>5, <2>9, <2>10, <2>12, <3>2
    <3> QED
      BY <3>1, <3>2
  <2> QED
    BY <2>2, <2>11, <2>12
<1>8. PICK d \in Coordinator :
        /\ coord' = [coord EXCEPT ![n] = d] /\ d.gen = 0 /\ d.cgen = 0
        /\ key' \in Login /\ conf' \in Login /\ refused' \in BOOLEAN
        /\ ~refused' => key' = DefaultLogin /\ conf' = DefaultLogin
  BY <1>7
<1> HIDE DEF c
<1>9. /\ coord' \in Seq(Coordinator) /\ Len(coord') = Len(coord) /\ coord'[n] = d
      /\ \A p \in DOMAIN coord : p # n => coord'[p] = coord[p]
  BY <1>1, <1>8 DEF ActivationInv
<1>10. Shape'
  BY <1>1, <1>2, <1>3, <1>9 DEF ActivationInv, Shape
<1>11. QuietCoordinators'
  BY <1>1, <1>2, <1>3, <1>8, <1>9 DEF ActivationInv, QuietCoordinators
<1>12. OneMutation'
  BY <1>2, <1>5 DEF OneMutation
<1>13. KeyIsRemovable' /\ OverlayIsRemovable'
  BY <1>2, <1>3, <1>8 DEF KeyIsRemovable, OverlayIsRemovable, Live
<1> QED
  BY <1>2, <1>3, <1>8, <1>9, <1>10, <1>11, <1>12, <1>13 DEF ActivationInv

-----------------------------------------------------------------------------
(* The store *)

\* What a step does to the store: VersionsNeverGoBack.
Forward ==
    \A a \in Accounts : store'[a] \notin {0, store[a]} =>
        \/ Unaware /\ update'.by = 0
        \/ store'[a] = issued'[a] /\ (store[a] = 0 => issued[a] < issued'[a])

\* Nothing happens to the store, nor to the task that updates it.
LEMMA StoreFrame ==
  ASSUME StoreInv, UNCHANGED <<store, expired, issued, lock, update>>,
         update.by # 0 => /\ update.by \in DOMAIN task' /\ task'[update.by].pc = task[update.by].pc
                          /\ task'[update.by].acct = task[update.by].acct
                          /\ task'[update.by].answer = task[update.by].answer
  PROVE  StoreInv' /\ Forward
<1>1. UpdateIsKnown'
  BY DEF StoreInv, UpdateIsKnown
<1>2. LockIsHeld'
  BY DEF StoreInv, LockIsHeld
<1>3. Forward
  BY DEF Forward
<1> QED
  BY <1>1, <1>2, <1>3 DEF StoreInv

LEMMA VersionsAreNumbers ==
  ASSUME StoreInv
  PROVE  \A a \in Accounts : /\ store[a] \in Nat /\ issued[a] \in Nat /\ store[a] <= issued[a]
                             /\ update.store[a] \in Nat /\ update.store[a] <= issued[a]
<1>1. MaxVersions \in Nat
  BY RuntimeAuthAssumption
<1>2. \A x \in 0 .. MaxVersions : x \in Nat
  BY <1>1
<1>3. \A a \in Accounts : store[a] \in 0 .. MaxVersions /\ issued[a] \in 0 .. MaxVersions
  BY DEF StoreInv
<1>4. update.store \in [Accounts -> 0 .. MaxVersions]
  BY DEF StoreInv, Update
<1>5. \A a \in Accounts : update.store[a] \in 0 .. MaxVersions
  BY <1>4
<1>6. \A a \in Accounts : store[a] <= issued[a] /\ update.store[a] <= issued[a]
  BY DEF StoreInv
<1> QED
  BY <1>2, <1>3, <1>5, <1>6

LEMMA CommitFrame ==
  ASSUME task \in Seq(Task), NEW t \in DOMAIN task, NEW v, Commit(t, v)
  PROVE  /\ DOMAIN task' = DOMAIN task /\ task'[t] = v.k
         /\ \A p \in DOMAIN task : p # t => task'[p] = task[p]
BY DEF Commit

LEMMA OtherStepKeepsStore ==
  ASSUME task \in Seq(Task), StoreInv, NEW t \in DOMAIN task, NEW v, Commit(t, v),
         task[t].pc # "refreshing", UNCHANGED <<store, expired, issued, lock, update>>
  PROVE  StoreInv' /\ Forward
<1>1. update.by # 0 => update.by # t /\ update.by \in DOMAIN task
  BY DEF StoreInv, UpdateIsKnown
<1> QED
  BY <1>1, CommitFrame, StoreFrame

LEMMA LockStoreKeepsStore ==
  ASSUME task \in Seq(Task), StoreInv, NEW t \in DOMAIN task, LockStore(t)
  PROVE  StoreInv' /\ Forward
<1> DEFINE w == [World(t) EXCEPT !.k.v = Stored(t)]
           acct == task[t].acct
           b == At(w, "refreshing")
           v == [b EXCEPT !.k.answer = issued'[acct], !.k.v0 = task[t].v]
           u == [by |-> t, told |-> FALSE, store |-> store, expired |-> expired]
<1>1. CASE /\ Stored(t) # 0 /\ issued[acct] < MaxVersions
           /\ issued' = [issued EXCEPT ![acct] = @ + 1]
           /\ Commit(t, v) /\ lock' = t /\ update' = u
  <2>1. acct \in Accounts /\ store[acct] # 0
    BY <1>1 DEF Stored
  <2>2. UNCHANGED <<store, expired>>
    BY DEF LockStore
  <2>3. task[t] \in Task /\ t \in Nat
    OBVIOUS
  <2>4. v.k.pc = "refreshing" /\ v.k.acct = acct /\ v.k.answer = issued'[acct]
    BY <2>3 DEF At, World, Task
  <2>5. /\ update' \in Update /\ update'.by = t /\ ~update'.told
        /\ update'.store = store /\ update'.expired = expired
    BY <1>1, <2>3 DEF StoreInv, Update
  <2> HIDE DEF v, u
  <2>6. /\ issued' \in [Accounts -> 0 .. MaxVersions] /\ issued'[acct] = issued[acct] + 1
        /\ \A a \in Accounts : a # acct => issued'[a] = issued[a]
    BY <1>1, <2>1, RuntimeAuthAssumption DEF StoreInv
  <2>7. \A a \in Accounts : store'[a] <= issued'[a]
    <3>1. \A a \in Accounts : store[a] \in Nat /\ issued[a] \in Nat /\ store[a] <= issued[a]
      BY VersionsAreNumbers
    <3> QED
      BY <2>1, <2>2, <2>6, <3>1
  <2>8. lock' \in DOMAIN task' /\ task'[lock'] = v.k
    BY <1>1, CommitFrame
  <2>9. issued'[acct] \in 0 .. MaxVersions /\ issued'[acct] <= issued'[acct]
    BY <2>1, <2>6, RuntimeAuthAssumption
  <2> HIDE DEF acct
  <2>10. UpdateIsKnown'
    BY <1>1, <2>1, <2>4, <2>5, <2>8, <2>9 DEF UpdateIsKnown
  <2>11. LockIsHeld'
    BY <1>1, <2>1, <2>2, <2>4, <2>5, <2>8 DEF LockIsHeld
  <2>12. Forward
    BY <2>2 DEF Forward
  <2> QED
    BY <1>1, <2>2, <2>3, <2>5, <2>6, <2>7, <2>10, <2>11, <2>12 DEF StoreInv
<1>2. CASE UNCHANGED <<issued, lock, update>>
  <2>1. \E x : Commit(t, x)
    BY DEF LockStore
  <2>2. task[t].pc # "refreshing" /\ UNCHANGED <<store, expired>>
    BY DEF LockStore
  <2> QED
    BY <1>2, <2>1, <2>2, OtherStepKeepsStore
<1> QED
  BY <1>1, <1>2 DEF LockStore

\* A refresh stores the newest credential, or writes the store as it is, unless
\* it does not know that it has lost the lock.
LEMMA RefreshKeepsStore ==
  ASSUME task \in Seq(Task), StoreInv, NEW t \in DOMAIN task, Refreshed(t) \/ RefreshFails(t)
  PROVE  StoreInv' /\ Forward
<1> DEFINE acct == task[t].acct
           new == task[t].answer
<1>1. /\ update.by = t /\ update' = NoUpdate /\ lock' = Unlocked(t) /\ UNCHANGED issued
      /\ \/ UNCHANGED <<store, expired>>
         \/ ~update.told /\ store' = update.store /\ expired' = update.expired
         \/ /\ ~update.told /\ store' = [update.store EXCEPT ![acct] = new]
            /\ expired' = update.expired \ {acct}
  BY DEF Refreshed, RefreshFails, UpdateEnds, Compromised, WriteBack, Unwritten
<1>2. t \in Nat /\ t # 0
  OBVIOUS
<1>3. acct \in Accounts /\ new \in 0 .. MaxVersions /\ new <= issued[acct]
  BY <1>1, <1>2 DEF StoreInv, UpdateIsKnown
<1>4. lock # 0 => /\ lock = t /\ update.store = store /\ new = issued[acct] /\ store[acct] # 0
  BY <1>1 DEF StoreInv, LockIsHeld
<1> HIDE DEF acct, new
<1>5. update.store \in [Accounts -> 0 .. MaxVersions] /\ update.expired \subseteq Accounts
  BY DEF StoreInv, Update
<1>6. /\ store' \in [Accounts -> 0 .. MaxVersions] /\ expired' \subseteq Accounts
      /\ \A a \in Accounts : store'[a] <= issued'[a]
  BY <1>1, <1>3, <1>5, VersionsAreNumbers DEF StoreInv
<1>7. Forward
  <2>1. CASE lock = 0 /\ ~update.told
    <3>1. Unaware /\ update'.by = 0
      BY <1>1, <1>2, <2>1 DEF Unaware, NoUpdate
    <3> QED
      BY <3>1 DEF Forward
  <2>2. CASE UNCHANGED <<store, expired>>
    BY <2>2 DEF Forward
  <2>3. CASE lock # 0 /\ store' = update.store
    BY <1>4, <2>3 DEF Forward
  <2>4. CASE lock # 0 /\ store' = [update.store EXCEPT ![acct] = new]
    <3>1. /\ store' = [store EXCEPT ![acct] = issued'[acct]] /\ store[acct] # 0
          /\ store \in [Accounts -> 0 .. MaxVersions]
      BY <1>1, <1>4, <2>4 DEF StoreInv
    <3> QED
      BY <1>3, <3>1 DEF Forward
  <2> QED
    BY <1>1, <2>1, <2>2, <2>3, <2>4
<1>8. lock' = 0
  BY <1>1, <1>4 DEF Unlocked
<1>9. NoUpdate \in Update /\ NoUpdate.by = 0 /\ \A a \in Accounts : NoUpdate.store[a] = 0
  BY RuntimeAuthAssumption DEF NoUpdate, Update
<1>10. \A a \in Accounts : update'.store[a] <= issued'[a]
  BY <1>1, <1>9, VersionsAreNumbers
<1>11. UpdateIsKnown' /\ LockIsHeld'
  BY <1>1, <1>8, <1>9 DEF UpdateIsKnown, LockIsHeld
<1> QED
  BY <1>1, <1>6, <1>7, <1>8, <1>9, <1>10, <1>11 DEF StoreInv

LEMMA TaskStepKeepsStore ==
  ASSUME task \in Seq(Task), StoreInv, NEW t \in DOMAIN task, TaskStep(t)
  PROVE  StoreInv' /\ Forward
<1>1. CASE Refreshed(t) \/ RefreshFails(t)
  BY <1>1, RefreshKeepsStore
<1>2. CASE LockStore(t)
  BY <1>2, LockStoreKeepsStore
<1>3. CASE \/ Read(t) \/ Recheck(t) \/ ToAuth(t) \/ SetBegins(t) \/ SetEnds(t) \/ SetFails(t)
           \/ Match(t) \/ RefreshCatalog(t) \/ VerifyOverlay(t) \/ Clear(t) \/ Restore(t)
           \/ InvalidateConnections(t) \/ SelectedCredential(t)
  <2>1. /\ \E v : Commit(t, v)
        /\ task[t].pc # "refreshing" /\ UNCHANGED <<store, expired, issued, lock, update>>
    BY <1>3 DEF Read, Recheck, ToAuth, SetBegins, SetEnds, SetFails, Match, RefreshCatalog,
                VerifyOverlay, Clear, Restore, InvalidateConnections, SelectedCredential, Step
  <2> QED
    BY <2>1, OtherStepKeepsStore
<1> QED
  BY <1>1, <1>2, <1>3 DEF TaskStep

\* Nobody holds the lock any more: an account is logged in, removed, or changed
\* elsewhere, while the task that updates the store, if there is one, stays as it is.
LEMMA UnlockedStoreKeeps ==
  ASSUME StoreInv, NEW a \in Accounts, lock' = 0, UNCHANGED update, expired' \subseteq Accounts,
         update.by # 0 => UNCHANGED task,
         \/ /\ issued[a] < MaxVersions /\ issued' = [issued EXCEPT ![a] = @ + 1]
            /\ store' = [store EXCEPT ![a] = issued'[a]]
         \/ store' = [store EXCEPT ![a] = 0] /\ UNCHANGED issued
  PROVE  StoreInv' /\ Forward
<1>1. /\ store' \in [Accounts -> 0 .. MaxVersions]
      /\ issued' \in [Accounts -> 0 .. MaxVersions]
      /\ \A b \in Accounts : store'[b] <= issued'[b] /\ issued[b] <= issued'[b]
  BY RuntimeAuthAssumption DEF StoreInv
<1>2. Forward
  BY VersionsAreNumbers, RuntimeAuthAssumption DEF StoreInv, Forward
<1>3. \A b \in Accounts : update'.store[b] <= issued'[b]
  <2>1. \A b \in Accounts : issued'[b] \in Nat
    BY <1>1, RuntimeAuthAssumption
  <2> QED
    BY <1>1, <2>1, VersionsAreNumbers
<1>4. UpdateIsKnown'
  <2>1. SUFFICES ASSUME update.by # 0 PROVE UpdateIsKnown'
    BY DEF UpdateIsKnown
  <2> DEFINE u == task[update.by]
  <2>2. /\ update.by \in DOMAIN task /\ u.pc = "refreshing" /\ u.acct \in Accounts
        /\ u.answer \in 0 .. MaxVersions /\ u.answer <= issued[u.acct]
    BY <2>1 DEF StoreInv, UpdateIsKnown
  <2>3. UNCHANGED <<task, update>>
    BY <2>1
  <2> HIDE DEF u
  <2>4. u.answer <= issued'[u.acct]
    <3>1. issued[u.acct] \in 0 .. MaxVersions /\ issued'[u.acct] \in 0 .. MaxVersions
      BY <1>1, <2>2 DEF StoreInv
    <3> QED
      BY <1>1, <2>2, <3>1, RuntimeAuthAssumption
  <2> QED
    BY <2>2, <2>3, <2>4 DEF UpdateIsKnown, u
<1>5. LockIsHeld'
  BY DEF LockIsHeld
<1> QED
  BY <1>1, <1>2, <1>3, <1>4, <1>5 DEF StoreInv

\* The lock is taken, and nothing else happens, or the refresh is told.
LEMMA LockLostKeeps ==
  ASSUME StoreInv, UNCHANGED <<store, expired, issued, task>>, lock' = 0,
         \/ update' = update
         \/ update' = [update EXCEPT !.told = TRUE]
  PROVE  StoreInv' /\ Forward
<1>1. /\ update' \in Update /\ update'.by = update.by /\ update'.store = update.store
  BY DEF StoreInv, Update
<1>2. UpdateIsKnown' /\ LockIsHeld'
  BY <1>1 DEF StoreInv, UpdateIsKnown, LockIsHeld
<1> QED
  BY <1>1, <1>2 DEF StoreInv, Forward

\* A new task does not take the place of the one that updates the store.
LEMMA SyncKeepsStore ==
  ASSUME task \in Seq(Task), StoreInv, UNCHANGED <<store, expired, issued, lock, update>>,
         \E k : task' = Append(task, k)
  PROVE  StoreInv' /\ Forward
<1>1. update.by # 0 => /\ update.by \in DOMAIN task /\ update.by \in DOMAIN task'
                       /\ task'[update.by] = task[update.by]
  BY DEF StoreInv, UpdateIsKnown
<1> QED
  BY <1>1, StoreFrame

LEMMA NextKeepsStore ==
  ASSUME task \in Seq(Task), StoreInv, Next
  PROVE  StoreInv' /\ Forward
<1>1. ASSUME NEW t \in DOMAIN task, TaskStep(t) PROVE StoreInv' /\ Forward
  BY <1>1, TaskStepKeepsStore
<1>2. ASSUME NEW t \in DOMAIN task, MenuCloses(t) PROVE StoreInv' /\ Forward
  <2>1. /\ UNCHANGED <<store, expired, issued, lock, update>>
        /\ task' = [task EXCEPT ![t].aborted = TRUE]
    BY <1>2 DEF MenuCloses
  <2>2. /\ DOMAIN task' = DOMAIN task
        /\ \A p \in DOMAIN task : /\ task'[p].pc = task[p].pc /\ task'[p].acct = task[p].acct
                                  /\ task'[p].answer = task[p].answer
    <3>1. task[t] \in Task
      OBVIOUS
    <3> QED
      BY <2>1, <3>1 DEF Task
  <2>3. update.by # 0 => update.by \in DOMAIN task
    BY DEF StoreInv, UpdateIsKnown
  <2> QED
    BY <2>1, <2>2, <2>3, StoreFrame
<1>3. CASE SessionReady \/ ModelSelect \/ BeforeAgentStart \/ SwitchAccount
  <2>1. UNCHANGED <<store, expired, issued, lock, update>> /\ \E k : task' = Append(task, k)
    BY <1>3 DEF SessionReady, ModelSelect, BeforeAgentStart, SwitchAccount, SyncIn, KeepStore
  <2> QED
    BY <2>1, SyncKeepsStore
<1>4. CASE SessionStart \/ TurnStart \/ SessionShutdown \/ ShutdownClears
  <2>1. UNCHANGED <<store, expired, issued, lock, update, task>>
    BY <1>4 DEF SessionStart, TurnStart, SessionShutdown, ShutdownClears
  <2>2. update.by # 0 => update.by \in DOMAIN task
    BY DEF StoreInv, UpdateIsKnown
  <2> QED
    BY <2>1, <2>2, StoreFrame
<1>5. ASSUME OthersChange \/ LoginAccount \/ RemoveAccount, lock' = 0, UNCHANGED update,
             update.by # 0 => UNCHANGED task
      PROVE  StoreInv' /\ Forward
  <2>1. expired' \subseteq Accounts
    BY <1>5 DEF LoginAccount, RemoveAccount, OthersChange, StoreInv
  <2>2. \E a \in Accounts :
          \/ /\ issued[a] < MaxVersions /\ issued' = [issued EXCEPT ![a] = @ + 1]
             /\ store' = [store EXCEPT ![a] = issued'[a]]
          \/ store' = [store EXCEPT ![a] = 0] /\ UNCHANGED issued
    BY <1>5 DEF LoginAccount, RemoveAccount, OthersChange
  <2> QED
    BY <1>5, <2>1, <2>2, UnlockedStoreKeeps
<1>6. CASE LoginAccount \/ RemoveAccount
  <2>1. lock' = 0 /\ update' = update /\ update.by = 0
    BY <1>6 DEF LoginAccount, RemoveAccount, Serialized, SyncIn
  <2> QED
    BY <1>5, <1>6, <2>1
<1>7. CASE OthersStore
  BY <1>5, <1>7 DEF OthersStore, OthersChange
<1>8. CASE LockTaken
  <2>1. CASE OthersChange
    BY <1>5, <1>8, <2>1 DEF LockTaken, OthersChange
  <2> QED
    BY <1>8, <2>1, LockLostKeeps DEF LockTaken
<1>9. CASE LockCompromised
  <2>1. lock = 0
    BY <1>9 DEF LockCompromised, Unaware, StoreInv, LockIsHeld
  <2> QED
    BY <1>9, <2>1, LockLostKeeps DEF LockCompromised
<1> QED
  BY <1>1, <1>2, <1>3, <1>4, <1>6, <1>7, <1>8, <1>9 DEF Next

-----------------------------------------------------------------------------
LEMMA CountersKeep ==
  ASSUME CountersInv, Next
  PROVE  CountersInv'
<1>1. NoFault \/ Call \/ Upset
  <2>1. ASSUME NEW t \in DOMAIN task, TaskStep(t) \/ MenuCloses(t)
        PROVE  NoFault \/ Call \/ Upset
    BY <2>1 DEF TaskStep, Read, LockStore, Refreshed, RefreshFails, Recheck, ToAuth, SetBegins,
         SetEnds, SetFails, Match, RefreshCatalog, VerifyOverlay, Clear, Restore,
         InvalidateConnections, SelectedCredential, MenuCloses, Fault, NoFault, counters
  <2> QED
    BY <2>1 DEF Next, SessionStart, SessionReady, ModelSelect, BeforeAgentStart, TurnStart,
         SwitchAccount, LoginAccount, RemoveAccount, SessionShutdown, ShutdownClears,
         OthersStore, LockTaken, LockCompromised, Fault, NoFault, counters
<1> QED
  BY <1>1, RuntimeAuthAssumption DEF CountersInv, NoFault, Call, Upset, counters

LEMMA InitIsGood ==
  ASSUME Init
  PROVE  IInv
<1> DEFINE s == NewSession(0)
<1>1. s \in Session /\ s.n = 0
  <2>1. s \in Session
    BY NewValues
  <2> QED
    BY <2>1 DEF NewSession
<1>2. ses \in Session /\ ses.n = 0 /\ ses.phase = "off"
  <2>1. ses = [s EXCEPT !.phase = "off"]
    BY DEF Init
  <2> HIDE DEF s
  <2> QED
    BY <1>1, <2>1 DEF Session
<1>3. coord = <<>> /\ task = <<>> /\ key = DefaultLogin /\ conf = DefaultLogin /\ refused = FALSE
  BY DEF Init
<1>4. ActivationInv
  <2>1. Shape /\ QuietCoordinators /\ OneMutation
    BY <1>2, <1>3 DEF Shape, QuietCoordinators, OneMutation
  <2>2. KeyIsRemovable /\ OverlayIsRemovable
    BY <1>2, <1>3 DEF KeyIsRemovable, OverlayIsRemovable, Live
  <2>3. coord \in Seq(Coordinator) /\ task \in Seq(Task)
    BY <1>3
  <2>4. key \in Login /\ conf \in Login /\ refused \in BOOLEAN
    BY <1>3, Values
  <2> QED
    BY <1>2, <2>1, <2>2, <2>3, <2>4 DEF ActivationInv
<1>5. StoreInv
  <2>1. MaxVersions \in Nat \ {0} /\ Old \subseteq Accounts
    BY RuntimeAuthAssumption
  <2>2. /\ store = [a \in Accounts |-> IF a \in Saved THEN 1 ELSE 0] /\ issued = store
        /\ expired = Old /\ lock = 0 /\ update = NoUpdate
    BY DEF Init
  <2>3. store \in [Accounts -> 0 .. MaxVersions]
    BY <2>1, <2>2
  <2>4. \A a \in Accounts : store[a] <= issued[a]
    <3>1. \A a \in Accounts : store[a] \in {0, 1}
      BY <2>2
    <3>2. issued = store
      BY <2>2
    <3>3. \A x \in {0, 1} : x <= x
      OBVIOUS
    <3> QED
      BY <3>1, <3>2, <3>3, Zenon
  <2>5. /\ update \in Update /\ update.by = 0
        /\ \A a \in Accounts : update.store[a] = 0
    BY <2>1, <2>2 DEF NoUpdate, Update
  <2>6. \A a \in Accounts : update.store[a] <= issued[a]
    <3>1. \A a \in Accounts : issued[a] \in {0, 1}
      BY <2>2
    <3>2. \A x \in {0, 1} : 0 <= x
      OBVIOUS
    <3> QED
      BY <2>5, <3>1, <3>2, Zenon
  <2>7. UpdateIsKnown /\ LockIsHeld
    BY <2>2, <2>5 DEF UpdateIsKnown, LockIsHeld
  <2> QED
    BY <2>1, <2>2, <2>3, <2>4, <2>5, <2>6, <2>7 DEF StoreInv
<1>6. CountersInv
  BY RuntimeAuthAssumption DEF Init, CountersInv
<1> QED
  BY <1>4, <1>5, <1>6 DEF IInv

LEMMA NextKeepsActivation ==
  ASSUME ActivationInv, StoreInv, Next
  PROVE  ActivationInv'
<1>1. CASE OthersStore \/ LockTaken \/ LockCompromised
  BY <1>1, QuietStepKeeps DEF OthersStore, LockTaken, LockCompromised, OthersChange, ActivationInv
<1> QED
  BY <1>1, TaskStepKeeps, MenuClosesKeeps, TurnStartKeeps, CallsKeep, SessionStartKeeps,
     SessionShutdownKeeps, ShutdownClearsKeeps
  DEF Next

\* The inductive invariant: what the coordinators, the tasks and Pi have to do
\* with each other (ActivationInv), and the store with the holder of its lock.
THEOREM InvariantCorrect == Spec => []IInv
<1>1. Init => IInv
  BY InitIsGood
<1>2. IInv /\ [Next]_vars => IInv'
  <2> SUFFICES ASSUME IInv, [Next]_vars PROVE IInv'
    OBVIOUS
  <2>1. CASE Next
    <3>1. ActivationInv'
      BY <2>1, NextKeepsActivation DEF IInv
    <3>2. StoreInv'
      BY <2>1, NextKeepsStore DEF IInv, ActivationInv
    <3>3. CountersInv'
      BY <2>1, CountersKeep DEF IInv
    <3> QED
      BY <3>1, <3>2, <3>3 DEF IInv
  <2>2. CASE UNCHANGED vars
    <3>1. ActivationInv'
      BY <2>2, QuietStepKeeps DEF vars, IInv, ActivationInv
    <3>2. StoreInv' /\ CountersInv'
      BY <2>2 DEF vars, IInv, StoreInv, UpdateIsKnown, LockIsHeld, CountersInv
    <3> QED
      BY <3>1, <3>2 DEF IInv
  <2> QED
    BY <2>1, <2>2
<1> QED
  BY <1>1, <1>2, PTL DEF Spec

\* The variables have their types.
THEOREM TypeCorrect == Spec => []TypeOK
<1>1. IInv => TypeOK
  BY DEF IInv, ActivationInv, StoreInv, CountersInv, TypeOK, Session
<1> QED
  BY <1>1, InvariantCorrect, PTL

\* Pi has its own login again when session_shutdown is over (clear of both the
\* RuntimeApiKeyController and the overlay), for any number of activations of
\* any sessions that are still at one of their awaits.
THEOREM ShutdownCorrect == Spec => []ShutdownLeavesNothing
<1>1. IInv => ShutdownLeavesNothing
  BY DEF IInv, ActivationInv, KeyIsRemovable, OverlayIsRemovable, Live, ShutdownLeavesNothing
<1> QED
  BY <1>1, InvariantCorrect, PTL

\* What enters the store is the newest credential of its account, and an account
\* that was removed comes back only by a new one, for any number of refreshes,
\* logins, other processes and locks that are lost; but for the refresh that has
\* lost its lock and has not been told (throwIfCompromised sees nothing then).
THEOREM VersionsCorrect == Spec => VersionsNeverGoBack
<1>1. IInv /\ [Next]_vars
        => [\A a \in Accounts : store'[a] \notin {0, store[a]} =>
              \/ Unaware /\ update'.by = 0
              \/ store'[a] = issued'[a] /\ (store[a] = 0 => issued[a] < issued'[a])]_vars
  BY NextKeepsStore DEF IInv, ActivationInv, Forward
<1> QED
  BY <1>1, InvariantCorrect, PTL DEF Spec, VersionsNeverGoBack

-----------------------------------------------------------------------------
(***************************************************************************)
(* The second invariant: the newest task of a session that is on, and what *)
(* Pi uses, agree.  Clearing is the set of the tasks that wait for their   *)
(* turn to clear the key, and no step but those of a task that clears or   *)
(* sets writes the key, so it matters where they are in the queue.         *)
(***************************************************************************)
Clearing == {t \in DOMAIN task : task[t].pc = "clear"}
Mine == coord[ses.n]
Newest == task[Latest]

\* What an activation that failed may blame.
Blamed == upsets > 0 \/ ses.bad \/ (ses.sel \in Accounts /\ store[ses.sel] = 0)

Has(q, x) == \E i \in DOMAIN q : q[i] = x

\* x is in the queue once, and nothing of S is behind it.
Once(q, x, S) ==
    \E k \in DOMAIN q :
        /\ q[k] = x
        /\ \A i \in DOMAIN q : q[i] = x => i = k
        /\ \A i \in DOMAIN q : i > k => q[i] \notin S

\* Only the session that lasts clears its key, and not behind its shutdown.
QueueInv ==
    /\ \A t \in Clearing : /\ task[t].own = ses.n /\ Live
                           /\ Has(Mine.queue, t)
    /\ ses.phase \in {"init", "up"} => Mine.queue \in Seq(1 .. Latest)
    /\ ses.phase = "closing" => Once(Mine.queue, 0, Clearing)

\* appliedApiKey is the key in Pi, and the signals of a refresh are of the session's tasks.
AppliedInv ==
    /\ Live => Mine.set \in {Unset, key}
    /\ ses.phase = "init" => Mine.set = Unset /\ Mine.rgen = 0

\* An activation is given up, and a lock is lost, only when something has happened.
TroubleInv ==
    \A t \in DOMAIN task :
        /\ task[t].aborted => upsets > 0
        /\ task[t].pc = "refreshing" => lock = t \/ upsets > 0

OffersInv == \A o \in DOMAIN coord : o # ses.n \/ ses.phase # "up" => coord[o].offer = Unset

\* The result of the newest task, and what Pi uses then.
Concluded(r, s, k, cf, kept, blamed) ==
    \/ r.status = "error" /\ blamed
    \/ /\ s.sel = Default /\ r = Inactive
       /\ kept \/ (k = DefaultLogin /\ cf = DefaultLogin)
    \/ /\ s.sel \in Accounts /\ r = Active(s.sel)
       /\ k.acct = s.sel /\ cf = k

\* What holds of the newest task t of the session in its world w, with k the key
\* in Pi, kept that a key could not be removed, and blamed that there is something
\* to blame for a failure: the generations it holds, what it works on, what it has
\* applied, and its result.
Generations(w, t) ==
    /\ w.c.gen = t /\ w.c.rgen = (IF w.s.bad THEN 0 ELSE t)
    /\ w.c.cgen \in {0, t}
    /\ w.k.pc \notin {"clear", "restore", "conns", "credential", "done"} => w.c.cgen = t
Selected(w, blamed) ==
    /\ w.k.mode = "account" /\ w.k.pc # "done" => w.k.acct = w.s.sel /\ ~w.s.bad
    /\ w.k.mode # "account" => blamed /\ w.k.pc \in {"set", "setting", "match", "conns", "credential"}
    /\ w.k.pc \in {"refresh", "refreshing", "recheck", "auth", "catalog", "verify"} => w.s.sel \in Accounts
    /\ w.k.pc \in {"recheck", "credential"} => blamed
    /\ w.k.pc \in {"clear", "restore"} => w.s.sel = Default
Applying(w, k, kept) ==
    /\ w.k.pc \in {"set", "setting", "match", "catalog", "verify"} =>
         /\ w.conf = w.k.key /\ w.k.key # Unset
         /\ w.k.mode = "account" => w.k.key.acct = w.s.sel /\ w.s.sel \in Accounts
    /\ w.k.pc \in {"match", "catalog", "verify"} => k = w.k.key
    /\ w.k.pc = "restore" => kept \/ k = DefaultLogin
Concludes(w, k, kept, blamed) ==
    /\ w.k.pc \in {"conns", "done"} => Concluded(w.k.res, w.s, k, w.conf, kept, blamed)
    /\ w.k.pc = "conns" /\ w.k.res.status = "active" => w.c.pending = k
    /\ w.k.pc = "done" => w.s.res = w.k.res
    /\ w.c.offer # Unset => w.k.pc = "done" /\ w.k.res.status = "active" /\ w.c.offer = k

Agreed(w, t, k, kept, blamed) ==
    /\ Generations(w, t) /\ Selected(w, blamed)
    /\ Applying(w, k, kept) /\ Concludes(w, k, kept, blamed)

\* Where it is in the queue, and that no other task writes the key once it has had its turn.
Enqueued == {"set", "setting", "clear"}
Early == {"read", "refresh", "refreshing", "recheck", "auth"}
InPlace(q, t, pc, S) == IF pc \in Enqueued THEN Once(q, t, S) ELSE ~Has(q, t)
Placed ==
    /\ InPlace(Mine.queue, Latest, Newest.pc, Clearing)
    /\ Newest.pc \notin Enqueued \cup Early =>
         \A t \in DOMAIN task : task[t].pc \notin {"clear", "setting"}

NewestInv ==
    ses.phase = "up" =>
        /\ Latest \in DOMAIN task /\ Newest.own = ses.n
        /\ Agreed(World(Latest), Latest, key, refused, Blamed)
        /\ Placed

AgreeInv == QueueInv /\ AppliedInv /\ TroubleInv /\ OffersInv /\ NewestInv

-----------------------------------------------------------------------------
(* The queue *)

LEMMA OnceAppended ==
  ASSUME NEW q \in Seq(Nat), NEW x \in Nat, NEW S, ~Has(q, x)
  PROVE  Once(Append(q, x), x, S)
<1> DEFINE p == Append(q, x)
           k == Len(q) + 1
<1>1. /\ k \in DOMAIN p /\ p[k] = x /\ k \in Nat
      /\ \A i \in DOMAIN p : i \in Nat /\ i <= k /\ (i # k => i \in DOMAIN q /\ p[i] = q[i])
  OBVIOUS
<1> HIDE DEF p, k
<1>2. \A i \in DOMAIN p : ~(i > k)
  BY <1>1
<1> QED
  BY <1>1, <1>2 DEF Once, Has, p

LEMMA OnceOfFewer ==
  ASSUME NEW q, NEW x, NEW S, NEW T, Once(q, x, S), T \subseteq S
  PROVE  Once(q, x, T)
BY DEF Once

LEMMA OnceBeforeOther ==
  ASSUME NEW q \in Seq(Nat), NEW x, NEW y \in Nat, NEW S, Once(q, x, S), y # x, y \notin S
  PROVE  Once(Append(q, y), x, S)
<1> DEFINE p == Append(q, y)
<1>1. PICK k \in DOMAIN q : /\ q[k] = x /\ \A i \in DOMAIN q : q[i] = x => i = k
                            /\ \A i \in DOMAIN q : i > k => q[i] \notin S
  BY DEF Once
<1>2. /\ \A i \in DOMAIN q : i \in DOMAIN p /\ p[i] = q[i]
      /\ \A i \in DOMAIN p : i \in DOMAIN q \/ p[i] = y
  OBVIOUS
<1> HIDE DEF p
<1> QED
  BY <1>1, <1>2 DEF Once, p

\* Another one, the first, is done.
LEMMA OnceAfterOther ==
  ASSUME NEW q \in Seq(Nat), q # <<>>, NEW x, NEW S, Once(q, x, S), Head(q) # x
  PROVE  Once(Tail(q), x, S)
<1> DEFINE p == Tail(q)
<1>1. PICK k \in DOMAIN q : /\ q[k] = x /\ \A i \in DOMAIN q : q[i] = x => i = k
                            /\ \A i \in DOMAIN q : i > k => q[i] \notin S
  BY DEF Once
<1>2. /\ \A i \in DOMAIN p : i \in Nat /\ i + 1 \in DOMAIN q /\ p[i] = q[i + 1]
      /\ k \in Nat /\ k # 1
  BY <1>1
<1>3. k - 1 \in DOMAIN p /\ p[k - 1] = x
  BY <1>1, <1>2
<1> HIDE DEF p
<1>4. \A i \in DOMAIN p : p[i] = x => i = k - 1
  BY <1>1, <1>2
<1>5. \A i \in DOMAIN p : i > k - 1 => p[i] \notin S
  BY <1>1, <1>2
<1> QED
  BY <1>3, <1>4, <1>5 DEF Once, p

\* It is the first.
LEMMA OnceFirst ==
  ASSUME NEW q \in Seq(Nat), q # <<>>, NEW S, Once(q, Head(q), S)
  PROVE  /\ ~Has(Tail(q), Head(q))
         /\ \A x \in S : Has(q, x) => x = Head(q)
<1> DEFINE p == Tail(q)
           x == Head(q)
<1>1. /\ \A i \in DOMAIN p : i \in Nat /\ i # 0 /\ i + 1 \in DOMAIN q /\ p[i] = q[i + 1]
      /\ 1 \in DOMAIN q /\ q[1] = x /\ DOMAIN q \subseteq Nat \ {0}
  OBVIOUS
<1> HIDE DEF p, x
<1>2. PICK k \in DOMAIN q : /\ q[k] = x /\ \A i \in DOMAIN q : q[i] = x => i = k
                            /\ \A i \in DOMAIN q : i > k => q[i] \notin S
  BY DEF Once, x
<1>3. k = 1
  BY <1>1, <1>2
<1>4. \A i \in DOMAIN q : i # 1 => q[i] \notin S /\ q[i] # x
  BY <1>1, <1>2, <1>3
<1>5. \A i \in DOMAIN p : p[i] # x
  BY <1>1, <1>4
<1> QED
  BY <1>1, <1>4, <1>5 DEF Has, p, x

LEMMA OnceIsThere ==
  ASSUME NEW q, NEW x, NEW S, Once(q, x, S)
  PROVE  Has(q, x)
BY DEF Once, Has

\* What the queue holds after a step that appends, or that takes the first away.
LEMMA QueueElements ==
  ASSUME NEW q \in Seq(Nat), NEW y \in Nat
  PROVE  /\ \A x : Has(Append(q, y), x) <=> x = y \/ Has(q, x)
         /\ q # <<>> => \A x : /\ Has(Tail(q), x) => Has(q, x)
                               /\ x # Head(q) /\ Has(q, x) => Has(Tail(q), x)
<1> DEFINE p == Append(q, y)
           r == Tail(q)
<1>1. /\ \A i \in DOMAIN q : i \in DOMAIN p /\ p[i] = q[i]
      /\ \A i \in DOMAIN p : i \in DOMAIN q \/ p[i] = y
      /\ Len(q) + 1 \in DOMAIN p /\ p[Len(q) + 1] = y
  OBVIOUS
<1>2. q # <<>> => /\ \A i \in DOMAIN r : i + 1 \in DOMAIN q /\ r[i] = q[i + 1]
                  /\ \A i \in DOMAIN q : i # 1 => i - 1 \in DOMAIN r /\ r[i - 1] = q[i]
                  /\ q[1] = Head(q)
  OBVIOUS
<1> HIDE DEF p, r
<1>3. \A x : Has(p, x) <=> x = y \/ Has(q, x)
  BY <1>1 DEF Has
<1>4. q # <<>> => \A x : Has(r, x) => Has(q, x)
  BY <1>2 DEF Has
<1>5. q # <<>> => \A x : x # Head(q) /\ Has(q, x) => Has(r, x)
  BY <1>2 DEF Has
<1> QED
  BY <1>3, <1>4, <1>5 DEF p, r

\* The queue of the tasks up to n.
LEMMA QueueOfTasks ==
  ASSUME NEW n \in Nat, NEW q \in Seq(1 .. n)
  PROVE  /\ \A x : Has(q, x) => x \in 1 .. n
         /\ \A y \in 1 .. n : Append(q, y) \in Seq(1 .. n)
         /\ q # <<>> => Tail(q) \in Seq(1 .. n)
         /\ q \in Seq(1 .. (n + 1))
<1>1. \A x : Has(q, x) => x \in 1 .. n
  BY DEF Has
<1>2. \A y \in 1 .. n : Append(q, y) \in Seq(1 .. n)
  OBVIOUS
<1>3. q # <<>> => Tail(q) \in Seq(1 .. n)
  OBVIOUS
<1>4. q \in Seq(1 .. (n + 1))
  OBVIOUS
<1> QED
  BY <1>1, <1>2, <1>3, <1>4

-----------------------------------------------------------------------------
(* What the operators of a task leave as it is *)

SameTask(k, l) ==
    /\ l.own = k.own /\ l.acct = k.acct /\ l.mode = k.mode
    /\ l.aborted = k.aborted /\ l.key = k.key /\ l.res = k.res
SameMarks(c, d) == d.gen = c.gen /\ d.cgen = c.cgen /\ d.rgen = c.rgen /\ d.set = c.set
SameOffers(c, d) == d.pending = c.pending /\ d.offer = c.offer
SameSelection(s, z) == z.n = s.n /\ z.phase = s.phase /\ z.sel = s.sel /\ z.bad = s.bad

\* A world with another coordinator, or another task.
LEMMA WithCoordinator ==
  ASSUME NEW w \in Worlds, NEW c \in Coordinator
  PROVE  LET v == [w EXCEPT !.c = c] IN
           v \in Worlds /\ v.c = c /\ v.k = w.k /\ v.conf = w.conf /\ v.s = w.s
BY Parts DEF Worlds

LEMMA WithTask ==
  ASSUME NEW w \in Worlds, NEW k \in Task
  PROVE  LET v == [w EXCEPT !.k = k] IN
           v \in Worlds /\ v.c = w.c /\ v.k = k /\ v.conf = w.conf /\ v.s = w.s
BY Parts DEF Worlds

LEMMA AtFields ==
  ASSUME NEW w \in Worlds, NEW pc \in Waiting
  PROVE  LET v == At(w, pc) IN
           /\ v \in Worlds /\ v.c = w.c /\ v.conf = w.conf /\ v.s = w.s
           /\ v.k.pc = pc /\ SameTask(w.k, v.k)
<1> DEFINE k == [w.k EXCEPT !.pc = pc]
<1>1. k \in Task /\ k.pc = pc /\ SameTask(w.k, k)
  BY Fields DEF Task, SameTask
<1>2. At(w, pc) = [w EXCEPT !.k = k]
  BY DEF At, Worlds
<1> HIDE DEF k
<1> QED
  BY <1>1, <1>2, WithTask

LEMMA NoOffersFields ==
  ASSUME NEW w \in Worlds
  PROVE  LET v == NoOffers(w) IN
           /\ v \in Worlds /\ v.k = w.k /\ v.conf = w.conf /\ v.s = w.s
           /\ SameMarks(w.c, v.c) /\ v.c.queue = w.c.queue
           /\ v.c.pending = Unset /\ v.c.offer = Unset
<1> DEFINE unset == Unset
           c == [w.c EXCEPT !.pending = unset, !.offer = unset]
<1>1. unset \in Login
  BY Values
<1>2. NoOffers(w) = [w EXCEPT !.c = c]
  BY DEF NoOffers, Worlds
<1> HIDE DEF unset
<1>3. /\ c \in Coordinator /\ SameMarks(w.c, c) /\ c.queue = w.c.queue
      /\ c.pending = unset /\ c.offer = unset
  BY <1>1, Fields DEF Coordinator, SameMarks
<1> HIDE DEF c
<1> QED
  BY <1>2, <1>3, WithCoordinator DEF unset

LEMMA ApplyOverlayFields ==
  ASSUME NEW w \in Worlds, NEW l \in Login
  PROVE  LET v == ApplyOverlay(w, l) IN
           /\ v \in Worlds /\ v.k = w.k /\ v.conf = l /\ v.s = w.s
           /\ SameMarks(w.c, v.c) /\ SameOffers(w.c, v.c) /\ v.c.queue = w.c.queue
<1> DEFINE previous == IF w.c.owned THEN w.c.previous ELSE w.conf
           c == [w.c EXCEPT !.owned = TRUE, !.previous = previous]
           u == [w EXCEPT !.c = c]
<1>1. ApplyOverlay(w, l) = [u EXCEPT !.conf = l]
  BY DEF ApplyOverlay, Worlds
<1>2. previous \in Login
  BY Fields
<1> HIDE DEF previous
<1>3. c \in Coordinator /\ SameMarks(w.c, c) /\ SameOffers(w.c, c) /\ c.queue = w.c.queue
  BY <1>2, Fields DEF Coordinator, SameMarks, SameOffers
<1> HIDE DEF c
<1>4. u \in Worlds /\ u.c = c /\ u.k = w.k /\ u.s = w.s
  BY <1>3, WithCoordinator
<1> HIDE DEF u
<1>5. LET v == [u EXCEPT !.conf = l] IN
        v \in Worlds /\ v.c = u.c /\ v.k = u.k /\ v.conf = l /\ v.s = u.s
  BY <1>4 DEF Worlds
<1> QED
  BY <1>1, <1>3, <1>4, <1>5

LEMMA RemoveOverlayFields ==
  ASSUME NEW w \in Worlds
  PROVE  LET v == RemoveOverlay(w) IN
           /\ v \in Worlds /\ v.k = w.k /\ v.s = w.s
           /\ v.conf = (IF w.c.owned THEN w.c.previous ELSE w.conf)
           /\ SameMarks(w.c, v.c) /\ SameOffers(w.c, v.c) /\ v.c.queue = w.c.queue
<1> DEFINE c == [w.c EXCEPT !.owned = FALSE]
           u == [w EXCEPT !.c = c]
<1>1. CASE w.c.owned
  <2>1. RemoveOverlay(w) = [u EXCEPT !.conf = w.c.previous]
    BY <1>1 DEF RemoveOverlay, Worlds
  <2>2. c \in Coordinator /\ SameMarks(w.c, c) /\ SameOffers(w.c, c) /\ c.queue = w.c.queue
    BY Fields DEF Coordinator, SameMarks, SameOffers
  <2> HIDE DEF c
  <2>3. u \in Worlds /\ u.c = c /\ u.k = w.k /\ u.s = w.s
    BY <2>2, WithCoordinator
  <2> HIDE DEF u
  <2>4. LET v == [u EXCEPT !.conf = w.c.previous] IN
          v \in Worlds /\ v.c = u.c /\ v.k = u.k /\ v.conf = w.c.previous /\ v.s = u.s
    BY <2>3, Fields DEF Worlds
  <2> QED
    BY <1>1, <2>1, <2>2, <2>3, <2>4
<1>2. CASE ~w.c.owned
  BY <1>2 DEF RemoveOverlay, SameMarks, SameOffers
<1> QED
  BY <1>1, <1>2

LEMMA BeginFields ==
  ASSUME NEW w \in Worlds, NEW t \in Nat
  PROVE  LET v == BeginOperation(w, t) IN
           /\ v \in Worlds /\ v.k = w.k /\ v.conf = w.conf /\ v.s = w.s
           /\ v.c.gen = t /\ v.c.cgen = t /\ v.c.rgen = w.c.rgen /\ v.c.set = w.c.set
           /\ SameOffers(w.c, v.c) /\ v.c.queue = w.c.queue
<1> DEFINE c == [w.c EXCEPT !.gen = t, !.cgen = t]
<1>1. BeginOperation(w, t) = [w EXCEPT !.c = c]
  BY DEF BeginOperation, Worlds
<1>2. /\ c \in Coordinator /\ c.gen = t /\ c.cgen = t /\ c.rgen = w.c.rgen
      /\ c.set = w.c.set /\ SameOffers(w.c, c) /\ c.queue = w.c.queue
  BY Fields DEF Coordinator, SameOffers
<1> HIDE DEF c
<1> QED
  BY <1>1, <1>2, WithCoordinator

LEMMA QueueFields ==
  ASSUME NEW w \in Worlds, NEW q \in Seq(Nat)
  PROVE  LET v == [w EXCEPT !.c.queue = q] IN
           /\ v \in Worlds /\ v.k = w.k /\ v.conf = w.conf /\ v.s = w.s
           /\ SameMarks(w.c, v.c) /\ SameOffers(w.c, v.c) /\ v.c.queue = q
<1> DEFINE c == [w.c EXCEPT !.queue = q]
<1>1. [w EXCEPT !.c.queue = q] = [w EXCEPT !.c = c]
  BY DEF Worlds
<1>2. c \in Coordinator /\ SameMarks(w.c, c) /\ SameOffers(w.c, c) /\ c.queue = q
  BY Fields DEF Coordinator, SameMarks, SameOffers
<1> HIDE DEF c
<1> DEFINE v == [w EXCEPT !.c = c]
<1>3. v \in Worlds /\ v.c = c /\ v.k = w.k /\ v.conf = w.conf /\ v.s = w.s
  BY <1>2, WithCoordinator
<1> HIDE DEF v
<1>4. /\ v \in Worlds /\ v.k = w.k /\ v.conf = w.conf /\ v.s = w.s
      /\ SameMarks(w.c, v.c) /\ SameOffers(w.c, v.c) /\ v.c.queue = q
  BY <1>2, <1>3
<1> QED
  BY <1>1, <1>4 DEF v

LEMMA EnqueueKeeps ==
  ASSUME NEW w \in Worlds, NEW t \in Nat
  PROVE  LET v == Enqueue(w, t) IN
           /\ v \in Worlds /\ v.k = w.k /\ v.conf = w.conf /\ v.s = w.s
           /\ SameMarks(w.c, v.c) /\ SameOffers(w.c, v.c) /\ v.c.queue = Append(w.c.queue, t)
<1> DEFINE q == Append(w.c.queue, t)
<1>1. q \in Seq(Nat)
  BY Fields
<1>2. Enqueue(w, t) = [w EXCEPT !.c.queue = q]
  BY DEF Enqueue, Worlds
<1> HIDE DEF q
<1>3. LET v == [w EXCEPT !.c.queue = q] IN
        /\ v \in Worlds /\ v.k = w.k /\ v.conf = w.conf /\ v.s = w.s
        /\ SameMarks(w.c, v.c) /\ SameOffers(w.c, v.c) /\ v.c.queue = q
  BY <1>1, QueueFields
<1> QED
  BY <1>2, <1>3 DEF q

LEMMA DequeueKeeps ==
  ASSUME NEW w \in Worlds, w.c.queue # <<>>
  PROVE  LET v == Dequeue(w) IN
           /\ v \in Worlds /\ v.k = w.k /\ v.conf = w.conf /\ v.s = w.s
           /\ SameMarks(w.c, v.c) /\ SameOffers(w.c, v.c) /\ v.c.queue = Tail(w.c.queue)
<1> DEFINE q == Tail(w.c.queue)
<1>1. q \in Seq(Nat)
  BY Fields
<1>2. Dequeue(w) = [w EXCEPT !.c.queue = q]
  BY DEF Dequeue, Worlds
<1> HIDE DEF q
<1>3. LET v == [w EXCEPT !.c.queue = q] IN
        /\ v \in Worlds /\ v.k = w.k /\ v.conf = w.conf /\ v.s = w.s
        /\ SameMarks(w.c, v.c) /\ SameOffers(w.c, v.c) /\ v.c.queue = q
  BY <1>1, QueueFields
<1> QED
  BY <1>2, <1>3 DEF q

\* The task gives up, for an operation that is current.
LEMMA FailClosedFields ==
  ASSUME NEW w \in Worlds, NEW t \in Nat, IsCurrent(w, t)
  PROVE  LET v == FailClosed(w, t) IN
           /\ v \in Worlds /\ v.conf = FailClosedLogin /\ v.s = w.s
           /\ SameMarks(w.c, v.c) /\ v.c.queue = Append(w.c.queue, t)
           /\ v.c.pending = Unset /\ v.c.offer = Unset
           /\ v.k.pc = "set" /\ v.k.key = FailClosedLogin /\ v.k.mode # "account"
           /\ v.k.own = w.k.own /\ v.k.aborted = w.k.aborted
<1> DEFINE l == FailClosedLogin
           u == NoOffers(w)
           a == ApplyOverlay(u, l)
           b == At(a, "set")
           v == Enqueue(b, t)
           acct == IF v.k.acct = Default THEN Failing ELSE v.k.acct
           mode == IF v.k.mode = "forced" THEN "forced" ELSE "fail"
           k == [v.k EXCEPT !.key = l, !.force = FALSE, !.acct = acct, !.mode = mode]
<1>1. l \in Login
  BY Values
<1>2. FailClosed(w, t) = [v EXCEPT !.k.key = l, !.k.force = FALSE, !.k.acct = acct,
                                   !.k.mode = mode]
  <2> DEFINE x == v
  <2>1. FailClosed(w, t) = [x EXCEPT !.k.key = l, !.k.force = FALSE,
                     !.k.acct = IF @ = Default THEN Failing ELSE @,
                     !.k.mode = IF @ = "forced" THEN @ ELSE "fail"]
    BY DEF FailClosed
  <2> HIDE DEF x, l
  <2> QED
    BY <2>1 DEF x
<1> HIDE DEF l
<1>3. /\ u \in Worlds /\ u.k = w.k /\ u.conf = w.conf /\ u.s = w.s
      /\ SameMarks(w.c, u.c) /\ u.c.queue = w.c.queue
      /\ u.c.pending = Unset /\ u.c.offer = Unset
  BY NoOffersFields
<1> HIDE DEF u
<1>4. /\ a \in Worlds /\ a.k = u.k /\ a.conf = l /\ a.s = u.s
      /\ SameMarks(u.c, a.c) /\ SameOffers(u.c, a.c) /\ a.c.queue = u.c.queue
  BY <1>1, <1>3, ApplyOverlayFields
<1> HIDE DEF a
<1>5. /\ b \in Worlds /\ b.c = a.c /\ b.conf = a.conf /\ b.s = a.s
      /\ b.k.pc = "set" /\ SameTask(a.k, b.k)
  BY <1>4, AtFields DEF Waiting
<1> HIDE DEF b
<1>6. /\ v \in Worlds /\ v.k = b.k /\ v.conf = b.conf /\ v.s = b.s
      /\ SameMarks(b.c, v.c) /\ SameOffers(b.c, v.c) /\ v.c.queue = Append(b.c.queue, t)
  BY <1>5, EnqueueKeeps
<1> HIDE DEF v
<1>7. acct \in Selections \cup {Failing} /\ mode \in {"fail", "forced"}
  BY <1>6, Fields DEF Task
<1> HIDE DEF acct, mode
<1>8. /\ k \in Task /\ k.pc = v.k.pc /\ k.key = l /\ k.mode = mode /\ k.own = v.k.own
      /\ k.aborted = v.k.aborted
  BY <1>1, <1>6, <1>7, Fields DEF Task
<1>9. [v EXCEPT !.k.key = l, !.k.force = FALSE, !.k.acct = acct, !.k.mode = mode]
        = [v EXCEPT !.k = k]
  BY <1>6 DEF Worlds
<1> HIDE DEF k
<1> DEFINE x == [v EXCEPT !.k = k]
<1>10. x \in Worlds /\ x.c = v.c /\ x.k = k /\ x.conf = v.conf /\ x.s = v.s
  BY <1>6, <1>8, WithTask
<1>11. FailClosed(w, t) = x
  BY <1>2, <1>9
<1> HIDE DEF x
<1>12. x.conf = l /\ x.s = w.s /\ x.c.queue = Append(w.c.queue, t)
  BY <1>3, <1>4, <1>5, <1>6, <1>10
<1>13. SameMarks(w.c, x.c)
  BY <1>3, <1>4, <1>5, <1>6, <1>10 DEF SameMarks
<1>14. x.c.pending = Unset /\ x.c.offer = Unset
  BY <1>3, <1>4, <1>5, <1>6, <1>10 DEF SameOffers
<1>15. /\ x.k.pc = "set" /\ x.k.key = l /\ x.k.mode # "account"
       /\ x.k.own = w.k.own /\ x.k.aborted = w.k.aborted
  BY <1>3, <1>4, <1>5, <1>6, <1>7, <1>8, <1>10 DEF SameTask
<1> QED
  BY <1>10, <1>11, <1>12, <1>13, <1>14, <1>15 DEF l

-----------------------------------------------------------------------------
(* The end of a task, and of the newest one *)

\* A turn that becomes ready has the result of the newest task.
Turned(s, z, k, t) ==
    z.run = "ready" /\ s.run # "ready" =>
        LET l == IF Latest = t THEN k ELSE task[Latest] IN
        s.phase = "up" /\ l.pc = "done" /\ z.abort = (l.res.status = "error")

LEMMA EndFields ==
  ASSUME NEW w \in Worlds, task \in Seq(Task), NEW t \in DOMAIN task, NEW r \in Result
  PROVE  LET v == End(w, t, r) IN
           /\ v \in Worlds /\ v.c = w.c /\ v.conf = w.conf
           /\ v.k.pc = "done" /\ v.k.own = w.k.own /\ ~v.k.aborted /\ v.k.res = r /\ v.k.mode = "account"
           /\ SameSelection(w.s, v.s) /\ v.s.res = w.s.res /\ Turned(w.s, v.s, v.k, t)
<1> DEFINE new == NewTask(w.k.own, Default, FALSE)
           k == [new EXCEPT !.pc = "done", !.res = r]
           s == IF w.s.turn # t THEN w.s
                ELSE IF ~IsOwnerCurrent(w) THEN [w.s EXCEPT !.run = "no", !.turn = 0]
                ELSE IF Latest = t THEN TurnReady(w.s, r)
                ELSE IF task[Latest].pc = "done" THEN TurnReady(w.s, task[Latest].res)
                ELSE [w.s EXCEPT !.turn = Latest]
<1>1. /\ k \in Task /\ k.own = w.k.own /\ k.pc = "done" /\ ~k.aborted /\ k.res = r
      /\ k.mode = "account"
  <2>1. new \in Task /\ new.own = w.k.own /\ ~new.aborted /\ new.mode = "account"
    <3>1. new \in Task
      BY Fields, NewValues DEF Selections
    <3> QED
      BY <3>1 DEF NewTask
  <2> HIDE DEF new
  <2> QED
    BY <2>1 DEF Task
<1>2. w.s \in Session
  BY Fields
<1>3. s \in Session /\ SameSelection(w.s, s) /\ s.res = w.s.res
  <2>1. \A x \in Result : LET z == TurnReady(w.s, x) IN
                            z \in Session /\ SameSelection(w.s, z) /\ z.res = w.s.res
    BY <1>2 DEF TurnReady, Session, SameSelection
  <2>2. \A x \in Nat : LET z == [w.s EXCEPT !.turn = x] IN
                         z \in Session /\ SameSelection(w.s, z) /\ z.res = w.s.res
    BY <1>2 DEF Session, SameSelection
  <2>3. LET z == [w.s EXCEPT !.run = "no", !.turn = 0] IN
          z \in Session /\ SameSelection(w.s, z) /\ z.res = w.s.res
    BY <1>2 DEF Session, SameSelection
  <2>4. task[Latest].res \in Result /\ Latest \in Nat
    <3>1. task[Latest] \in Task /\ Latest \in Nat
      BY DEF Latest
    <3> QED
      BY <3>1 DEF Task
  <2> QED
    BY <1>2, <2>1, <2>2, <2>3, <2>4 DEF SameSelection
<1>4. Turned(w.s, s, k, t)
  <2>1. ASSUME s.run = "ready", w.s.run # "ready"
        PROVE  /\ IsOwnerCurrent(w)
               /\ \/ Latest = t /\ s = TurnReady(w.s, r)
                  \/ /\ Latest # t /\ task[Latest].pc = "done"
                     /\ s = TurnReady(w.s, task[Latest].res)
    <3>1. [w.s EXCEPT !.run = "no", !.turn = 0].run = "no"
      BY <1>2 DEF Session
    <3>2. [w.s EXCEPT !.turn = Latest].run = w.s.run
      BY <1>2 DEF Session
    <3> QED
      BY <2>1, <3>1, <3>2
  <2>2. \A x : TurnReady(w.s, x).abort = (x.status = "error")
    BY <1>2 DEF TurnReady, Session
  <2> HIDE DEF s
  <2> QED
    BY <1>1, <2>1, <2>2 DEF Turned, IsOwnerCurrent
<1>5. End(w, t, r) = [w EXCEPT !.k = k, !.s = s]
  BY Fields DEF End, Worlds
<1> HIDE DEF k, s
<1>6. LET v == [w EXCEPT !.k = k, !.s = s] IN
        v \in Worlds /\ v.c = w.c /\ v.conf = w.conf /\ v.k = k /\ v.s = s
  BY <1>1, <1>3, Parts DEF Worlds
<1> QED
  BY <1>1, <1>3, <1>4, <1>5, <1>6

\* The session gets the result, or another identity.
LEMMA SessionFields ==
  ASSUME NEW w \in Worlds
  PROVE  /\ \A r \in Result : LET v == [w EXCEPT !.s.res = r] IN
              /\ v \in Worlds /\ v.c = w.c /\ v.k = w.k /\ v.conf = w.conf
              /\ SameSelection(w.s, v.s) /\ v.s.res = r /\ v.s.run = w.s.run
         /\ \A l \in Login : LET v == [w EXCEPT !.s.ident = l] IN
              /\ v \in Worlds /\ v.c = w.c /\ v.k = w.k /\ v.conf = w.conf
              /\ SameSelection(w.s, v.s) /\ v.s.res = w.s.res /\ v.s.run = w.s.run
<1>1. w.s \in Session
  BY Fields
<1>2. ASSUME NEW s \in Session
      PROVE  LET v == [w EXCEPT !.s = s] IN
               v \in Worlds /\ v.c = w.c /\ v.k = w.k /\ v.conf = w.conf /\ v.s = s
  BY Parts DEF Worlds
<1>3. ASSUME NEW r \in Result
      PROVE  LET v == [w EXCEPT !.s.res = r] IN
              /\ v \in Worlds /\ v.c = w.c /\ v.k = w.k /\ v.conf = w.conf
              /\ SameSelection(w.s, v.s) /\ v.s.res = r /\ v.s.run = w.s.run
  <2> DEFINE s == [w.s EXCEPT !.res = r]
  <2>1. s \in Session /\ SameSelection(w.s, s) /\ s.res = r /\ s.run = w.s.run
    BY <1>1 DEF Session, SameSelection
  <2>2. [w EXCEPT !.s.res = r] = [w EXCEPT !.s = s]
    BY DEF Worlds
  <2> HIDE DEF s
  <2> QED
    BY <1>2, <2>1, <2>2
<1>4. ASSUME NEW l \in Login
      PROVE  LET v == [w EXCEPT !.s.ident = l] IN
              /\ v \in Worlds /\ v.c = w.c /\ v.k = w.k /\ v.conf = w.conf
              /\ SameSelection(w.s, v.s) /\ v.s.res = w.s.res /\ v.s.run = w.s.run
  <2> DEFINE s == [w.s EXCEPT !.ident = l]
  <2>1. s \in Session /\ SameSelection(w.s, s) /\ s.res = w.s.res /\ s.run = w.s.run
    BY <1>1 DEF Session, SameSelection
  <2>2. [w EXCEPT !.s.ident = l] = [w EXCEPT !.s = s]
    BY DEF Worlds
  <2> HIDE DEF s
  <2> QED
    BY <1>2, <2>1, <2>2
<1> QED
  BY <1>3, <1>4

LEMMA PublishFields ==
  ASSUME NEW w \in Worlds, task \in Seq(Task), NEW t \in DOMAIN task, NEW r \in Result,
         IsCurrent(w, t)
  PROVE  LET v == Publish(w, t, r) IN
           /\ v \in Worlds /\ v.conf = w.conf
           /\ SameMarks(w.c, v.c) /\ v.c.queue = w.c.queue
           /\ v.c.offer = (IF r.status = "active" THEN w.c.pending ELSE Unset)
           /\ v.k.pc = "done" /\ v.k.own = w.k.own /\ ~v.k.aborted /\ v.k.res = r /\ v.k.mode = "account"
           /\ SameSelection(w.s, v.s) /\ v.s.res = r /\ Turned(w.s, v.s, v.k, t)
<1> DEFINE unset == Unset
           offer == IF r.status = "active" THEN w.c.pending ELSE unset
           c == [w.c EXCEPT !.offer = offer, !.pending = unset]
           p == [w EXCEPT !.c = c]
           q == [p EXCEPT !.s.res = r]
           v == End(q, t, r)
<1>1. unset \in Login
  BY Values
<1>2. Publish(w, t, r) = v
  BY DEF Publish, PublishCredentialOffer, Worlds
<1> HIDE DEF unset
<1>3. offer \in Login
  BY <1>1, Fields
<1> HIDE DEF offer
<1>4. c \in Coordinator /\ SameMarks(w.c, c) /\ c.queue = w.c.queue /\ c.offer = offer
  BY <1>1, <1>3, Fields DEF Coordinator, SameMarks
<1> HIDE DEF c
<1>5. p \in Worlds /\ p.c = c /\ p.k = w.k /\ p.conf = w.conf /\ p.s = w.s
  BY <1>4, WithCoordinator
<1> HIDE DEF p
<1>6. /\ q \in Worlds /\ q.c = p.c /\ q.k = p.k /\ q.conf = p.conf
      /\ SameSelection(p.s, q.s) /\ q.s.res = r /\ q.s.run = p.s.run
  BY <1>5, SessionFields
<1> HIDE DEF q
<1>7. /\ v \in Worlds /\ v.c = q.c /\ v.conf = q.conf
      /\ v.k.pc = "done" /\ v.k.own = q.k.own /\ ~v.k.aborted /\ v.k.res = r /\ v.k.mode = "account"
      /\ SameSelection(q.s, v.s) /\ v.s.res = q.s.res /\ Turned(q.s, v.s, v.k, t)
  BY <1>6, EndFields
<1> HIDE DEF v
<1>8. SameSelection(w.s, v.s) /\ Turned(w.s, v.s, v.k, t)
  BY <1>5, <1>6, <1>7 DEF SameSelection, Turned
<1> QED
  BY <1>2, <1>4, <1>5, <1>6, <1>7, <1>8 DEF offer, unset

\* For a task that is not superseded: the result is published, or the
\* connections are invalidated first.
LEMMA SettleFields ==
  ASSUME NEW w \in Worlds, task \in Seq(Task), NEW t \in DOMAIN task, NEW r \in Result,
         IsCurrent(w, t), ~Superseded(w, t)
  PROVE  LET v == Settle(w, t, r) IN
           /\ v \in Worlds /\ v.conf = w.conf
           /\ SameMarks(w.c, v.c) /\ v.c.queue = w.c.queue
           /\ SameSelection(w.s, v.s) /\ Turned(w.s, v.s, v.k, t)
           /\ v.k.own = w.k.own /\ (v.k.aborted => w.k.aborted) /\ v.k.res = r
           /\ \/ /\ v.k.pc = "done" /\ v.k.mode = "account" /\ v.s.res = r
                 /\ v.c.offer = (IF r.status = "active" THEN w.c.pending ELSE Unset)
              \/ /\ v.k.pc = "conns" /\ v.k.mode = w.k.mode /\ v.k.acct = w.k.acct
                 /\ SameOffers(w.c, v.c)
<1> DEFINE id == Identity(w, r)
           x == [w EXCEPT !.s.ident = id]
           u == At(w, "conns")
           k == [u.k EXCEPT !.res = r]
           Good(v) == 
             /\ v \in Worlds /\ v.conf = w.conf
             /\ SameMarks(w.c, v.c) /\ v.c.queue = w.c.queue
             /\ SameSelection(w.s, v.s) /\ Turned(w.s, v.s, v.k, t)
             /\ v.k.own = w.k.own /\ (v.k.aborted => w.k.aborted) /\ v.k.res = r
             /\ \/ /\ v.k.pc = "done" /\ v.k.mode = "account" /\ v.s.res = r
                   /\ v.c.offer = (IF r.status = "active" THEN w.c.pending ELSE Unset)
                \/ /\ v.k.pc = "conns" /\ v.k.mode = w.k.mode /\ v.k.acct = w.k.acct
                   /\ SameOffers(w.c, v.c)
<1>1. Settle(w, t, r) \in {Publish(w, t, r), [u EXCEPT !.k.res = r], Publish(x, t, r)}
  BY DEF Settle
<1>2. id \in Login
  BY IdentityIsLogin
<1> HIDE DEF id
<1>3. Good(Publish(w, t, r))
  BY PublishFields
<1>4. Good(Publish(x, t, r))
  <2>1. /\ x \in Worlds /\ x.c = w.c /\ x.k = w.k /\ x.conf = w.conf
        /\ SameSelection(w.s, x.s) /\ x.s.run = w.s.run
    BY <1>2, SessionFields
  <2> HIDE DEF x
  <2> DEFINE v == Publish(x, t, r)
  <2>2. /\ v \in Worlds /\ v.conf = x.conf
        /\ SameMarks(x.c, v.c) /\ v.c.queue = x.c.queue
        /\ v.c.offer = (IF r.status = "active" THEN x.c.pending ELSE Unset)
        /\ v.k.pc = "done" /\ v.k.own = x.k.own /\ ~v.k.aborted /\ v.k.res = r /\ v.k.mode = "account"
        /\ SameSelection(x.s, v.s) /\ v.s.res = r /\ Turned(x.s, v.s, v.k, t)
    BY <2>1, PublishFields DEF IsCurrent
  <2> HIDE DEF v
  <2>3. SameSelection(w.s, v.s) /\ Turned(w.s, v.s, v.k, t)
    BY <2>1, <2>2 DEF SameSelection, Turned
  <2>4. Good(v)
    BY <2>1, <2>2, <2>3
  <2> QED
    BY <2>4 DEF v
<1>5. Good([u EXCEPT !.k.res = r])
  <2>1. /\ u \in Worlds /\ u.c = w.c /\ u.conf = w.conf /\ u.s = w.s
        /\ u.k.pc = "conns" /\ SameTask(w.k, u.k)
    BY AtFields DEF Waiting
  <2> HIDE DEF u
  <2>2. /\ k \in Task /\ k.own = u.k.own /\ k.pc = "conns" /\ k.aborted = u.k.aborted
        /\ k.mode = u.k.mode /\ k.acct = u.k.acct /\ k.res = r
    BY <2>1, Fields DEF Task
  <2>3. [u EXCEPT !.k.res = r] = [u EXCEPT !.k = k]
    BY <2>1 DEF Worlds
  <2> HIDE DEF k
  <2> DEFINE v == [u EXCEPT !.k = k]
  <2>4. v \in Worlds /\ v.c = u.c /\ v.k = k /\ v.conf = u.conf /\ v.s = u.s
    BY <2>1, <2>2, WithTask
  <2> HIDE DEF v
  <2>5. Good(v)
    BY <2>1, <2>2, <2>4 DEF SameMarks, SameOffers, SameSelection, SameTask, Turned
  <2> QED
    BY <2>3, <2>5 DEF v
<1> QED
  BY <1>1, <1>3, <1>4, <1>5

LEMMA SupersededSettles ==
  ASSUME NEW w, NEW t, Superseded(w, t)
  PROVE  /\ \A r : Settle(w, t, r) = End(w, t, Inactive)
         /\ ~IsCurrent(w, t) => /\ FailClosed(w, t) = End(w, t, Inactive)
                                /\ Retry(w, t) = End(w, t, Inactive)
                                /\ RestoreFails(w, t) = End(w, t, Inactive)
                                /\ NotApplied(w, t) = End(w, t, Inactive)
BY DEF Settle, FailClosed, Retry, RestoreFails, NotApplied

-----------------------------------------------------------------------------
(* What the operators make of the newest task *)

\* The step of a task goes from w to v, which it commits.
Proceeds(w, v, t) ==
    /\ v \in Worlds /\ SameSelection(w.s, v.s) /\ Turned(w.s, v.s, v.k, t)
    /\ v.k.own = w.k.own /\ (v.k.aborted => w.k.aborted)
    /\ v.c.set = w.c.set

LEMMA ProceedsComposes ==
  ASSUME NEW u, NEW w, NEW v, NEW t, Proceeds(w, v, t), SameSelection(u.s, w.s),
         u.s.run = w.s.run, w.k.own = u.k.own, w.k.aborted => u.k.aborted, w.c.set = u.c.set
  PROVE  Proceeds(u, v, t)
BY DEF Proceeds, SameSelection, Turned

LEMMA FailClosedAgrees ==
  ASSUME NEW w \in Worlds, NEW t \in Nat, w.c.gen = t, w.c.cgen = t,
         w.c.rgen = (IF w.s.bad THEN 0 ELSE t), NEW k, NEW kept, NEW blamed, blamed
  PROVE  LET v == FailClosed(w, t) IN
           /\ Agreed(v, t, k, kept, blamed) /\ Proceeds(w, v, t)
           /\ v.k.pc = "set" /\ v.c.queue = Append(w.c.queue, t) /\ v.s = w.s
<1> DEFINE v == FailClosed(w, t)
<1>1. /\ v \in Worlds /\ v.conf = FailClosedLogin /\ v.s = w.s
      /\ SameMarks(w.c, v.c) /\ v.c.queue = Append(w.c.queue, t)
      /\ v.c.pending = Unset /\ v.c.offer = Unset
      /\ v.k.pc = "set" /\ v.k.key = FailClosedLogin /\ v.k.mode # "account"
      /\ v.k.own = w.k.own /\ v.k.aborted = w.k.aborted
  BY FailClosedFields DEF IsCurrent
<1> HIDE DEF v
<1>2. Generations(v, t)
  BY <1>1 DEF Generations, SameMarks
<1>3. Selected(v, blamed) /\ Concludes(v, k, kept, blamed)
  BY <1>1 DEF Selected, Concludes
<1>4. Applying(v, k, kept)
  BY <1>1 DEF Applying, FailClosedLogin, Unset, LoginOf
<1>5. Proceeds(w, v, t)
  BY <1>1 DEF Proceeds, SameMarks, SameSelection, Turned
<1> QED
  BY <1>1, <1>2, <1>3, <1>4, <1>5 DEF Agreed, v

\* The activation begins, or begins again.
LEMMA EnsureActiveAgrees ==
  ASSUME NEW w \in Worlds, NEW t \in Nat, NEW k, NEW kept, NEW blamed,
         w.k.mode = "account", w.k.acct = w.s.sel, ~w.s.bad, w.k.aborted => blamed
  PROVE  LET v == EnsureActive(w, t) IN
           /\ Agreed(v, t, k, kept, blamed) /\ Proceeds(w, v, t)
           /\ \/ v.k.pc = "read" /\ v.c.queue = w.c.queue
              \/ v.k.pc = "set" /\ v.c.queue = Append(w.c.queue, t)
           /\ v.s = w.s
<1> DEFINE n == NoOffers(w)
           u == At(n, "read")
           x == BeginOperation(u, t)
           c == [x.c EXCEPT !.rgen = t]
           b == [x EXCEPT !.c = c]
<1>1. EnsureActive(w, t) = IF b.k.aborted THEN FailClosed(b, t) ELSE b
  <2>1. [x EXCEPT !.c.rgen = t] = b
    BY DEF BeginOperation, At, NoOffers, Worlds
  <2> QED
    BY <2>1 DEF EnsureActive
<1>2. /\ n \in Worlds /\ n.k = w.k /\ n.conf = w.conf /\ n.s = w.s
      /\ SameMarks(w.c, n.c) /\ n.c.queue = w.c.queue
      /\ n.c.pending = Unset /\ n.c.offer = Unset
  BY NoOffersFields
<1> HIDE DEF n
<1>3. /\ u \in Worlds /\ u.c = n.c /\ u.conf = n.conf /\ u.s = n.s
      /\ u.k.pc = "read" /\ SameTask(n.k, u.k)
  BY <1>2, AtFields DEF Waiting
<1> HIDE DEF u
<1>4. /\ x \in Worlds /\ x.k = u.k /\ x.conf = u.conf /\ x.s = u.s
      /\ x.c.gen = t /\ x.c.cgen = t /\ x.c.set = u.c.set
      /\ SameOffers(u.c, x.c) /\ x.c.queue = u.c.queue
  BY <1>3, BeginFields
<1> HIDE DEF x
<1>5. /\ c \in Coordinator /\ c.gen = t /\ c.cgen = t /\ c.rgen = t /\ c.set = x.c.set
      /\ SameOffers(x.c, c) /\ c.queue = x.c.queue
  BY <1>4, Fields DEF Coordinator, SameOffers
<1> HIDE DEF c
<1>6. b \in Worlds /\ b.c = c /\ b.k = x.k /\ b.conf = x.conf /\ b.s = x.s
  BY <1>4, <1>5, WithCoordinator
<1> HIDE DEF b
<1>7. /\ b.s = w.s /\ b.c.gen = t /\ b.c.cgen = t /\ b.c.rgen = t /\ b.c.set = w.c.set
      /\ b.c.offer = Unset /\ b.c.queue = w.c.queue
      /\ b.k.pc = "read" /\ SameTask(w.k, b.k)
  BY <1>2, <1>3, <1>4, <1>5, <1>6 DEF SameMarks, SameOffers, SameTask
<1>8. CASE b.k.aborted
  <2> DEFINE v == FailClosed(b, t)
  <2>1. blamed
    BY <1>7, <1>8 DEF SameTask
  <2>2. b.c.rgen = (IF b.s.bad THEN 0 ELSE t)
    BY <1>7
  <2>3. /\ Agreed(v, t, k, kept, blamed) /\ Proceeds(b, v, t)
        /\ v.k.pc = "set" /\ v.c.queue = Append(b.c.queue, t) /\ v.s = b.s
    BY <1>6, <1>7, <2>1, <2>2, FailClosedAgrees
  <2> HIDE DEF v
  <2>4. Proceeds(w, v, t)
    BY <1>7, <2>3, ProceedsComposes DEF SameTask, SameSelection
  <2> QED
    BY <1>1, <1>7, <1>8, <2>3, <2>4 DEF v
<1>9. CASE ~b.k.aborted
  <2>1. Generations(b, t) /\ Applying(b, k, kept)
    BY <1>7 DEF Generations, Applying
  <2>2. Selected(b, blamed) /\ Concludes(b, k, kept, blamed)
    BY <1>7 DEF Selected, Concludes, SameTask
  <2>3. Proceeds(w, b, t)
    BY <1>6, <1>7 DEF Proceeds, SameTask, SameSelection, Turned
  <2> QED
    BY <1>1, <1>7, <1>9, <2>1, <2>2, <2>3 DEF Agreed
<1> QED
  BY <1>8, <1>9

LEMMA SettleAgrees ==
  ASSUME NEW w \in Worlds, task \in Seq(Task), NEW t \in DOMAIN task, NEW r \in Result,
         NEW k, NEW kept, NEW blamed, ~Superseded(w, t),
         w.c.gen = t, w.c.cgen \in {0, t}, w.c.rgen = (IF w.s.bad THEN 0 ELSE t),
         w.k.mode = "account" => w.k.acct = w.s.sel /\ ~w.s.bad,
         w.k.mode # "account" => blamed,
         Concluded(r, w.s, k, w.conf, kept, blamed),
         r.status = "active" => w.c.pending = k, w.c.offer = Unset
  PROVE  LET v == Settle(w, t, r) IN
           /\ Agreed(v, t, k, kept, blamed) /\ Proceeds(w, v, t)
           /\ v.k.pc \in {"conns", "done"} /\ v.c.queue = w.c.queue
<1> DEFINE v == Settle(w, t, r)
<1>1. /\ v \in Worlds /\ v.conf = w.conf
      /\ SameMarks(w.c, v.c) /\ v.c.queue = w.c.queue
      /\ SameSelection(w.s, v.s) /\ Turned(w.s, v.s, v.k, t)
      /\ v.k.own = w.k.own /\ (v.k.aborted => w.k.aborted) /\ v.k.res = r
      /\ \/ /\ v.k.pc = "done" /\ v.k.mode = "account" /\ v.s.res = r
            /\ v.c.offer = (IF r.status = "active" THEN w.c.pending ELSE Unset)
         \/ /\ v.k.pc = "conns" /\ v.k.mode = w.k.mode /\ v.k.acct = w.k.acct
            /\ SameOffers(w.c, v.c)
  BY SettleFields DEF IsCurrent
<1> HIDE DEF v
<1>2. v.k.pc \in {"conns", "done"}
  BY <1>1
<1>3. Generations(v, t)
  BY <1>1, <1>2 DEF Generations, SameMarks, SameSelection
<1>4. Selected(v, blamed)
  <2>1. CASE v.k.pc = "done"
    BY <1>1, <2>1 DEF Selected
  <2>2. CASE v.k.pc = "conns"
    BY <1>1, <2>2 DEF Selected, SameSelection
  <2> QED
    BY <1>2, <2>1, <2>2
<1>5. Applying(v, k, kept)
  BY <1>2 DEF Applying
<1>6. Concludes(v, k, kept, blamed)
  <2>1. Concluded(r, v.s, k, v.conf, kept, blamed)
    BY <1>1 DEF Concluded, SameSelection
  <2> QED
    BY <1>1, <2>1 DEF Concludes, SameOffers
<1>7. Proceeds(w, v, t)
  BY <1>1 DEF Proceeds, SameMarks
<1> QED
  BY <1>1, <1>2, <1>3, <1>4, <1>5, <1>6, <1>7 DEF Agreed, v

-----------------------------------------------------------------------------
(* Steps of the newest task, and of the others *)

LEMMA Committed ==
  ASSUME ActivationInv, NEW t \in DOMAIN task, NEW v \in Worlds, v.k.own = task[t].own,
         Commit(t, v)
  PROVE  LET o == task[t].own IN
         /\ o \in DOMAIN coord /\ ses.n \in Nat /\ Len(coord) = ses.n
         /\ coord' \in Seq(Coordinator) /\ task' \in Seq(Task)
         /\ DOMAIN coord' = DOMAIN coord /\ coord'[o] = v.c
         /\ \A p \in DOMAIN coord : p # o => coord'[p] = coord[p]
         /\ DOMAIN task' = DOMAIN task /\ Latest' = Latest /\ Latest \in Nat /\ task'[t] = v.k
         /\ DOMAIN task = 1 .. Latest
         /\ \A p \in DOMAIN task : p # t => task'[p] = task[p]
         /\ conf' = v.conf /\ ses' = v.s
         /\ task' [t].own = task[t].own
         /\ [c |-> v.c, k |-> v.k, conf |-> v.conf, s |-> v.s] = v
<1> DEFINE o == task[t].own
<1>1. o \in DOMAIN coord /\ v.c \in Coordinator /\ v.k \in Task
  BY WorldFacts, Fields
<1>2. /\ coord' \in Seq(Coordinator) /\ DOMAIN coord' = DOMAIN coord /\ coord'[o] = v.c
      /\ \A p \in DOMAIN coord : p # o => coord'[p] = coord[p]
  BY <1>1 DEF Commit, ActivationInv
<1>3. /\ task' \in Seq(Task) /\ DOMAIN task' = DOMAIN task /\ Len(task') = Len(task)
      /\ task'[t] = v.k /\ \A p \in DOMAIN task : p # t => task'[p] = task[p]
      /\ Len(task) \in Nat /\ DOMAIN task = 1 .. Len(task)
  BY <1>1 DEF Commit, ActivationInv
<1>4. conf' = v.conf /\ ses' = v.s
  BY DEF Commit
<1>5. ses.n \in Nat /\ Len(coord) = ses.n
  BY DEF ActivationInv, Shape, Session
<1>6. [c |-> v.c, k |-> v.k, conf |-> v.conf, s |-> v.s] = v
  BY DEF Worlds
<1> QED
  BY <1>1, <1>2, <1>3, <1>4, <1>5, <1>6 DEF Latest

\* Agreed asks nothing of the key before it is written, and of a failure only
\* that there is something to blame.
LEMMA StillAgreed ==
  ASSUME NEW w, NEW v, NEW t, NEW k, NEW l, NEW kept, NEW kept2, NEW blamed, NEW blamed2,
         Agreed(w, t, k, kept, blamed),
         /\ v.k.pc = w.k.pc /\ v.k.mode = w.k.mode /\ v.k.acct = w.k.acct
         /\ v.k.key = w.k.key /\ v.k.res = w.k.res,
         v.conf = w.conf, SameSelection(w.s, v.s), v.s.res = w.s.res,
         v.c.gen = w.c.gen, v.c.cgen = w.c.cgen, v.c.rgen = w.c.rgen, SameOffers(w.c, v.c),
         kept => kept2, blamed => blamed2, k = l \/ w.k.pc \in Enqueued \cup Early
  PROVE  Agreed(v, t, l, kept2, blamed2)
<1>1. Generations(v, t)
  BY DEF Agreed, Generations, SameSelection
<1>2. Selected(v, blamed2)
  BY DEF Agreed, Selected, SameSelection
<1>3. Applying(v, l, kept2)
  BY DEF Agreed, Applying, SameSelection, Enqueued, Early
<1>4. Concludes(v, l, kept2, blamed2)
  <2>1. k = l /\ Concluded(w.k.res, w.s, k, w.conf, kept, blamed)
           => Concluded(v.k.res, v.s, l, v.conf, kept2, blamed2)
    BY DEF Concluded, SameSelection
  <2>2. k = l \/ w.k.pc \notin {"conns", "done"}
    BY DEF Enqueued, Early
  <2> QED
    BY <2>1, <2>2 DEF Agreed, Concludes, SameSelection, SameOffers
<1> QED
  BY <1>1, <1>2, <1>3, <1>4 DEF Agreed

\* Where a task goes with the queue, from p and q to r and z.
Moves(t, p, q, r, z) ==
    \/ p \notin Enqueued /\ r \notin Enqueued /\ z = q /\ (r \in Early \/ p \notin Early)
    \/ p \notin Enqueued /\ r \in {"set", "clear"} /\ z = Append(q, t)
    \/ /\ p \in Enqueued /\ q # <<>> /\ Head(q) = t
       /\ \/ r \notin Enqueued /\ z = Tail(q)
          \/ r = "set" /\ z = Append(Tail(q), t)
          \/ r = "setting" /\ z = q

LEMMA MovesKeep ==
  ASSUME NEW q \in Seq(Nat), NEW z, NEW t \in Nat, NEW p, NEW r, Moves(t, p, q, r, z),
         NEW S, NEW T, T \subseteq S \cup {t}, (t \in T) <=> (r = "clear"), InPlace(q, t, p, S)
  PROVE  /\ InPlace(z, t, r, T)
         /\ r = "clear" => Has(z, t)
         /\ \A x : x # t /\ Has(q, x) => Has(z, x)
<1>1. CASE p \notin Enqueued /\ r \notin Enqueued /\ z = q /\ (r \in Early \/ p \notin Early)
  BY <1>1 DEF Enqueued, InPlace
<1>2. CASE p \notin Enqueued /\ r \in {"set", "clear"} /\ z = Append(q, t)
  <2>1. Once(z, t, T)
    BY <1>2, OnceAppended DEF InPlace
  <2>2. \A x : x = t \/ Has(q, x) => Has(z, x)
    BY <1>2, QueueElements
  <2> QED
    BY <1>2, <2>1, <2>2 DEF Enqueued, InPlace
<1>3. ASSUME p \in Enqueued, q # <<>>, Head(q) = t
      PROVE  /\ Once(q, t, S) /\ ~Has(Tail(q), t) /\ Tail(q) \in Seq(Nat)
             /\ \A x : x # t /\ Has(q, x) => Has(Tail(q), x)
  BY <1>3, OnceFirst, QueueElements DEF InPlace
<1>4. CASE p \in Enqueued /\ q # <<>> /\ Head(q) = t /\ r \notin Enqueued /\ z = Tail(q)
  BY <1>3, <1>4 DEF InPlace, Enqueued
<1>5. CASE p \in Enqueued /\ q # <<>> /\ Head(q) = t /\ r = "set" /\ z = Append(Tail(q), t)
  <2>1. Once(z, t, T)
    BY <1>3, <1>5, OnceAppended
  <2>2. \A x : x = t \/ Has(Tail(q), x) => Has(z, x)
    BY <1>3, <1>5, QueueElements
  <2> QED
    BY <1>3, <1>5, <2>1, <2>2 DEF Enqueued, InPlace
<1>6. CASE p \in Enqueued /\ q # <<>> /\ Head(q) = t /\ r = "setting" /\ z = q
  <2>1. T \subseteq S
    BY <1>6
  <2>2. Once(z, t, T)
    BY <1>3, <1>6, <2>1, OnceOfFewer
  <2> QED
    BY <1>6, <2>2 DEF Enqueued, InPlace
<1> QED
  BY <1>1, <1>2, <1>4, <1>5, <1>6 DEF Moves

LEMMA NewestKeeps ==
  ASSUME ActivationInv, AgreeInv, ses.phase = "up", NEW t, t = Latest,
         NEW v \in Worlds, Commit(t, v), v.k.own = task[t].own,
         SameSelection(ses, v.s), v.k.aborted => task[t].aborted, v.c.set \in {Unset, key'},
         Agreed(v, t, key', refused', Blamed'),
         Moves(t, task[t].pc, coord[ses.n].queue, v.k.pc, v.c.queue),
         v.k.pc = "refreshing" => lock' = t \/ upsets' > 0,
         upsets > 0 => upsets' > 0, lock # t /\ lock # 0 => lock' = lock
  PROVE  AgreeInv'
<1> DEFINE n == ses.n
           before == coord[ses.n].queue
<1>1. /\ t \in DOMAIN task /\ task[t].own = n
      /\ InPlace(before, t, task[t].pc, Clearing)
      /\ task[t].pc \notin Enqueued \cup Early
           => \A p \in DOMAIN task : task[p].pc \notin {"clear", "setting"}
  BY DEF AgreeInv, NewestInv, Placed, Newest, Mine
<1>2. /\ n \in DOMAIN coord /\ n \in Nat
      /\ DOMAIN coord' = DOMAIN coord /\ coord'[n] = v.c
      /\ \A p \in DOMAIN coord : p # n => coord'[p] = coord[p]
      /\ DOMAIN task' = DOMAIN task /\ Latest' = t /\ task'[t] = v.k
      /\ DOMAIN task = 1 .. Latest /\ Latest \in Nat
      /\ \A p \in DOMAIN task : p # t => task'[p] = task[p]
      /\ conf' = v.conf /\ ses' = v.s /\ task'[t].own = n
      /\ [c |-> v.c, k |-> v.k, conf |-> v.conf, s |-> v.s] = v
  BY <1>1, Committed
<1>3. before \in Seq(Nat) /\ t \in Nat /\ t # 0
  <2>1. coord[n] \in Coordinator
    BY <1>2 DEF ActivationInv
  <2> QED
    BY <1>1, <1>2, <2>1 DEF Coordinator
<1>4. ses'.n = n /\ ses'.phase = "up" /\ ses'.sel = ses.sel /\ ses'.bad = ses.bad
  BY <1>2 DEF SameSelection
<1>5. Clearing' = {p \in DOMAIN task' : task'[p].pc = "clear"}
  BY DEF Clearing
<1> DEFINE Waiters == Clearing'
<1>6. Waiters \subseteq Clearing \cup {t} /\ (t \in Waiters <=> v.k.pc = "clear")
  BY <1>1, <1>2, <1>5 DEF Clearing
<1> HIDE DEF Waiters, before, n
<1>7. /\ InPlace(v.c.queue, t, v.k.pc, Waiters)
      /\ v.k.pc = "clear" => Has(v.c.queue, t)
      /\ \A x : x # t /\ Has(before, x) => Has(v.c.queue, x)
  <2> DEFINE pc == task[t].pc
             next == v.k.pc
             after == v.c.queue
  <2>1. Moves(t, pc, before, next, after) /\ InPlace(before, t, pc, Clearing)
    BY <1>1 DEF before
  <2>2. Waiters \subseteq Clearing \cup {t} /\ (t \in Waiters <=> next = "clear")
    BY <1>6
  <2> HIDE DEF pc, next, after
  <2>3. /\ InPlace(after, t, next, Waiters)
        /\ next = "clear" => Has(after, t)
        /\ \A x : x # t /\ Has(before, x) => Has(after, x)
    BY <1>3, <2>1, <2>2, MovesKeep
  <2> QED
    BY <2>3 DEF next, after
<1>8. Mine' = v.c /\ Live' /\ Mine = coord[n]
  BY <1>2, <1>4 DEF Mine, Live, n
<1>9. QueueInv'
  <2>1. ASSUME NEW p \in Waiters
        PROVE  task'[p].own = n /\ Has(v.c.queue, p)
    <3>1. CASE p = t
      BY <1>2, <1>6, <1>7, <2>1, <3>1
    <3>2. CASE p # t
      <4>1. p \in Clearing /\ task'[p] = task[p]
        BY <1>2, <1>6, <2>1, <3>2 DEF Clearing
      <4>2. task[p].own = n /\ Has(before, p)
        BY <4>1 DEF AgreeInv, QueueInv, n, before, Mine
      <4> QED
        BY <1>7, <3>2, <4>1, <4>2
    <3> QED
      BY <3>1, <3>2
  <2>2. v.c.queue \in Seq(1 .. t)
    <3>1. before \in Seq(1 .. t) /\ t \in 1 .. t
      BY <1>3 DEF AgreeInv, QueueInv, before, Mine
    <3>2. \/ v.c.queue = before \/ v.c.queue = Append(before, t)
          \/ before # <<>> /\ v.c.queue = Tail(before)
          \/ before # <<>> /\ v.c.queue = Append(Tail(before), t)
      BY DEF Moves, before
    <3>3. /\ Append(before, t) \in Seq(1 .. t)
          /\ before # <<>> => Tail(before) \in Seq(1 .. t)
      BY <1>3, <3>1, QueueOfTasks
    <3>4. before # <<>> => Append(Tail(before), t) \in Seq(1 .. t)
      BY <1>3, <3>1, <3>3, QueueOfTasks
    <3> QED
      BY <3>1, <3>2, <3>3, <3>4
  <2> QED
    BY <1>2, <1>4, <1>8, <2>1, <2>2 DEF QueueInv, Waiters
<1>10. AppliedInv'
  BY <1>4, <1>8 DEF AppliedInv
<1>11. TroubleInv'
  <2> SUFFICES ASSUME NEW p \in DOMAIN task
               PROVE  /\ task'[p].aborted => upsets' > 0
                      /\ task'[p].pc = "refreshing" => lock' = p \/ upsets' > 0
    BY <1>2 DEF TroubleInv
  <2>1. /\ task[p].aborted => upsets > 0
        /\ task[p].pc = "refreshing" => lock = p \/ upsets > 0
    BY DEF AgreeInv, TroubleInv
  <2>2. p # 0
    BY <1>2
  <2> QED
    BY <1>2, <2>1, <2>2
<1>12. OffersInv'
  BY <1>2, <1>4 DEF AgreeInv, OffersInv, n
<1>13. NewestInv'
  <2>1. (World(Latest))' = v
    BY <1>1, <1>2, <1>4 DEF World
  <2>2. Agreed(World(Latest), Latest, key, refused, Blamed)'
    BY <1>2, <2>1
  <2>3. Placed'
    <3>1. ASSUME v.k.pc \notin Enqueued \cup Early, NEW p \in DOMAIN task, p # t
          PROVE  task[p].pc \notin {"clear", "setting"}
      <4>1. CASE task[t].pc \notin Enqueued \cup Early
        BY <1>1, <4>1
      <4>2. CASE task[t].pc \in Early
        BY <3>1, <4>2 DEF Moves, Enqueued, Early
      <4>3. CASE task[t].pc \in Enqueued
        <5>1. before # <<>> /\ Head(before) = t /\ Once(before, t, Clearing)
          BY <1>1, <4>3 DEF Moves, InPlace, before
        <5>2. task[p].pc # "setting"
          BY <3>1, <5>1 DEF ActivationInv, OneMutation, before
        <5>3. ASSUME task[p].pc = "clear" PROVE FALSE
          <6>1. p \in Clearing /\ Has(before, p)
            BY <5>3 DEF Clearing, AgreeInv, QueueInv, before, Mine
          <6> QED
            BY <1>3, <3>1, <5>1, <6>1, OnceFirst
        <5> QED
          BY <5>2, <5>3
      <4> QED
        BY <4>1, <4>2, <4>3
    <3>2. Newest' = v.k
      BY <1>2 DEF Newest
    <3>3. v.k.pc \notin Enqueued \cup Early
            => \A p \in DOMAIN task' : task'[p].pc \notin {"clear", "setting"}
      BY <1>2, <3>1 DEF Enqueued
    <3> QED
      BY <1>2, <1>7, <1>8, <3>2, <3>3 DEF Placed, Waiters
  <2>4. Latest' \in DOMAIN task' /\ Newest'.own = ses'.n
    BY <1>1, <1>2, <1>4 DEF Newest
  <2> QED
    BY <2>2, <2>3, <2>4 DEF NewestInv
<1> QED
  BY <1>9, <1>10, <1>11, <1>12, <1>13 DEF AgreeInv

-----------------------------------------------------------------------------
(* The steps of a task that is not the newest of the session. *)

\* A task that another one has replaced, or whose session is over.
Bystander(t) == t \in DOMAIN task /\ ~(ses.phase = "up" /\ t = Latest)

\* It is not in the lists of the generations, and may not answer for the session.
LEMMA BystanderIsStale ==
  ASSUME ActivationInv, AgreeInv, NEW t, Bystander(t)
  PROVE  LET c == coord[task[t].own] IN
         /\ c.gen # t /\ c.cgen # t
         /\ Superseded(World(t), t) /\ ~IsCurrent(World(t), t) /\ Aborted(World(t), t)
<1> DEFINE o == task[t].own
<1>1. /\ World(t).c = coord[o] /\ World(t).k = task[t] /\ World(t).s = ses
      /\ t \in Nat /\ t # 0
  BY WorldFacts DEF Bystander
<1>2. o \in 1 .. ses.n
  BY DEF Bystander, ActivationInv, Shape
<1>3. CASE o # ses.n \/ ses.phase # "up"
  <2>1. coord[o].gen = 0 /\ coord[o].cgen = 0
    BY <1>2, <1>3 DEF ActivationInv, QuietCoordinators
  <2> QED
    BY <1>1, <1>3, <2>1 DEF Superseded, IsCurrent, IsOwnerCurrent, Aborted
<1>4. CASE o = ses.n /\ ses.phase = "up"
  <2>1. t # Latest
    BY <1>4 DEF Bystander
  <2>2. Generations(World(Latest), Latest) /\ Latest \in DOMAIN task /\ task[Latest].own = o
    BY <1>4 DEF AgreeInv, NewestInv, Agreed, Newest
  <2>3. Latest \in Nat /\ Latest # 0 /\ World(Latest).c = coord[o]
    BY <2>2, WorldFacts
  <2>4. coord[o].gen = Latest /\ coord[o].cgen \in {0, Latest} /\ coord[o].rgen \in {0, Latest}
    BY <2>2, <2>3 DEF Generations
  <2> QED
    BY <1>1, <1>4, <2>1, <2>4 DEF Superseded, IsCurrent, IsOwnerCurrent, Aborted
<1> QED
  BY <1>3, <1>4

\* What it may leave behind.
LEMMA BystanderKeeps ==
  ASSUME ActivationInv, AgreeInv, NEW t, Bystander(t),
         NEW v \in Worlds, Commit(t, v), v.k.own = task[t].own,
         SameSelection(ses, v.s), v.s.res = ses.res, v.conf = conf,
         v.k.aborted => task[t].aborted, v.k.pc \notin {"clear", "setting", "refreshing"},
         /\ v.c.gen = coord[task[t].own].gen /\ v.c.cgen = coord[task[t].own].cgen
         /\ v.c.rgen = coord[task[t].own].rgen /\ SameOffers(coord[task[t].own], v.c),
         \/ v.c.queue = coord[task[t].own].queue
         \/ v.c.queue = Append(coord[task[t].own].queue, t)
         \/ /\ coord[task[t].own].queue # <<>> /\ Head(coord[task[t].own].queue) = t
            /\ v.c.queue = Tail(coord[task[t].own].queue),
         \/ key' = key /\ v.c.set = coord[task[t].own].set
         \/ task[t].pc \in {"clear", "setting"} /\ v.c.set \in {Unset, key'},
         refused' = refused, store' = store \/ upsets' > 0,
         upsets > 0 => upsets' > 0, lock # t /\ lock # 0 => lock' = lock
  PROVE  AgreeInv'
<1> DEFINE o == task[t].own
           n == ses.n
           c == coord[task[t].own]
           before == Mine.queue
           after == Mine'.queue
           Waiters == Clearing'
<1>1. /\ o \in DOMAIN coord /\ n \in Nat /\ Len(coord) = n
      /\ DOMAIN coord' = DOMAIN coord /\ coord'[o] = v.c
      /\ \A p \in DOMAIN coord : p # o => coord'[p] = coord[p]
      /\ DOMAIN task' = DOMAIN task /\ Latest' = Latest /\ Latest \in Nat /\ task'[t] = v.k
      /\ DOMAIN task = 1 .. Latest
      /\ \A p \in DOMAIN task : p # t => task'[p] = task[p]
      /\ conf' = conf /\ ses' = v.s /\ task'[t].own = o /\ t \in DOMAIN task
  BY Committed DEF Bystander
<1>2. /\ ses'.n = n /\ ses'.phase = ses.phase /\ ses'.sel = ses.sel /\ ses'.bad = ses.bad
      /\ ses'.res = ses.res
  BY <1>1 DEF SameSelection
<1>3. o \in 1 .. n /\ n \in DOMAIN coord /\ t # 0 /\ t \in Nat
  <2>1. o \in 1 .. n
    BY <1>1 DEF ActivationInv, Shape
  <2> QED
    BY <1>1, <2>1 DEF ActivationInv
<1>4. before \in Seq(Nat)
  <2>1. coord[n] \in Coordinator
    BY <1>3 DEF ActivationInv
  <2> QED
    BY <2>1 DEF Coordinator, Mine
<1>5. Waiters \subseteq Clearing \ {t}
  <2>1. Waiters = {p \in DOMAIN task' : task'[p].pc = "clear"}
    BY DEF Clearing
  <2> QED
    BY <1>1, <2>1 DEF Clearing
<1>6. Mine' = coord'[n] /\ Mine = coord[n]
  BY <1>2 DEF Mine
<1>7. \/ after = before \/ after = Append(before, t)
      \/ before # <<>> /\ Head(before) = t /\ after = Tail(before)
  <2>1. CASE o = n
    BY <1>1, <1>6, <2>1
  <2>2. CASE o # n
    BY <1>1, <1>3, <1>6, <2>2
  <2> QED
    BY <2>1, <2>2
<1>8. /\ Mine'.gen = Mine.gen /\ Mine'.cgen = Mine.cgen /\ Mine'.rgen = Mine.rgen
      /\ SameOffers(Mine, Mine')
  <2>1. CASE o = n
    BY <1>1, <1>6, <2>1
  <2>2. CASE o # n
    BY <1>1, <1>3, <1>6, <2>2 DEF SameOffers
  <2> QED
    BY <2>1, <2>2
<1>9. \/ key' = key /\ Mine'.set = Mine.set
      \/ Live /\ task[t].pc \in {"clear", "setting"} /\ Mine'.set \in {Unset, key'}
  <2>1. task[t].pc \in {"clear", "setting"} => o = n /\ Live
    BY <1>1 DEF ActivationInv, OneMutation, AgreeInv, QueueInv, Clearing
  <2>2. CASE o = n
    BY <1>1, <1>6, <2>1, <2>2
  <2>3. CASE o # n
    BY <1>1, <1>3, <1>6, <2>1, <2>3
  <2> QED
    BY <2>2, <2>3
<1> HIDE DEF Waiters, before, after, c
<1>10. \A x : x # t => (Has(after, x) <=> Has(before, x))
  <2>1. CASE after = before
    BY <2>1
  <2>2. CASE after = Append(before, t)
    BY <1>3, <1>4, <2>2, QueueElements
  <2>3. CASE before # <<>> /\ Head(before) = t /\ after = Tail(before)
    BY <1>3, <1>4, <2>3, QueueElements
  <2> QED
    BY <1>7, <2>1, <2>2, <2>3
<1>11. ASSUME NEW x, x # t, NEW S, Once(before, x, S), Waiters \subseteq S
       PROVE  Once(after, x, Waiters)
  <2>1. Once(before, x, Waiters)
    BY <1>11, OnceOfFewer
  <2>2. CASE after = before
    BY <2>1, <2>2
  <2>3. CASE after = Append(before, t)
    BY <1>3, <1>4, <1>5, <1>11, <2>1, <2>3, OnceBeforeOther
  <2>4. CASE before # <<>> /\ Head(before) = t /\ after = Tail(before)
    BY <1>4, <1>11, <2>1, <2>4, OnceAfterOther
  <2> QED
    BY <1>7, <2>2, <2>3, <2>4
<1>12. QueueInv'
  <2>1. ASSUME NEW p \in Waiters
        PROVE  task'[p].own = n /\ Live' /\ Has(after, p)
    <3>1. p \in Clearing /\ p # t /\ p \in DOMAIN task
      BY <1>5 DEF Clearing
    <3>2. task[p].own = n /\ Live /\ Has(before, p)
      BY <3>1 DEF AgreeInv, QueueInv, before
    <3> QED
      BY <1>1, <1>2, <1>10, <3>1, <3>2 DEF Live
  <2>2. ses.phase \in {"init", "up"} => after \in Seq(1 .. Latest)
    <3>1. ASSUME ses.phase \in {"init", "up"} PROVE before \in Seq(1 .. Latest)
      BY <3>1 DEF AgreeInv, QueueInv, before
    <3>2. before \in Seq(1 .. Latest)
            => /\ Append(before, t) \in Seq(1 .. Latest)
               /\ before # <<>> => Tail(before) \in Seq(1 .. Latest)
      BY <1>1, QueueOfTasks
    <3> QED
      BY <1>7, <3>1, <3>2
  <2>3. ses.phase = "closing" => Once(after, 0, Waiters)
    <3>1. ses.phase = "closing" => Once(before, 0, Clearing)
      BY DEF AgreeInv, QueueInv, before
    <3>2. Waiters \subseteq Clearing
      BY <1>5
    <3> QED
      BY <1>3, <1>11, <3>1, <3>2
  <2> QED
    BY <1>1, <1>2, <2>1, <2>2, <2>3 DEF QueueInv, Waiters, after
<1>13. AppliedInv'
  BY <1>2, <1>8, <1>9 DEF AgreeInv, AppliedInv, Live
<1>14. TroubleInv'
  BY <1>1, <1>3 DEF AgreeInv, TroubleInv
<1>15. OffersInv'
  BY <1>1, <1>2 DEF AgreeInv, OffersInv, SameOffers
<1>16. ASSUME ses.phase = "up" PROVE NewestInv'
  <2> DEFINE l == Latest
             w == World(Latest)
             u == (World(Latest))'
  <2>1. l \in DOMAIN task /\ l # t /\ task[l].own = n
    BY <1>16 DEF Bystander, AgreeInv, NewestInv, Newest
  <2>2. task'[l] = task[l]
    BY <1>1, <2>1
  <2>3. w.c = Mine /\ w.k = task[l] /\ w.conf = conf /\ w.s = ses
    BY <1>6, <2>1 DEF World
  <2>4. u.c = Mine' /\ u.k = task[l] /\ u.conf = conf /\ u.s = ses'
    BY <1>1, <1>6, <2>1, <2>2 DEF World
  <2>5. Agreed(w, l, key, refused, Blamed)
    BY <1>16 DEF AgreeInv, NewestInv
  <2>6. Blamed => Blamed'
    BY <1>2 DEF Blamed
  <2>7. key = key' \/ task[l].pc \in Enqueued \cup Early
    <3>1. key' # key => task[t].pc \in {"clear", "setting"}
      BY <1>9
    <3> QED
      BY <1>1, <1>16, <3>1 DEF AgreeInv, NewestInv, Placed, Newest
  <2>8. SameSelection(ses, ses') /\ ses'.res = ses.res
    BY <1>2 DEF SameSelection
  <2> HIDE DEF w, u
  <2>9. Agreed(u, l, key', refused', Blamed')
    <3>1. /\ u.k.pc = w.k.pc /\ u.k.mode = w.k.mode /\ u.k.acct = w.k.acct
          /\ u.k.key = w.k.key /\ u.k.res = w.k.res
      BY <2>3, <2>4
    <3>2. u.conf = w.conf /\ SameSelection(w.s, u.s) /\ u.s.res = w.s.res
      BY <2>3, <2>4, <2>8
    <3>3. /\ u.c.gen = w.c.gen /\ u.c.cgen = w.c.cgen /\ u.c.rgen = w.c.rgen
          /\ SameOffers(w.c, u.c)
      BY <1>8, <2>3, <2>4
    <3>4. (refused => refused') /\ (key = key' \/ w.k.pc \in Enqueued \cup Early)
      BY <2>3, <2>7
    <3>5. Agreed(w, l, key, refused, Blamed) /\ (Blamed => Blamed')
      BY <2>5, <2>6
    <3>6. ASSUME NEW k, NEW may, NEW blamed, refused => may, Blamed => blamed,
                 key = k \/ w.k.pc \in Enqueued \cup Early
          PROVE  Agreed(u, l, k, may, blamed)
      BY <3>1, <3>2, <3>3, <3>5, <3>6, StillAgreed, Zenon
    <3> QED
      BY <3>4, <3>5, <3>6
  <2>10. Agreed(World(Latest), Latest, key, refused, Blamed)'
    BY <1>1, <2>9 DEF u
  <2>11. Newest' = Newest /\ Newest = task[l]
    BY <1>1, <2>2 DEF Newest
  <2>12. InPlace(after, l, Newest.pc, Waiters)
    <3>1. InPlace(before, l, Newest.pc, Clearing) /\ Waiters \subseteq Clearing
      BY <1>5, <1>16 DEF AgreeInv, NewestInv, Placed, before
    <3> QED
      BY <1>10, <1>11, <2>1, <3>1 DEF InPlace
  <2>13. Newest.pc \notin Enqueued \cup Early
           => \A p \in DOMAIN task' : task'[p].pc \notin {"clear", "setting"}
    BY <1>1, <1>16 DEF AgreeInv, NewestInv, Placed
  <2>14. Placed'
    BY <1>1, <2>11, <2>12, <2>13 DEF Placed, after, Waiters
  <2> QED
    BY <1>1, <1>2, <2>1, <2>10, <2>11, <2>14 DEF NewestInv
<1>17. NewestInv'
  BY <1>2, <1>16 DEF NewestInv
<1> QED
  BY <1>12, <1>13, <1>14, <1>15, <1>17 DEF AgreeInv

-----------------------------------------------------------------------------
(* The steps of the newest task *)

\* A turn that becomes ready has the result of the newest task, which is over.
TurnsReady ==
    ses'.run = "ready" /\ ses.run # "ready" =>
        ses'.phase = "up" /\ Newest'.pc = "done" /\ ses'.abort = (Newest'.res.status = "error")

\* What an activation that fails now may blame.
BlamedNow == upsets' > 0 \/ ses.bad \/ (ses.sel \in Accounts /\ store'[ses.sel] = 0)

\* The rest of a step of task t.
Frame(t) ==
    /\ refused' = refused
    /\ upsets > 0 => upsets' > 0
    /\ lock # t /\ lock # 0 => lock' = lock

LEMMA TaskStepFrame ==
  ASSUME StoreInv, CountersInv, NEW t \in DOMAIN task, TaskStep(t)
  PROVE  Frame(t)
<1>1. refused' = refused
  BY DEF TaskStep, Read, LockStore, Refreshed, RefreshFails, Recheck, ToAuth, SetBegins,
         SetEnds, SetFails, Match, RefreshCatalog, VerifyOverlay, Clear, Restore,
         InvalidateConnections, SelectedCredential, Step
<1>2. NoFault \/ Fault
  BY DEF TaskStep, Read, LockStore, Refreshed, RefreshFails, Recheck, ToAuth, SetBegins,
         SetEnds, SetFails, Match, RefreshCatalog, VerifyOverlay, Clear, Restore,
         InvalidateConnections, SelectedCredential, NoFault, counters
<1>3. upsets \in Nat
  BY RuntimeAuthAssumption DEF CountersInv
<1>4. upsets > 0 => upsets' > 0
  BY <1>2, <1>3 DEF NoFault, counters, Fault, Upset
<1>5. lock' = lock \/ (lock' = t /\ lock = 0) \/ lock' = Unlocked(t)
  BY DEF TaskStep, Read, LockStore, Refreshed, RefreshFails, Recheck, ToAuth, SetBegins,
         SetEnds, SetFails, Match, RefreshCatalog, VerifyOverlay, Clear, Restore,
         InvalidateConnections, SelectedCredential, Step, Serialized, UpdateEnds
<1> QED
  BY <1>1, <1>4, <1>5 DEF Frame, Unlocked

LEMMA FaultIsBlamed ==
  ASSUME CountersInv, Fault
  PROVE  BlamedNow
BY RuntimeAuthAssumption DEF CountersInv, Fault, Upset, BlamedNow

LEMMA StillBlamed ==
  ASSUME Blamed, upsets > 0 => upsets' > 0, store' = store
  PROVE  BlamedNow
BY DEF Blamed, BlamedNow

LEMMA NewestFacts ==
  ASSUME ActivationInv, AgreeInv, ses.phase = "up", NEW t, t = Latest
  PROVE  LET w == World(t) IN
         /\ t \in DOMAIN task /\ t \in Nat /\ t # 0
         /\ w \in Worlds /\ w.s = ses /\ w.k = task[t] /\ w.c = coord[ses.n] /\ w.conf = conf
         /\ task[t].own = ses.n
         /\ Agreed(w, t, key, refused, Blamed)
         /\ IsCurrent(w, t) /\ ~Superseded(w, t) /\ w.c.set \in {Unset, key}
         /\ Aborted(w, t) => Blamed
         /\ w.c.gen = t /\ w.c.rgen = (IF w.s.bad THEN 0 ELSE t) /\ w.c.cgen \in {0, t}
<1> DEFINE w == World(t)
<1>1. /\ t \in DOMAIN task /\ task[t].own = ses.n
      /\ Agreed(w, t, key, refused, Blamed)
  BY DEF AgreeInv, NewestInv, Newest
<1>2. /\ w \in Worlds /\ w.s = ses /\ w.k = task[t] /\ w.c = coord[ses.n] /\ w.conf = conf
      /\ t \in Nat /\ t # 0
  BY <1>1, WorldFacts
<1> HIDE DEF w
<1>3. w.c.gen = t /\ w.c.rgen = (IF w.s.bad THEN 0 ELSE t) /\ w.c.cgen \in {0, t}
  BY <1>1 DEF Agreed, Generations
<1>4. IsOwnerCurrent(w)
  BY <1>1, <1>2 DEF IsOwnerCurrent
<1>5. IsCurrent(w, t) /\ ~Superseded(w, t)
  BY <1>3, <1>4 DEF IsCurrent, Superseded
<1>6. w.c.set \in {Unset, key}
  BY <1>2 DEF AgreeInv, AppliedInv, Live, Mine
<1>7. Aborted(w, t) => Blamed
  <2>1. task[t].aborted => upsets > 0
    BY <1>1 DEF AgreeInv, TroubleInv
  <2> QED
    BY <1>2, <1>3, <1>4, <2>1 DEF Aborted, Blamed
<1> QED
  BY <1>1, <1>2, <1>3, <1>5, <1>6, <1>7 DEF w

\* u is what the step makes of the world before the operators are called.
LEMMA NewestProceeds ==
  ASSUME ActivationInv, AgreeInv, ses.phase = "up", NEW t, t = Latest, Frame(t),
         NEW u \in Worlds, u.s = ses, u.k.own = task[t].own, u.k.aborted => task[t].aborted,
         u.c.set \in {Unset, key'},
         NEW v, Proceeds(u, v, t), Commit(t, v),
         Agreed(v, t, key', refused, BlamedNow),
         Moves(t, task[t].pc, coord[ses.n].queue, v.k.pc, v.c.queue),
         v.k.pc = "refreshing" => lock' = t \/ upsets' > 0
  PROVE  AgreeInv' /\ TurnsReady
<1>1. /\ v \in Worlds /\ v.k.own = task[t].own /\ SameSelection(ses, v.s)
      /\ v.k.aborted => task[t].aborted
      /\ v.c.set \in {Unset, key'} /\ Turned(ses, v.s, v.k, t)
  BY DEF Proceeds
<1>2. t \in DOMAIN task
  BY NewestFacts
<1>3. ses' = v.s /\ task'[t] = v.k /\ Latest' = Latest
  BY <1>1, <1>2, Committed
<1>4. BlamedNow => Blamed'
  BY <1>1, <1>3 DEF BlamedNow, Blamed, SameSelection
<1>5. Agreed(v, t, key', refused', Blamed')
  <2>1. SameSelection(v.s, v.s) /\ SameOffers(v.c, v.c) /\ (refused => refused')
    BY DEF SameSelection, SameOffers, Frame
  <2> QED
    BY <1>4, <2>1, StillAgreed
<1>6. AgreeInv'
  BY <1>1, <1>5, NewestKeeps DEF Frame
<1>7. TurnsReady
  BY <1>1, <1>3 DEF Turned, TurnsReady, Newest, SameSelection
<1> QED
  BY <1>6, <1>7

\* What follows if the activation gives up.
LEMMA NewestFailsClosed ==
  ASSUME ActivationInv, AgreeInv, ses.phase = "up", NEW t, t = Latest, Frame(t), BlamedNow,
         NEW u \in Worlds, u.s = ses, u.k.own = task[t].own, u.k.aborted => task[t].aborted,
         u.c.set \in {Unset, key'}, u.c.gen = t, u.c.cgen = t,
         u.c.rgen = (IF u.s.bad THEN 0 ELSE t), Commit(t, FailClosed(u, t)),
         Moves(t, task[t].pc, coord[ses.n].queue, "set", Append(u.c.queue, t))
  PROVE  AgreeInv' /\ TurnsReady
<1> DEFINE v == FailClosed(u, t)
<1>1. /\ Agreed(v, t, key', refused, BlamedNow) /\ Proceeds(u, v, t)
      /\ v.k.pc = "set" /\ v.c.queue = Append(u.c.queue, t)
  <2>1. t \in Nat
    BY NewestFacts
  <2> QED
    BY <2>1, FailClosedAgrees
<1> HIDE DEF v
<1>2. Commit(t, v)
  BY DEF v
<1>3. Moves(t, task[t].pc, coord[ses.n].queue, v.k.pc, v.c.queue)
  BY <1>1
<1>4. v.k.pc # "refreshing"
  BY <1>1
<1> QED
  BY <1>1, <1>2, <1>3, <1>4, NewestProceeds

\* From where it stands, without a turn in the queue.
LEMMA NewestGivesUp ==
  ASSUME ActivationInv, AgreeInv, ses.phase = "up", NEW t, t = Latest, Frame(t), BlamedNow,
         key' = key, task[t].pc \notin Enqueued \cup {"restore", "conns", "credential", "done"},
         Commit(t, FailClosed(World(t), t))
  PROVE  AgreeInv' /\ TurnsReady
<1> DEFINE w == World(t)
<1>1. /\ w \in Worlds /\ w.s = ses /\ w.k = task[t] /\ w.c = coord[ses.n]
      /\ Agreed(w, t, key, refused, Blamed) /\ w.c.set \in {Unset, key}
      /\ w.c.gen = t /\ w.c.rgen = (IF w.s.bad THEN 0 ELSE t)
  BY NewestFacts
<1>2. Commit(t, FailClosed(w, t))
  OBVIOUS
<1> HIDE DEF w
<1>3. w.c.cgen = t
  BY <1>1 DEF Agreed, Generations, Enqueued
<1>4. Moves(t, task[t].pc, coord[ses.n].queue, "set", Append(w.c.queue, t))
  BY <1>1 DEF Moves
<1> QED
  BY <1>1, <1>2, <1>3, <1>4, NewestFailsClosed

\* The credential is not the stored one any more.
LEMMA NewestRetries ==
  ASSUME ActivationInv, AgreeInv, ses.phase = "up", NEW t, t = Latest, Frame(t),
         UNCHANGED <<key, store>>, task[t].pc \in {"recheck", "auth", "catalog"},
         Commit(t, Retry(World(t), t))
  PROVE  AgreeInv' /\ TurnsReady
<1> DEFINE w == World(t)
           v == EnsureActive(w, t)
<1>1. /\ w \in Worlds /\ w.s = ses /\ w.k = task[t] /\ w.c = coord[ses.n] /\ t \in DOMAIN task
      /\ Agreed(w, t, key, refused, Blamed) /\ w.c.set \in {Unset, key} /\ t \in Nat
      /\ IsCurrent(w, t)
  BY NewestFacts
<1>2. Commit(t, v)
  BY <1>1 DEF Retry
<1> HIDE DEF w
<1>3. w.k.mode = "account" /\ w.k.acct = w.s.sel /\ ~w.s.bad
  BY <1>1 DEF Agreed, Selected
<1>4. w.k.aborted => BlamedNow
  BY <1>1, StillBlamed DEF AgreeInv, TroubleInv, Blamed, Frame
<1>5. /\ Agreed(v, t, key', refused, BlamedNow) /\ Proceeds(w, v, t)
      /\ \/ v.k.pc = "read" /\ v.c.queue = w.c.queue
         \/ v.k.pc = "set" /\ v.c.queue = Append(w.c.queue, t)
  BY <1>1, <1>3, <1>4, EnsureActiveAgrees
<1> HIDE DEF v
<1>6. Moves(t, task[t].pc, coord[ses.n].queue, v.k.pc, v.c.queue)
  BY <1>1, <1>5 DEF Moves, Enqueued, Early
<1>7. v.k.pc # "refreshing"
  BY <1>5
<1> QED
  BY <1>1, <1>2, <1>5, <1>6, <1>7, NewestProceeds

\* The operation is over, or waits for the connections.
LEMMA NewestSettles ==
  ASSUME ActivationInv, AgreeInv, ses.phase = "up", NEW t, t = Latest, Frame(t),
         NEW u \in Worlds, u.s = ses, u.k.own = task[t].own, u.k.aborted => task[t].aborted,
         u.c.set \in {Unset, key'}, NEW r \in Result,
         u.c.gen = t, u.c.cgen \in {0, t}, u.c.rgen = (IF u.s.bad THEN 0 ELSE t),
         u.k.mode = "account" => u.k.acct = u.s.sel /\ ~u.s.bad,
         u.k.mode # "account" => BlamedNow,
         Concluded(r, u.s, key', u.conf, refused, BlamedNow),
         r.status = "active" => u.c.pending = key', u.c.offer = Unset,
         Commit(t, Settle(u, t, r)),
         \A x \in {"conns", "done"} : Moves(t, task[t].pc, coord[ses.n].queue, x, u.c.queue)
  PROVE  AgreeInv' /\ TurnsReady
<1> DEFINE v == Settle(u, t, r)
<1>1. t \in DOMAIN task /\ task \in Seq(Task) /\ task[t].own = ses.n
  BY NewestFacts DEF ActivationInv
<1>2. ~Superseded(u, t)
  BY <1>1 DEF Superseded, IsOwnerCurrent
<1>3. /\ Agreed(v, t, key', refused, BlamedNow) /\ Proceeds(u, v, t)
      /\ v.k.pc \in {"conns", "done"} /\ v.c.queue = u.c.queue
  BY <1>1, <1>2, SettleAgrees
<1>4. Commit(t, v)
  OBVIOUS
<1> HIDE DEF v
<1>5. Moves(t, task[t].pc, coord[ses.n].queue, v.k.pc, v.c.queue)
  BY <1>3
<1>6. v.k.pc # "refreshing"
  BY <1>3
<1> QED
  BY <1>3, <1>4, <1>5, <1>6, NewestProceeds

\* Only fields of the task are changed that do not matter here.
Aside(w, v) ==
    /\ v \in Worlds /\ v.c = w.c /\ v.conf = w.conf /\ v.s = w.s
    /\ v.k.pc = w.k.pc /\ SameTask(w.k, v.k)

LEMMA AsideFields ==
  ASSUME NEW w \in Worlds
  PROVE  /\ \A x \in Nat : Aside(w, [w EXCEPT !.k.v = x])
         /\ \A x, y \in Nat : Aside(w, [w EXCEPT !.k.answer = x, !.k.v0 = y])
         /\ Aside(w, [w EXCEPT !.k.force = TRUE])
<1>1. ASSUME NEW k \in Task, SameTask(w.k, k), k.pc = w.k.pc
      PROVE  Aside(w, [w EXCEPT !.k = k])
  <2> DEFINE v == [w EXCEPT !.k = k]
  <2>1. v \in Worlds /\ v.c = w.c /\ v.k = k /\ v.conf = w.conf /\ v.s = w.s
    BY WithTask
  <2> HIDE DEF v
  <2>2. Aside(w, v)
    BY <1>1, <2>1 DEF Aside
  <2> QED
    BY <2>2 DEF v
<1>2. w.k \in Task
  BY Fields
<1>3. ASSUME NEW x \in Nat PROVE Aside(w, [w EXCEPT !.k.v = x])
  <2> DEFINE k == [w.k EXCEPT !.v = x]
  <2>1. k \in Task /\ SameTask(w.k, k) /\ k.pc = w.k.pc
    BY <1>2 DEF Task, SameTask
  <2>2. [w EXCEPT !.k.v = x] = [w EXCEPT !.k = k]
    BY DEF Worlds
  <2> HIDE DEF k
  <2> QED
    BY <1>1, <2>1, <2>2
<1>4. ASSUME NEW x \in Nat, NEW y \in Nat PROVE Aside(w, [w EXCEPT !.k.answer = x, !.k.v0 = y])
  <2> DEFINE k == [w.k EXCEPT !.answer = x, !.v0 = y]
  <2>1. k \in Task /\ SameTask(w.k, k) /\ k.pc = w.k.pc
    BY <1>2 DEF Task, SameTask
  <2>2. [w EXCEPT !.k.answer = x, !.k.v0 = y] = [w EXCEPT !.k = k]
    BY DEF Worlds
  <2> HIDE DEF k
  <2> QED
    BY <1>1, <2>1, <2>2
<1>5. Aside(w, [w EXCEPT !.k.force = TRUE])
  <2> DEFINE k == [w.k EXCEPT !.force = TRUE]
  <2>1. k \in Task /\ SameTask(w.k, k) /\ k.pc = w.k.pc
    BY <1>2 DEF Task, SameTask
  <2>2. [w EXCEPT !.k.force = TRUE] = [w EXCEPT !.k = k]
    BY DEF Worlds
  <2> HIDE DEF k
  <2> QED
    BY <1>1, <2>1, <2>2
<1> QED
  BY <1>3, <1>4, <1>5

\* The same, and the task goes to pc.
Goes(w, v, pc) ==
    /\ v \in Worlds /\ v.c = w.c /\ v.conf = w.conf /\ v.s = w.s
    /\ v.k.pc = pc /\ SameTask(w.k, v.k)

LEMMA GoesFields ==
  ASSUME NEW w \in Worlds, NEW pc \in Waiting
  PROVE  /\ Goes(w, At(w, pc), pc)
         /\ \A x \in Nat : Goes(w, [At(w, pc) EXCEPT !.k.v = x], pc)
         /\ \A v : Aside(w, v) => Goes(w, At(v, pc), pc)
         /\ \A v, u : Goes(w, v, pc) /\ Aside(v, u) => Goes(w, u, pc)
<1>1. \A v \in Worlds : Goes(v, At(v, pc), pc)
  BY AtFields DEF Goes
<1>2. \A v : Aside(w, v) => Goes(w, At(v, pc), pc)
  BY <1>1 DEF Aside, Goes, SameTask
<1>3. \A v, u : Goes(w, v, pc) /\ Aside(v, u) => Goes(w, u, pc)
  BY DEF Aside, Goes, SameTask
<1>4. ASSUME NEW x \in Nat PROVE Goes(w, [At(w, pc) EXCEPT !.k.v = x], pc)
  <2> DEFINE a == At(w, pc)
  <2>1. Goes(w, a, pc) /\ a \in Worlds
    BY <1>1 DEF Goes
  <2> HIDE DEF a
  <2>2. Aside(a, [a EXCEPT !.k.v = x])
    BY <2>1, AsideFields
  <2>3. Goes(w, [a EXCEPT !.k.v = x], pc)
    BY <1>3, <2>1, <2>2
  <2> QED
    BY <2>3 DEF a
<1> QED
  BY <1>1, <1>2, <1>3, <1>4

\* The newest task goes on reading, with an account, before anything is applied.
LEMMA NewestReads ==
  ASSUME ActivationInv, AgreeInv, ses.phase = "up", NEW t, t = Latest, Frame(t), key' = key,
         task[t].pc \in Early, ses.sel \in Accounts,
         NEW pc \in Early \ {"read"}, NEW v, Goes(World(t), v, pc), Commit(t, v),
         pc = "recheck" => BlamedNow, pc = "refreshing" => lock' = t
  PROVE  AgreeInv' /\ TurnsReady
<1> DEFINE w == World(t)
<1>1. /\ w \in Worlds /\ w.s = ses /\ w.k = task[t] /\ w.c = coord[ses.n] /\ t \in DOMAIN task
      /\ Agreed(w, t, key, refused, Blamed) /\ w.c.set \in {Unset, key} /\ w.conf = conf
      /\ w.c.gen = t /\ w.c.rgen = (IF w.s.bad THEN 0 ELSE t)
  BY NewestFacts
<1>2. /\ v \in Worlds /\ v.c = w.c /\ v.conf = w.conf /\ v.s = w.s
      /\ v.k.pc = pc /\ SameTask(w.k, v.k)
  BY DEF Goes
<1> HIDE DEF w
<1>3. Generations(v, t)
  BY <1>1, <1>2 DEF Agreed, Generations, Early
<1>4. Selected(v, BlamedNow)
  BY <1>1, <1>2 DEF Agreed, Selected, Early, SameTask
<1>5. Applying(v, key', refused)
  BY <1>2 DEF Applying, Early
<1>6. Concludes(v, key', refused, BlamedNow)
  BY <1>1, <1>2 DEF Agreed, Concludes, Early
<1>7. Proceeds(w, v, t)
  BY <1>2 DEF Proceeds, SameTask, SameSelection, Turned
<1>8. Moves(t, task[t].pc, coord[ses.n].queue, v.k.pc, v.c.queue)
  BY <1>1, <1>2 DEF Moves, Enqueued, Early
<1>9. Agreed(v, t, key', refused, BlamedNow)
  BY <1>3, <1>4, <1>5, <1>6 DEF Agreed
<1> QED
  BY <1>1, <1>2, <1>7, <1>8, <1>9, NewestProceeds

\* Where there is something to read, an account is selected.
LEMMA ReadersHaveAccounts ==
  ASSUME ActivationInv, AgreeInv, ses.phase = "up", NEW t, t = Latest
  PROVE  /\ task[t].pc = "read" => /\ task[t].acct = ses.sel /\ ~ses.bad
                                   /\ task[t].mode = "account"
         /\ task[t].pc \in {"refresh", "refreshing", "recheck", "auth"} =>
              task[t].acct = ses.sel /\ ses.sel \in Accounts /\ ~ses.bad
         /\ ses.sel \in Accounts \cup {Default}
<1>1. Selected(World(t), Blamed) /\ World(t).k = task[t] /\ World(t).s = ses
  BY NewestFacts DEF Agreed
<1>2. ses.sel \in Accounts \cup {Default}
  BY DEF ActivationInv, Session, Selections
<1> QED
  BY <1>1, <1>2 DEF Selected

LEMMA NewestRead ==
  ASSUME ActivationInv, StoreInv, CountersInv, AgreeInv, ses.phase = "up",
         NEW t, t = Latest, Frame(t), Read(t)
  PROVE  AgreeInv' /\ TurnsReady
<1> DEFINE w == World(t)
           e == Enqueue(At(w, "clear"), t)
           u == [e EXCEPT !.c.cgen = 0]
           pc == IF w.k.acct \in expired THEN "refresh" ELSE "auth"
<1>1. /\ w \in Worlds /\ w.s = ses /\ w.k = task[t] /\ w.c = coord[ses.n] /\ t \in DOMAIN task
      /\ Agreed(w, t, key, refused, Blamed) /\ w.c.set \in {Unset, key} /\ t \in Nat
      /\ w.c.gen = t /\ w.c.rgen = (IF w.s.bad THEN 0 ELSE t)
      /\ Aborted(w, t) => Blamed
  BY NewestFacts
<1>2. task[t].pc = "read" /\ UNCHANGED <<key, store>>
  BY DEF Read, Step
<1>3. task[t].acct = ses.sel /\ ~ses.bad /\ ses.sel \in Accounts \cup {Default}
      /\ task[t].mode = "account"
  BY <1>2, ReadersHaveAccounts
<1>4. \/ /\ Commit(t, FailClosed(w, t))
         /\ Fault \/ Aborted(w, t) \/ (w.k.acct # Default /\ Stored(t) = 0)
      \/ w.k.acct = Default /\ Commit(t, u)
      \/ w.k.acct # Default /\ Commit(t, [At(w, pc) EXCEPT !.k.v = Stored(t)])
  BY DEF Read
<1> HIDE DEF w, pc
<1>5. CASE /\ Commit(t, FailClosed(w, t))
           /\ Fault \/ Aborted(w, t) \/ (w.k.acct # Default /\ Stored(t) = 0)
  <2>1. BlamedNow
    <3>1. CASE Fault
      BY <3>1, FaultIsBlamed
    <3>2. CASE Aborted(w, t)
      BY <1>1, <1>2, <3>2, StillBlamed DEF Frame
    <3>3. CASE w.k.acct # Default /\ Stored(t) = 0
      BY <1>1, <1>2, <1>3, <3>3 DEF Stored, BlamedNow
    <3> QED
      BY <1>5, <3>1, <3>2, <3>3
  <2> QED
    BY <1>2, <1>5, <2>1, NewestGivesUp DEF Enqueued, w
<1>6. CASE w.k.acct = Default /\ Commit(t, u)
  <2> DEFINE a == At(w, "clear")
             c == [e.c EXCEPT !.cgen = 0]
  <2>1. a \in Worlds /\ a.c = w.c /\ a.s = w.s /\ a.k.pc = "clear" /\ SameTask(w.k, a.k)
    BY <1>1, AtFields DEF Waiting
  <2> HIDE DEF a
  <2>2. /\ e \in Worlds /\ e.k = a.k /\ e.s = a.s
        /\ SameMarks(a.c, e.c) /\ SameOffers(a.c, e.c) /\ e.c.queue = Append(a.c.queue, t)
    BY <1>1, <2>1, EnqueueKeeps DEF a
  <2> HIDE DEF e
  <2>3. u = [e EXCEPT !.c = c]
    BY <2>2 DEF Worlds
  <2>4. /\ c \in Coordinator /\ c.gen = e.c.gen /\ c.cgen = 0 /\ c.rgen = e.c.rgen
        /\ c.set = e.c.set /\ SameOffers(e.c, c) /\ c.queue = e.c.queue
    BY <2>2, Fields DEF Coordinator, SameOffers
  <2> HIDE DEF c, u
  <2>5. u \in Worlds /\ u.c = c /\ u.k = e.k /\ u.s = e.s
    BY <2>2, <2>3, <2>4, WithCoordinator
  <2>6. /\ u.c.gen = t /\ u.c.cgen = 0 /\ u.c.rgen = (IF u.s.bad THEN 0 ELSE t)
        /\ u.c.set = w.c.set /\ u.c.offer = w.c.offer /\ u.c.queue = Append(w.c.queue, t)
        /\ u.k.pc = "clear" /\ SameTask(w.k, u.k) /\ u.s = w.s
    BY <1>1, <2>1, <2>2, <2>4, <2>5 DEF SameMarks, SameOffers
  <2>7. Generations(u, t) /\ Applying(u, key', refused)
    BY <2>6 DEF Generations, Applying
  <2>8. Selected(u, BlamedNow)
    BY <1>1, <1>3, <1>6, <2>6 DEF Selected, SameTask
  <2>9. Concludes(u, key', refused, BlamedNow)
    BY <1>1, <1>2, <2>6 DEF Agreed, Concludes
  <2>10. Proceeds(w, u, t)
    BY <2>5, <2>6 DEF Proceeds, SameTask, SameSelection, Turned
  <2>11. Moves(t, task[t].pc, coord[ses.n].queue, u.k.pc, u.c.queue)
    BY <1>1, <1>2, <2>6 DEF Moves, Enqueued
  <2>12. Agreed(u, t, key', refused, BlamedNow)
    BY <2>7, <2>8, <2>9 DEF Agreed
  <2> QED
    BY <1>1, <1>2, <1>6, <2>6, <2>10, <2>11, <2>12, NewestProceeds
<1>7. CASE w.k.acct # Default /\ Commit(t, [At(w, pc) EXCEPT !.k.v = Stored(t)])
  <2>1. pc \in {"refresh", "auth"} /\ Stored(t) \in Nat
    BY StoredIsNat DEF pc
  <2> DEFINE v == [At(w, pc) EXCEPT !.k.v = Stored(t)]
  <2>2. Goes(w, v, pc)
    BY <1>1, <2>1, GoesFields DEF Waiting
  <2> HIDE DEF v
  <2>3. Commit(t, v)
    BY <1>7 DEF v
  <2>4. ses.sel \in Accounts
    BY <1>1, <1>3, <1>7
  <2> QED
    BY <1>2, <2>1, <2>2, <2>3, <2>4, NewestReads DEF Early, w
<1> QED
  BY <1>4, <1>5, <1>6, <1>7

\* What a refresh, and what comes before it, makes of a task.
LEMMA LockStoreMoves ==
  ASSUME ActivationInv, StoreInv, NEW t \in DOMAIN task, LockStore(t)
  PROVE  LET w == World(t) IN
         /\ task[t].pc = "refresh" /\ UNCHANGED <<key, store>>
         /\ \/ Stored(t) = 0 /\ Commit(t, FailClosed(w, t))
            \/ \E v : Commit(t, v) /\ Goes(w, v, "auth")
            \/ (Fault \/ Aborted(w, t)) /\ \E v : Commit(t, v) /\ Goes(w, v, "recheck")
            \/ ~Aborted(w, t) /\ lock' = t /\ \E v : Commit(t, v) /\ Goes(w, v, "refreshing")
<1> DEFINE w == World(t)
           x == Stored(t)
           u == [w EXCEPT !.k.v = x]
           acct == task[t].acct
           b == At(u, "refreshing")
           v0 == [b EXCEPT !.k.answer = issued'[acct], !.k.v0 = task[t].v]
<1>1. w \in Worlds /\ task[t].v \in Nat /\ x \in Nat
  BY WorldFacts, StoredIsNat DEF ActivationInv, Task
<1>2. task[t].pc = "refresh" /\ UNCHANGED <<key, store>>
  BY DEF LockStore
<1>3. \/ Stored(t) = 0 /\ Commit(t, FailClosed(w, t))
      \/ Fault /\ Commit(t, At(w, "recheck"))
      \/ Commit(t, At(u, "auth"))
      \/ Aborted(u, t) /\ Commit(t, At(u, "recheck"))
      \/ /\ acct \in Accounts /\ issued' = [issued EXCEPT ![acct] = @ + 1]
         /\ ~Aborted(u, t) /\ lock' = t /\ Commit(t, v0)
  <2>1. Stored(t) # 0 => acct \in Accounts
    BY DEF Stored
  <2> QED
    BY <2>1 DEF LockStore
<1> HIDE DEF w, x
<1>4. Aside(w, u)
  BY <1>1, AsideFields
<1> HIDE DEF u
<1>5. Aborted(u, t) <=> Aborted(w, t)
  BY <1>4 DEF Aside, SameTask, Aborted, IsOwnerCurrent
<1>6. /\ Goes(w, At(w, "recheck"), "recheck") /\ Goes(w, At(u, "recheck"), "recheck")
      /\ Goes(w, At(u, "auth"), "auth") /\ Goes(w, b, "refreshing")
  BY <1>1, <1>4, GoesFields DEF Waiting
<1>7. acct \in Accounts /\ issued' = [issued EXCEPT ![acct] = @ + 1] => Goes(w, v0, "refreshing")
  <2> SUFFICES ASSUME acct \in Accounts, issued' = [issued EXCEPT ![acct] = @ + 1]
               PROVE  Goes(w, v0, "refreshing")
    OBVIOUS
  <2> DEFINE n == issued'[acct]
  <2>1. n \in Nat
    BY VersionsAreNumbers DEF StoreInv
  <2>2. b \in Worlds
    BY <1>6 DEF Goes
  <2> HIDE DEF b, n
  <2>3. Aside(b, [b EXCEPT !.k.answer = n, !.k.v0 = task[t].v])
    BY <1>1, <2>1, <2>2, AsideFields
  <2>4. Goes(w, [b EXCEPT !.k.answer = n, !.k.v0 = task[t].v], "refreshing")
    BY <1>1, <1>6, <2>3, GoesFields DEF Waiting
  <2> QED
    BY <2>4 DEF n
<1> HIDE DEF v0, b
<1>8. \/ Stored(t) = 0 /\ Commit(t, FailClosed(w, t))
      \/ \E v : Commit(t, v) /\ Goes(w, v, "auth")
      \/ (Fault \/ Aborted(w, t)) /\ \E v : Commit(t, v) /\ Goes(w, v, "recheck")
      \/ ~Aborted(w, t) /\ lock' = t /\ \E v : Commit(t, v) /\ Goes(w, v, "refreshing")
  BY <1>3, <1>5, <1>6, <1>7
<1> QED
  BY <1>2, <1>8 DEF w

LEMMA RefreshMoves ==
  ASSUME ActivationInv, StoreInv, NEW t \in DOMAIN task, Refreshed(t) \/ RefreshFails(t)
  PROVE  LET w == World(t) IN
         /\ task[t].pc = "refreshing" /\ key' = key
         /\ \/ ~Aborted(w, t) /\ \E v : Commit(t, v) /\ Goes(w, v, "auth")
            \/ /\ Fault \/ Aborted(w, t) \/ lock # t
               /\ store' = store \/ lock # t
               /\ \E v : Commit(t, v) /\ Goes(w, v, "recheck")
<1> DEFINE w == World(t)
           u == [w EXCEPT !.k.answer = 0, !.k.v0 = 0]
           a == At(u, "auth")
           b == At(u, "recheck")
           new == task[t].answer
           x == task[t].v0
<1>1. w \in Worlds /\ new \in Nat /\ x \in Nat /\ t \in Nat /\ t # 0
  BY WorldFacts DEF ActivationInv, Task
<1>2. task[t].pc = "refreshing" /\ key' = key
  BY DEF Refreshed, RefreshFails
<1>3. update.by = t /\ (lock = t => ~update.told /\ update.store = store)
  BY <1>1 DEF Refreshed, RefreshFails, StoreInv, LockIsHeld
<1>4. \/ ~Aborted(u, t) /\ Commit(t, [a EXCEPT !.k.v = new])
      \/ /\ Fault \/ Aborted(u, t) \/ lock # t
         /\ store' = store \/ lock # t
         /\ Commit(t, b) \/ Commit(t, [b EXCEPT !.k.v = x])
  <2>1. Refreshed(t)
          => \/ ~Aborted(u, t) /\ Commit(t, [a EXCEPT !.k.v = new])
             \/ Aborted(u, t) /\ store' = update.store /\ Commit(t, b)
             \/ update.told /\ store' = store /\ Commit(t, [b EXCEPT !.k.v = x])
    BY DEF Refreshed, Compromised, WriteBack, Unwritten
  <2>2. RefreshFails(t)
          => /\ Fault
             /\ \/ store' = update.store /\ Commit(t, b)
                \/ store' = store /\ Commit(t, [b EXCEPT !.k.v = x])
    BY DEF RefreshFails, WriteBack, Unwritten
  <2> HIDE DEF u, a, b, new, x
  <2> QED
    BY <1>3, <2>1, <2>2
<1> HIDE DEF w, new, x
<1>5. Aside(w, u)
  BY <1>1, AsideFields
<1> HIDE DEF u
<1>6. Aborted(u, t) <=> Aborted(w, t)
  BY <1>5 DEF Aside, SameTask, Aborted, IsOwnerCurrent
<1>7. Goes(w, a, "auth") /\ Goes(w, b, "recheck")
  BY <1>1, <1>5, GoesFields DEF Waiting
<1> HIDE DEF a, b
<1>8. a \in Worlds /\ b \in Worlds
  BY <1>7 DEF Goes
<1>9. Aside(a, [a EXCEPT !.k.v = new]) /\ Aside(b, [b EXCEPT !.k.v = x])
  BY <1>1, <1>8, AsideFields
<1>10. Goes(w, [a EXCEPT !.k.v = new], "auth") /\ Goes(w, [b EXCEPT !.k.v = x], "recheck")
  BY <1>1, <1>7, <1>9, GoesFields DEF Waiting
<1> DEFINE va == [a EXCEPT !.k.v = new]
           vb == [b EXCEPT !.k.v = x]
<1>11. Goes(w, va, "auth") /\ Goes(w, vb, "recheck")
  BY <1>10
<1>12. \/ ~Aborted(w, t) /\ Commit(t, va)
       \/ /\ Fault \/ Aborted(w, t) \/ lock # t
          /\ store' = store \/ lock # t
          /\ Commit(t, b) \/ Commit(t, vb)
  BY <1>4, <1>6
<1> HIDE DEF va, vb
<1>13. \/ ~Aborted(w, t) /\ \E v : Commit(t, v) /\ Goes(w, v, "auth")
       \/ /\ Fault \/ Aborted(w, t) \/ lock # t
          /\ store' = store \/ lock # t
          /\ \E v : Commit(t, v) /\ Goes(w, v, "recheck")
  BY <1>7, <1>11, <1>12
<1> QED
  BY <1>2, <1>13 DEF w

LEMMA NewestRefreshes ==
  ASSUME ActivationInv, StoreInv, CountersInv, AgreeInv, ses.phase = "up",
         NEW t, t = Latest, Frame(t), LockStore(t) \/ Refreshed(t) \/ RefreshFails(t)
  PROVE  AgreeInv' /\ TurnsReady
<1> DEFINE w == World(t)
<1>1. t \in DOMAIN task /\ (Aborted(w, t) => Blamed)
  BY NewestFacts
<1>2. CASE LockStore(t)
  <2>1. /\ task[t].pc = "refresh" /\ UNCHANGED <<key, store>>
        /\ \/ Stored(t) = 0 /\ Commit(t, FailClosed(w, t))
           \/ \E v : Commit(t, v) /\ Goes(w, v, "auth")
           \/ (Fault \/ Aborted(w, t)) /\ \E v : Commit(t, v) /\ Goes(w, v, "recheck")
           \/ ~Aborted(w, t) /\ lock' = t /\ \E v : Commit(t, v) /\ Goes(w, v, "refreshing")
    BY <1>1, <1>2, LockStoreMoves
  <2>2. task[t].acct = ses.sel /\ ses.sel \in Accounts
    BY <2>1, ReadersHaveAccounts
  <2>3. Stored(t) = 0 => BlamedNow
    BY <2>1, <2>2 DEF Stored, BlamedNow
  <2>4. Fault \/ Aborted(w, t) => BlamedNow
    BY <1>1, <2>1, FaultIsBlamed, StillBlamed DEF Frame
  <2>5. Stored(t) = 0 /\ Commit(t, FailClosed(w, t)) => AgreeInv' /\ TurnsReady
    BY <2>1, <2>3, NewestGivesUp DEF Enqueued
  <2>6. \A v : Commit(t, v) /\ Goes(w, v, "auth") => AgreeInv' /\ TurnsReady
    BY <2>1, <2>2, NewestReads DEF Early
  <2>7. \A v : BlamedNow /\ Commit(t, v) /\ Goes(w, v, "recheck") => AgreeInv' /\ TurnsReady
    BY <2>1, <2>2, NewestReads DEF Early
  <2>8. \A v : lock' = t /\ Commit(t, v) /\ Goes(w, v, "refreshing") => AgreeInv' /\ TurnsReady
    BY <2>1, <2>2, NewestReads DEF Early
  <2> HIDE DEF w
  <2> QED
    BY <2>1, <2>4, <2>5, <2>6, <2>7, <2>8
<1>3. CASE Refreshed(t) \/ RefreshFails(t)
  <2>1. /\ task[t].pc = "refreshing" /\ key' = key
        /\ \/ ~Aborted(w, t) /\ \E v : Commit(t, v) /\ Goes(w, v, "auth")
           \/ /\ Fault \/ Aborted(w, t) \/ lock # t
              /\ store' = store \/ lock # t
              /\ \E v : Commit(t, v) /\ Goes(w, v, "recheck")
    BY <1>1, <1>3, RefreshMoves
  <2>2. ses.sel \in Accounts
    BY <2>1, ReadersHaveAccounts
  <2>3. lock # t => BlamedNow
    BY <1>1, <2>1 DEF AgreeInv, TroubleInv, BlamedNow, Frame
  <2>4. (store' = store \/ lock # t) /\ (Fault \/ Aborted(w, t) \/ lock # t) => BlamedNow
    BY <1>1, <2>3, FaultIsBlamed, StillBlamed DEF Frame
  <2>5. \A v : Commit(t, v) /\ Goes(w, v, "auth") => AgreeInv' /\ TurnsReady
    BY <2>1, <2>2, NewestReads DEF Early
  <2>6. \A v : BlamedNow /\ Commit(t, v) /\ Goes(w, v, "recheck") => AgreeInv' /\ TurnsReady
    BY <2>1, <2>2, NewestReads DEF Early
  <2> HIDE DEF w
  <2> QED
    BY <2>1, <2>4, <2>5, <2>6
<1> QED
  BY <1>2, <1>3

LEMMA NewestRecheck ==
  ASSUME ActivationInv, CountersInv, AgreeInv, ses.phase = "up",
         NEW t, t = Latest, Frame(t), Recheck(t)
  PROVE  AgreeInv' /\ TurnsReady
<1>1. task[t].pc = "recheck" /\ UNCHANGED <<key, store>>
  BY DEF Recheck, Step
<1>2. Commit(t, FailClosed(World(t), t)) \/ Commit(t, Retry(World(t), t))
  BY DEF Recheck
<1>3. Selected(World(t), Blamed) /\ World(t).k = task[t]
  BY NewestFacts DEF Agreed
<1>4. BlamedNow
  BY <1>1, <1>3, StillBlamed DEF Selected, Frame
<1> QED
  BY <1>1, <1>2, <1>4, NewestGivesUp, NewestRetries DEF Enqueued

\* Single fields that steps of a task write.
LEMMA AppliedFields ==
  ASSUME NEW w \in Worlds, NEW l \in Login
  PROVE  LET v == [w EXCEPT !.c.set = l] IN
           /\ v \in Worlds /\ v.k = w.k /\ v.conf = w.conf /\ v.s = w.s
           /\ v.c.gen = w.c.gen /\ v.c.cgen = w.c.cgen /\ v.c.rgen = w.c.rgen /\ v.c.set = l
           /\ SameOffers(w.c, v.c) /\ v.c.queue = w.c.queue
<1> DEFINE c == [w.c EXCEPT !.set = l]
<1>1. [w EXCEPT !.c.set = l] = [w EXCEPT !.c = c]
  BY DEF Worlds
<1>2. /\ c \in Coordinator /\ c.gen = w.c.gen /\ c.cgen = w.c.cgen /\ c.rgen = w.c.rgen
      /\ c.set = l /\ SameOffers(w.c, c) /\ c.queue = w.c.queue
  BY Fields DEF Coordinator, SameOffers
<1> HIDE DEF c
<1> DEFINE v == [w EXCEPT !.c = c]
<1>3. v \in Worlds /\ v.c = c /\ v.k = w.k /\ v.conf = w.conf /\ v.s = w.s
  BY <1>2, WithCoordinator
<1> HIDE DEF v
<1>4. /\ v \in Worlds /\ v.k = w.k /\ v.conf = w.conf /\ v.s = w.s
      /\ v.c.gen = w.c.gen /\ v.c.cgen = w.c.cgen /\ v.c.rgen = w.c.rgen /\ v.c.set = l
      /\ SameOffers(w.c, v.c) /\ v.c.queue = w.c.queue
  BY <1>2, <1>3
<1> QED
  BY <1>1, <1>4 DEF v

LEMMA PendingFields ==
  ASSUME NEW w \in Worlds, NEW l \in Login
  PROVE  LET v == [w EXCEPT !.c.pending = l] IN
           /\ v \in Worlds /\ v.k = w.k /\ v.conf = w.conf /\ v.s = w.s
           /\ SameMarks(w.c, v.c) /\ v.c.pending = l /\ v.c.offer = w.c.offer
           /\ v.c.queue = w.c.queue
<1> DEFINE c == [w.c EXCEPT !.pending = l]
<1>1. [w EXCEPT !.c.pending = l] = [w EXCEPT !.c = c]
  BY DEF Worlds
<1>2. /\ c \in Coordinator /\ SameMarks(w.c, c)
      /\ c.pending = l /\ c.offer = w.c.offer /\ c.queue = w.c.queue
  BY Fields DEF Coordinator, SameMarks
<1> HIDE DEF c
<1> DEFINE v == [w EXCEPT !.c = c]
<1>3. v \in Worlds /\ v.c = c /\ v.k = w.k /\ v.conf = w.conf /\ v.s = w.s
  BY <1>2, WithCoordinator
<1> HIDE DEF v
<1>4. /\ v \in Worlds /\ v.k = w.k /\ v.conf = w.conf /\ v.s = w.s
      /\ SameMarks(w.c, v.c) /\ v.c.pending = l /\ v.c.offer = w.c.offer
      /\ v.c.queue = w.c.queue
  BY <1>2, <1>3
<1> QED
  BY <1>1, <1>4 DEF v

LEMMA SettingFields ==
  ASSUME NEW w \in Worlds
  PROVE  LET v == [At(w, "setting") EXCEPT !.c.set = Unset, !.c.may = TRUE] IN
           /\ v \in Worlds /\ v.conf = w.conf /\ v.s = w.s
           /\ v.k.pc = "setting" /\ SameTask(w.k, v.k)
           /\ v.c.gen = w.c.gen /\ v.c.cgen = w.c.cgen /\ v.c.rgen = w.c.rgen /\ v.c.set = Unset
           /\ SameOffers(w.c, v.c) /\ v.c.queue = w.c.queue
<1> DEFINE a == At(w, "setting")
           unset == Unset
           c == [a.c EXCEPT !.set = unset, !.may = TRUE]
<1>1. unset \in Login
  BY Values
<1>2. a \in Worlds /\ a.c = w.c /\ a.conf = w.conf /\ a.s = w.s
      /\ a.k.pc = "setting" /\ SameTask(w.k, a.k)
  BY AtFields DEF Waiting
<1> HIDE DEF a, unset
<1>3. [a EXCEPT !.c.set = unset, !.c.may = TRUE] = [a EXCEPT !.c = c]
  BY <1>2 DEF Worlds
<1>4. /\ c \in Coordinator /\ c.gen = a.c.gen /\ c.cgen = a.c.cgen /\ c.rgen = a.c.rgen
      /\ c.set = unset /\ SameOffers(a.c, c) /\ c.queue = a.c.queue
  BY <1>1, <1>2, Fields DEF Coordinator, SameOffers
<1> HIDE DEF c
<1> DEFINE v == [a EXCEPT !.c = c]
<1>5. v \in Worlds /\ v.c = c /\ v.k = a.k /\ v.conf = a.conf /\ v.s = a.s
  BY <1>2, <1>4, WithCoordinator
<1> HIDE DEF v
<1>6. /\ v \in Worlds /\ v.conf = w.conf /\ v.s = w.s
      /\ v.k.pc = "setting" /\ SameTask(w.k, v.k)
      /\ v.c.gen = w.c.gen /\ v.c.cgen = w.c.cgen /\ v.c.rgen = w.c.rgen /\ v.c.set = unset
      /\ SameOffers(w.c, v.c) /\ v.c.queue = w.c.queue
  BY <1>2, <1>4, <1>5
<1> QED
  BY <1>3, <1>6 DEF a, v, unset

LEMMA KeyFields ==
  ASSUME NEW w \in Worlds, NEW l \in Login
  PROVE  LET v == [w EXCEPT !.k.key = l] IN
           /\ v \in Worlds /\ v.c = w.c /\ v.conf = w.conf /\ v.s = w.s
           /\ v.k.pc = w.k.pc /\ v.k.own = w.k.own /\ v.k.acct = w.k.acct /\ v.k.mode = w.k.mode
           /\ v.k.aborted = w.k.aborted /\ v.k.key = l /\ v.k.res = w.k.res
<1> DEFINE k == [w.k EXCEPT !.key = l]
<1>1. /\ k \in Task /\ k.pc = w.k.pc /\ k.own = w.k.own /\ k.acct = w.k.acct
      /\ k.mode = w.k.mode /\ k.aborted = w.k.aborted /\ k.key = l /\ k.res = w.k.res
  BY Fields DEF Task
<1>2. [w EXCEPT !.k.key = l] = [w EXCEPT !.k = k]
  BY DEF Worlds
<1> HIDE DEF k
<1> DEFINE v == [w EXCEPT !.k = k]
<1>3. v \in Worlds /\ v.c = w.c /\ v.k = k /\ v.conf = w.conf /\ v.s = w.s
  BY <1>1, WithTask
<1> HIDE DEF v
<1>4. /\ v \in Worlds /\ v.c = w.c /\ v.conf = w.conf /\ v.s = w.s
      /\ v.k.pc = w.k.pc /\ v.k.own = w.k.own /\ v.k.acct = w.k.acct /\ v.k.mode = w.k.mode
      /\ v.k.aborted = w.k.aborted /\ v.k.key = l /\ v.k.res = w.k.res
  BY <1>1, <1>3
<1> QED
  BY <1>2, <1>4 DEF v

\* A step of the newest task that calls none of the operators that end it.
LEMMA NewestGoes ==
  ASSUME ActivationInv, AgreeInv, ses.phase = "up", NEW t, t = Latest, Frame(t),
         NEW v \in Worlds, v.s = ses, v.k.own = task[t].own, v.k.aborted => task[t].aborted,
         v.c.set \in {Unset, key'}, Commit(t, v), v.k.pc # "refreshing",
         Agreed(v, t, key', refused, BlamedNow),
         Moves(t, task[t].pc, coord[ses.n].queue, v.k.pc, v.c.queue)
  PROVE  AgreeInv' /\ TurnsReady
<1>1. Proceeds(v, v, t)
  BY DEF Proceeds, SameSelection, Turned
<1> QED
  BY <1>1, NewestProceeds

LEMMA NewestToAuth ==
  ASSUME ActivationInv, CountersInv, AgreeInv, ses.phase = "up",
         NEW t, t = Latest, Frame(t), ToAuth(t)
  PROVE  AgreeInv' /\ TurnsReady
<1> DEFINE w == World(t)
           l == LoginOf(w.k.acct, w.k.v)
           o == ApplyOverlay(w, l)
           a == At(o, "set")
           e == Enqueue(a, t)
           u == [e EXCEPT !.k.key = l]
<1>1. /\ w \in Worlds /\ w.s = ses /\ w.k = task[t] /\ w.c = coord[ses.n] /\ t \in DOMAIN task
      /\ Agreed(w, t, key, refused, Blamed) /\ w.c.set \in {Unset, key} /\ t \in Nat
      /\ w.c.gen = t /\ w.c.rgen = (IF w.s.bad THEN 0 ELSE t)
      /\ Aborted(w, t) => Blamed
  BY NewestFacts
<1>2. task[t].pc = "auth" /\ UNCHANGED <<key, store>>
  BY DEF ToAuth, Step
<1>3. task[t].acct = ses.sel /\ ses.sel \in Accounts /\ ~ses.bad
  BY <1>2, ReadersHaveAccounts
<1>4. \/ Commit(t, Retry(w, t))
      \/ (Fault \/ Aborted(w, t)) /\ Commit(t, FailClosed(w, t))
      \/ Fault /\ Commit(t, At(w, "recheck"))
      \/ Commit(t, u)
  BY DEF ToAuth
<1>5. Fault \/ Aborted(w, t) => BlamedNow
  BY <1>1, <1>2, FaultIsBlamed, StillBlamed DEF Frame
<1>6. l \in Login /\ l.acct = ses.sel /\ l # Unset
  <2>1. l \in Login
    BY <1>1, Fields, Values
  <2>2. l.acct = ses.sel /\ Unset.acct = Failing
    BY <1>1, <1>3 DEF LoginOf, Unset
  <2> QED
    BY <1>3, <2>1, <2>2, RuntimeAuthAssumption
<1>7. CASE Commit(t, Retry(w, t))
  BY <1>2, <1>7, NewestRetries
<1>8. CASE (Fault \/ Aborted(w, t)) /\ Commit(t, FailClosed(w, t))
  BY <1>2, <1>5, <1>8, NewestGivesUp DEF Enqueued
<1>9. CASE Fault /\ Commit(t, At(w, "recheck"))
  <2>1. Goes(w, At(w, "recheck"), "recheck")
    BY <1>1, GoesFields DEF Waiting
  <2>2. BlamedNow
    BY <1>5, <1>9
  <2> DEFINE v == At(w, "recheck")
  <2>3. Commit(t, v) /\ Goes(World(t), v, "recheck")
    BY <1>9, <2>1
  <2> HIDE DEF v
  <2> QED
    BY <1>2, <1>3, <2>2, <2>3, NewestReads DEF Early
<1>10. CASE Commit(t, u)
  <2> HIDE DEF w, l
  <2>1. /\ o \in Worlds /\ o.k = w.k /\ o.conf = l /\ o.s = w.s
        /\ SameMarks(w.c, o.c) /\ SameOffers(w.c, o.c) /\ o.c.queue = w.c.queue
    BY <1>1, <1>6, ApplyOverlayFields
  <2> HIDE DEF o
  <2>2. /\ a \in Worlds /\ a.c = o.c /\ a.conf = o.conf /\ a.s = o.s
        /\ a.k.pc = "set" /\ SameTask(o.k, a.k)
    BY <2>1, AtFields DEF Waiting
  <2> HIDE DEF a
  <2>3. /\ e \in Worlds /\ e.k = a.k /\ e.conf = a.conf /\ e.s = a.s
        /\ SameMarks(a.c, e.c) /\ SameOffers(a.c, e.c) /\ e.c.queue = Append(a.c.queue, t)
    BY <1>1, <2>2, EnqueueKeeps
  <2> HIDE DEF e
  <2>4. /\ u \in Worlds /\ u.c = e.c /\ u.conf = e.conf /\ u.s = e.s
        /\ u.k.pc = e.k.pc /\ u.k.own = e.k.own /\ u.k.acct = e.k.acct /\ u.k.mode = e.k.mode
        /\ u.k.aborted = e.k.aborted /\ u.k.key = l /\ u.k.res = e.k.res
    BY <1>6, <2>3, KeyFields
  <2> HIDE DEF u
  <2>5. /\ u.conf = l /\ u.s = ses /\ u.k.pc = "set" /\ u.k.key = l
        /\ u.k.own = task[t].own /\ u.k.acct = task[t].acct /\ u.k.mode = task[t].mode
        /\ u.k.aborted = task[t].aborted
        /\ SameMarks(w.c, u.c) /\ u.c.offer = w.c.offer /\ u.c.queue = Append(w.c.queue, t)
    <3>1. /\ u.conf = l /\ u.s = ses /\ u.k.pc = "set" /\ u.k.key = l
          /\ u.c.queue = Append(w.c.queue, t)
      BY <1>1, <2>1, <2>2, <2>3, <2>4
    <3>2. /\ u.k.own = task[t].own /\ u.k.acct = task[t].acct /\ u.k.mode = task[t].mode
          /\ u.k.aborted = task[t].aborted
      BY <1>1, <2>1, <2>2, <2>3, <2>4 DEF SameTask
    <3>3. SameMarks(w.c, u.c) /\ u.c.offer = w.c.offer
      BY <2>1, <2>2, <2>3, <2>4 DEF SameMarks, SameOffers
    <3> QED
      BY <3>1, <3>2, <3>3
  <2>6. w.c.cgen = t /\ w.c.offer = Unset /\ task[t].mode = "account"
    BY <1>1, <1>2 DEF Agreed, Generations, Selected, Concludes
  <2>7. Generations(u, t) /\ Concludes(u, key', refused, BlamedNow)
    BY <1>1, <2>5, <2>6 DEF Generations, Concludes, SameMarks
  <2>8. Selected(u, BlamedNow)
    BY <1>3, <2>5, <2>6 DEF Selected
  <2>9. Applying(u, key', refused)
    BY <1>3, <1>6, <2>5 DEF Applying
  <2>10. Agreed(u, t, key', refused, BlamedNow)
    BY <2>7, <2>8, <2>9 DEF Agreed
  <2>11. Moves(t, task[t].pc, coord[ses.n].queue, u.k.pc, u.c.queue)
    BY <1>1, <1>2, <2>5 DEF Moves, Enqueued
  <2>12. u.c.set \in {Unset, key'}
    BY <1>1, <1>2, <2>5 DEF SameMarks
  <2> QED
    BY <1>10, <2>4, <2>5, <2>10, <2>11, <2>12, NewestGoes
<1> QED
  BY <1>4, <1>7, <1>8, <1>9, <1>10

\* A task whose turn has come is the first of the queue of its coordinator.
LEMMA NewestIsNext ==
  ASSUME ActivationInv, AgreeInv, ses.phase = "up", NEW t, t = Latest, IsNext(t)
  PROVE  coord[ses.n].queue # <<>> /\ Head(coord[ses.n].queue) = t
BY NewestFacts DEF IsNext

LEMMA NewestSetBegins ==
  ASSUME ActivationInv, CountersInv, AgreeInv, ses.phase = "up",
         NEW t, t = Latest, Frame(t), SetBegins(t)
  PROVE  AgreeInv' /\ TurnsReady
<1> DEFINE w == World(t)
           d == Dequeue(w)
           m == At(d, "match")
           u == [At(w, "setting") EXCEPT !.c.set = Unset, !.c.may = TRUE]
<1>1. /\ w \in Worlds /\ w.s = ses /\ w.k = task[t] /\ w.c = coord[ses.n] /\ t \in DOMAIN task
      /\ Agreed(w, t, key, refused, Blamed) /\ w.c.set \in {Unset, key} /\ t \in Nat
      /\ w.c.gen = t /\ w.c.rgen = (IF w.s.bad THEN 0 ELSE t)
  BY NewestFacts
<1>2. task[t].pc = "set" /\ UNCHANGED <<key, store>> /\ IsNext(t)
  BY DEF SetBegins, Step
<1>3. coord[ses.n].queue # <<>> /\ Head(coord[ses.n].queue) = t
  BY <1>2, NewestIsNext
<1>4. /\ w.c.cgen = t /\ w.c.offer = Unset
      /\ w.conf = w.k.key /\ w.k.key # Unset
      /\ w.k.mode = "account" => w.k.key.acct = w.s.sel /\ w.s.sel \in Accounts
      /\ w.k.mode = "account" => w.k.acct = w.s.sel /\ ~w.s.bad
      /\ w.k.mode # "account" => BlamedNow
  <2>1. Blamed => BlamedNow
    BY <1>2, StillBlamed DEF Frame
  <2> QED
    BY <1>1, <1>2, <2>1 DEF Agreed, Generations, Selected, Applying, Concludes
<1>5. \/ w.c.set = w.k.key /\ Commit(t, m)
      \/ Commit(t, u)
  BY <1>4 DEF SetBegins
<1> HIDE DEF w
<1>6. CASE w.c.set = w.k.key /\ Commit(t, m)
  <2>1. /\ d \in Worlds /\ d.k = w.k /\ d.conf = w.conf /\ d.s = w.s
        /\ SameMarks(w.c, d.c) /\ SameOffers(w.c, d.c) /\ d.c.queue = Tail(w.c.queue)
    BY <1>1, <1>3, DequeueKeeps
  <2> HIDE DEF d
  <2>2. /\ m \in Worlds /\ m.c = d.c /\ m.conf = d.conf /\ m.s = d.s
        /\ m.k.pc = "match" /\ SameTask(d.k, m.k)
    BY <2>1, AtFields DEF Waiting
  <2> HIDE DEF m
  <2>3. /\ m.conf = w.conf /\ m.s = w.s /\ m.k.pc = "match" /\ SameTask(w.k, m.k)
        /\ SameMarks(w.c, m.c) /\ m.c.offer = w.c.offer /\ m.c.queue = Tail(w.c.queue)
    BY <2>1, <2>2 DEF SameMarks, SameOffers
  <2>4. key' = w.k.key
    BY <1>1, <1>2, <1>4, <1>6
  <2>5. Generations(m, t) /\ Concludes(m, key', refused, BlamedNow)
    BY <1>1, <1>4, <2>3 DEF Generations, Concludes, SameMarks
  <2>6. Selected(m, BlamedNow)
    BY <1>4, <2>3 DEF Selected, SameTask
  <2>7. Applying(m, key', refused)
    BY <1>4, <2>3, <2>4 DEF Applying, SameTask
  <2>8. Agreed(m, t, key', refused, BlamedNow)
    BY <2>5, <2>6, <2>7 DEF Agreed
  <2>9. Moves(t, task[t].pc, coord[ses.n].queue, m.k.pc, m.c.queue)
    BY <1>1, <1>2, <1>3, <2>3 DEF Moves, Enqueued
  <2>10. m.c.set \in {Unset, key'}
    BY <1>1, <1>2, <2>3 DEF SameMarks
  <2>11. m.k.own = task[t].own /\ m.k.aborted = task[t].aborted /\ m.s = ses
    BY <1>1, <2>3 DEF SameTask
  <2> QED
    BY <1>6, <2>2, <2>3, <2>8, <2>9, <2>10, <2>11, NewestGoes
<1>7. CASE Commit(t, u)
  <2>1. /\ u \in Worlds /\ u.conf = w.conf /\ u.s = w.s
        /\ u.k.pc = "setting" /\ SameTask(w.k, u.k)
        /\ u.c.gen = w.c.gen /\ u.c.cgen = w.c.cgen /\ u.c.rgen = w.c.rgen /\ u.c.set = Unset
        /\ SameOffers(w.c, u.c) /\ u.c.queue = w.c.queue
    BY <1>1, SettingFields
  <2> HIDE DEF u
  <2>2. Generations(u, t) /\ Concludes(u, key', refused, BlamedNow)
    BY <1>1, <1>4, <2>1 DEF Generations, Concludes, SameOffers
  <2>3. Selected(u, BlamedNow)
    BY <1>4, <2>1 DEF Selected, SameTask
  <2>4. Applying(u, key', refused)
    BY <1>4, <2>1 DEF Applying, SameTask
  <2>5. Agreed(u, t, key', refused, BlamedNow)
    BY <2>2, <2>3, <2>4 DEF Agreed
  <2>6. Moves(t, task[t].pc, coord[ses.n].queue, u.k.pc, u.c.queue)
    BY <1>1, <1>2, <1>3, <2>1 DEF Moves, Enqueued
  <2>7. u.k.own = task[t].own /\ u.k.aborted = task[t].aborted /\ u.s = ses
    BY <1>1, <2>1 DEF SameTask
  <2> QED
    BY <1>7, <2>1, <2>5, <2>6, <2>7, NewestGoes
<1> QED
  BY <1>5, <1>6, <1>7

\* The key could not be applied.
LEMMA NewestNotApplied ==
  ASSUME ActivationInv, AgreeInv, ses.phase = "up", NEW t, t = Latest, Frame(t), BlamedNow,
         NEW u \in Worlds, u.s = ses, u.k = task[t],
         u.c.set \in {Unset, key'}, u.c.gen = t, u.c.cgen = t,
         u.c.rgen = (IF u.s.bad THEN 0 ELSE t), u.c.offer = Unset,
         u.k.mode = "account" => u.k.acct = u.s.sel /\ ~u.s.bad,
         Commit(t, NotApplied(u, t)),
         Moves(t, task[t].pc, coord[ses.n].queue, "set", Append(u.c.queue, t)),
         \A x \in {"conns", "done"} : Moves(t, task[t].pc, coord[ses.n].queue, x, u.c.queue)
  PROVE  AgreeInv' /\ TurnsReady
<1> DEFINE r == Error(u.k.acct)
<1>1. Commit(t, FailClosed(u, t)) \/ Commit(t, Settle(u, t, r))
  BY DEF NotApplied
<1>2. CASE Commit(t, FailClosed(u, t))
  BY <1>2, NewestFailsClosed
<1>3. CASE Commit(t, Settle(u, t, r))
  <2>1. r \in Result /\ r.status = "error"
    BY Fields, Values DEF Error
  <2> HIDE DEF r
  <2>2. Concluded(r, u.s, key', u.conf, refused, BlamedNow)
    BY <2>1 DEF Concluded
  <2>3. u.c.cgen \in {0, t}
    OBVIOUS
  <2> QED
    BY <1>3, <2>1, <2>2, <2>3, NewestSettles
<1> QED
  BY <1>1, <1>2, <1>3

\* What the newest task has while it applies a key.
LEMMA NewestApplies ==
  ASSUME ActivationInv, AgreeInv, ses.phase = "up", NEW t, t = Latest,
         Frame(t), store' = store,
         task[t].pc \in {"set", "setting", "match", "catalog", "verify"}
  PROVE  LET w == World(t) IN
         /\ w.c.cgen = t /\ w.c.offer = Unset
         /\ w.conf = w.k.key /\ w.k.key # Unset
         /\ w.k.mode = "account" => w.k.key.acct = w.s.sel /\ w.s.sel \in Accounts
         /\ w.k.mode = "account" => w.k.acct = w.s.sel /\ ~w.s.bad
         /\ w.k.mode # "account" => BlamedNow
         /\ task[t].pc \in {"match", "catalog", "verify"} => key = w.k.key
         /\ task[t].pc \in {"catalog", "verify"} => w.k.mode = "account"
<1>1. Agreed(World(t), t, key, refused, Blamed) /\ World(t).k = task[t]
  BY NewestFacts
<1>2. Blamed => BlamedNow
  BY StillBlamed DEF Frame
<1> HIDE DEF Blamed, BlamedNow
<1> DEFINE w == World(t)
           pc == task[t].pc
<1>3. w.k.pc = pc /\ Agreed(w, t, key, refused, Blamed)
  BY <1>1
<1> HIDE DEF w, pc
<1>4. ASSUME pc \in {"set", "setting", "match", "catalog", "verify"}
      PROVE  /\ w.c.cgen = t /\ w.c.offer = Unset
             /\ w.conf = w.k.key /\ w.k.key # Unset
             /\ w.k.mode = "account" => w.k.key.acct = w.s.sel /\ w.s.sel \in Accounts
             /\ w.k.mode = "account" => w.k.acct = w.s.sel /\ ~w.s.bad
             /\ w.k.mode # "account" => Blamed
             /\ pc \in {"match", "catalog", "verify"} => key = w.k.key
             /\ pc \in {"catalog", "verify"} => w.k.mode = "account"
  <2>1. w.c.cgen = t /\ w.c.offer = Unset
    BY <1>3, <1>4 DEF Agreed, Generations, Concludes
  <2>2. /\ w.conf = w.k.key /\ w.k.key # Unset
        /\ w.k.mode = "account" => w.k.key.acct = w.s.sel /\ w.s.sel \in Accounts
        /\ pc \in {"match", "catalog", "verify"} => key = w.k.key
    BY <1>3, <1>4 DEF Agreed, Applying
  <2>3. /\ w.k.mode = "account" => w.k.acct = w.s.sel /\ ~w.s.bad
        /\ w.k.mode # "account" => Blamed
        /\ pc \in {"catalog", "verify"} => w.k.mode = "account"
    BY <1>3, <1>4 DEF Agreed, Selected
  <2> QED
    BY <2>1, <2>2, <2>3
<1> QED
  BY <1>2, <1>4 DEF w, pc

LEMMA NewestSetEnds ==
  ASSUME ActivationInv, CountersInv, AgreeInv, ses.phase = "up",
         NEW t, t = Latest, Frame(t), SetEnds(t)
  PROVE  AgreeInv' /\ TurnsReady
<1> DEFINE w == World(t)
           d == Dequeue(w)
           l == task[t].key
           u == [d EXCEPT !.c.set = l]
           m == At(u, "match")
<1>1. /\ w \in Worlds /\ w.s = ses /\ w.k = task[t] /\ w.c = coord[ses.n] /\ t \in DOMAIN task
      /\ t \in Nat /\ w.c.gen = t /\ w.c.rgen = (IF w.s.bad THEN 0 ELSE t)
  BY NewestFacts
<1>2. task[t].pc = "setting" /\ store' = store /\ key' = l
  BY DEF SetEnds
<1>3. coord[ses.n].queue # <<>> /\ Head(coord[ses.n].queue) = t
  BY <1>1, <1>2, SetterIsNext, NewestIsNext
<1>4. /\ w.c.cgen = t /\ w.c.offer = Unset
      /\ w.conf = w.k.key /\ w.k.key # Unset
      /\ w.k.mode = "account" => w.k.key.acct = w.s.sel /\ w.s.sel \in Accounts
      /\ w.k.mode = "account" => w.k.acct = w.s.sel /\ ~w.s.bad
      /\ w.k.mode # "account" => BlamedNow
  BY <1>2, NewestApplies
<1>5. u.c.cgen # t \/ Commit(t, m)
  BY DEF SetEnds
<1>6. l \in Login /\ l = w.k.key
  BY <1>1, Fields
<1> HIDE DEF w, l
<1>7. /\ d \in Worlds /\ d.k = w.k /\ d.conf = w.conf /\ d.s = w.s
      /\ SameMarks(w.c, d.c) /\ SameOffers(w.c, d.c) /\ d.c.queue = Tail(w.c.queue)
  BY <1>1, <1>3, DequeueKeeps
<1> HIDE DEF d
<1>8. /\ u \in Worlds /\ u.k = d.k /\ u.conf = d.conf /\ u.s = d.s
      /\ u.c.gen = d.c.gen /\ u.c.cgen = d.c.cgen /\ u.c.rgen = d.c.rgen /\ u.c.set = l
      /\ SameOffers(d.c, u.c) /\ u.c.queue = d.c.queue
  BY <1>6, <1>7, AppliedFields
<1> HIDE DEF u
<1>9. /\ m \in Worlds /\ m.c = u.c /\ m.conf = u.conf /\ m.s = u.s
      /\ m.k.pc = "match" /\ SameTask(u.k, m.k)
  BY <1>8, AtFields DEF Waiting
<1> HIDE DEF m
<1>10. /\ m.conf = w.conf /\ m.s = w.s /\ m.k.pc = "match" /\ SameTask(w.k, m.k)
       /\ m.c.gen = t /\ m.c.cgen = t /\ m.c.rgen = w.c.rgen /\ m.c.set = l
       /\ m.c.offer = Unset /\ m.c.queue = Tail(w.c.queue) /\ u.c.cgen = t
  BY <1>1, <1>4, <1>7, <1>8, <1>9 DEF SameMarks, SameOffers
<1>11. Generations(m, t) /\ Concludes(m, key', refused, BlamedNow)
  BY <1>1, <1>10 DEF Generations, Concludes
<1>12. Selected(m, BlamedNow)
  BY <1>4, <1>10 DEF Selected, SameTask
<1>13. Applying(m, key', refused)
  BY <1>2, <1>4, <1>6, <1>10 DEF Applying, SameTask
<1>14. Agreed(m, t, key', refused, BlamedNow)
  BY <1>11, <1>12, <1>13 DEF Agreed
<1>15. Moves(t, task[t].pc, coord[ses.n].queue, m.k.pc, m.c.queue)
  BY <1>1, <1>2, <1>3, <1>10 DEF Moves, Enqueued
<1>16. m.k.own = task[t].own /\ m.k.aborted = task[t].aborted /\ m.s = ses
  BY <1>1, <1>10 DEF SameTask
<1>17. Commit(t, m)
  BY <1>5, <1>10
<1> QED
  BY <1>2, <1>9, <1>10, <1>14, <1>15, <1>16, <1>17, NewestGoes

LEMMA NewestSetFails ==
  ASSUME ActivationInv, CountersInv, AgreeInv, ses.phase = "up",
         NEW t, t = Latest, Frame(t), SetFails(t)
  PROVE  AgreeInv' /\ TurnsReady
<1> DEFINE w == World(t)
           d == Dequeue(w)
<1>1. /\ w \in Worlds /\ w.s = ses /\ w.k = task[t] /\ w.c = coord[ses.n] /\ t \in DOMAIN task
      /\ w.c.set \in {Unset, key}
      /\ t \in Nat /\ w.c.gen = t /\ w.c.rgen = (IF w.s.bad THEN 0 ELSE t)
  BY NewestFacts
<1>2. /\ task[t].pc = "setting" /\ UNCHANGED <<store, key>> /\ Fault
      /\ Commit(t, NotApplied(d, t))
  BY DEF SetFails, Step
<1>3. coord[ses.n].queue # <<>> /\ Head(coord[ses.n].queue) = t
  BY <1>1, <1>2, SetterIsNext, NewestIsNext
<1>4. /\ w.c.cgen = t /\ w.c.offer = Unset
      /\ w.k.mode = "account" => w.k.acct = w.s.sel /\ ~w.s.bad
  BY <1>2, NewestApplies
<1>5. BlamedNow
  BY <1>2, FaultIsBlamed
<1> HIDE DEF w
<1>6. /\ d \in Worlds /\ d.k = w.k /\ d.conf = w.conf /\ d.s = w.s
      /\ SameMarks(w.c, d.c) /\ SameOffers(w.c, d.c) /\ d.c.queue = Tail(w.c.queue)
  BY <1>1, <1>3, DequeueKeeps
<1> HIDE DEF d
<1>7. /\ d.c.gen = t /\ d.c.cgen = t /\ d.c.rgen = (IF d.s.bad THEN 0 ELSE t)
      /\ d.c.set \in {Unset, key'} /\ d.c.offer = Unset
      /\ d.k.mode = "account" => d.k.acct = d.s.sel /\ ~d.s.bad
      /\ d.s = ses /\ d.k = task[t]
  BY <1>1, <1>2, <1>4, <1>6 DEF SameMarks, SameOffers
<1>8. /\ Moves(t, task[t].pc, coord[ses.n].queue, "set", Append(d.c.queue, t))
      /\ \A x \in {"conns", "done"} : Moves(t, task[t].pc, coord[ses.n].queue, x, d.c.queue)
  BY <1>1, <1>2, <1>3, <1>6 DEF Moves, Enqueued
<1> QED
  BY <1>2, <1>5, <1>6, <1>7, <1>8, NewestNotApplied

LEMMA NewestMatch ==
  ASSUME ActivationInv, CountersInv, AgreeInv, ses.phase = "up",
         NEW t, t = Latest, Frame(t), Match(t)
  PROVE  AgreeInv' /\ TurnsReady
<1> DEFINE w == World(t)
           a == At(w, "set")
           e == Enqueue(a, t)
           u == [e EXCEPT !.k.force = TRUE]
           r == Error(w.k.acct)
           m == At(w, "catalog")
<1>1. /\ w \in Worlds /\ w.s = ses /\ w.k = task[t] /\ w.c = coord[ses.n] /\ t \in DOMAIN task
      /\ w.c.set \in {Unset, key} /\ (Aborted(w, t) => Blamed)
      /\ t \in Nat /\ w.c.gen = t /\ w.c.rgen = (IF w.s.bad THEN 0 ELSE t)
  BY NewestFacts
<1>2. task[t].pc = "match" /\ UNCHANGED <<store, key>>
  BY DEF Match, Step
<1>3. /\ w.c.cgen = t /\ w.c.offer = Unset
      /\ w.conf = w.k.key /\ w.k.key # Unset
      /\ w.k.mode = "account" => w.k.key.acct = w.s.sel /\ w.s.sel \in Accounts
      /\ w.k.mode = "account" => w.k.acct = w.s.sel /\ ~w.s.bad
      /\ w.k.mode # "account" => BlamedNow
      /\ key = w.k.key
  BY <1>2, NewestApplies
<1>4. \/ Fault /\ Commit(t, NotApplied(w, t))
      \/ Fault /\ Commit(t, u)
      \/ w.k.mode # "account" /\ Commit(t, Settle(w, t, r))
      \/ Aborted(w, t) /\ Commit(t, FailClosed(w, t))
      \/ w.k.mode = "account" /\ Commit(t, m)
  BY <1>3 DEF Match
<1>5. Fault \/ Aborted(w, t) => BlamedNow
  BY <1>1, <1>2, FaultIsBlamed, StillBlamed DEF Frame
<1>6. r \in Result /\ r.status = "error"
  <2>1. r \in Result
    BY <1>1, Fields, Values
  <2> QED
    BY <2>1 DEF Error
<1>7. /\ Moves(t, task[t].pc, coord[ses.n].queue, "set", Append(w.c.queue, t))
      /\ \A x \in {"conns", "done"} : Moves(t, task[t].pc, coord[ses.n].queue, x, w.c.queue)
  BY <1>1, <1>2 DEF Moves, Enqueued, Early
<1>8. CASE Aborted(w, t) /\ Commit(t, FailClosed(w, t))
  BY <1>2, <1>5, <1>8, NewestGivesUp DEF Enqueued
<1> HIDE DEF w, r
<1>9. CASE Fault /\ Commit(t, NotApplied(w, t))
  <2>1. BlamedNow
    BY <1>5, <1>9
  <2> QED
    BY <1>1, <1>2, <1>3, <1>7, <1>9, <2>1, NewestNotApplied
<1>10. CASE w.k.mode # "account" /\ Commit(t, Settle(w, t, r))
  <2>1. Concluded(r, w.s, key', w.conf, refused, BlamedNow)
    BY <1>3, <1>6, <1>10 DEF Concluded
  <2> QED
    BY <1>1, <1>2, <1>3, <1>6, <1>7, <1>10, <2>1, NewestSettles
<1>11. CASE Fault /\ Commit(t, u)
  <2>1. /\ a \in Worlds /\ a.c = w.c /\ a.conf = w.conf /\ a.s = w.s
        /\ a.k.pc = "set" /\ SameTask(w.k, a.k)
    BY <1>1, AtFields DEF Waiting
  <2> HIDE DEF a
  <2>2. /\ e \in Worlds /\ e.k = a.k /\ e.conf = a.conf /\ e.s = a.s
        /\ SameMarks(a.c, e.c) /\ SameOffers(a.c, e.c) /\ e.c.queue = Append(a.c.queue, t)
    BY <1>1, <2>1, EnqueueKeeps
  <2> HIDE DEF e
  <2>3. Aside(e, u)
    BY <2>2, AsideFields
  <2> HIDE DEF u
  <2>4. /\ u \in Worlds /\ u.conf = w.conf /\ u.s = w.s /\ u.k.pc = "set" /\ SameTask(w.k, u.k)
        /\ SameMarks(w.c, u.c) /\ u.c.offer = w.c.offer /\ u.c.queue = Append(w.c.queue, t)
    <3>1. /\ u \in Worlds /\ u.conf = w.conf /\ u.s = w.s /\ u.k.pc = "set"
          /\ u.c.queue = Append(w.c.queue, t)
      BY <2>1, <2>2, <2>3 DEF Aside
    <3>2. SameTask(w.k, u.k)
      BY <2>1, <2>2, <2>3 DEF Aside, SameTask
    <3>3. SameMarks(w.c, u.c) /\ u.c.offer = w.c.offer
      BY <2>1, <2>2, <2>3 DEF Aside, SameMarks, SameOffers
    <3> QED
      BY <3>1, <3>2, <3>3
  <2>5. Generations(u, t) /\ Concludes(u, key', refused, BlamedNow)
    BY <1>1, <1>3, <2>4 DEF Generations, Concludes, SameMarks
  <2>6. Selected(u, BlamedNow)
    BY <1>3, <2>4 DEF Selected, SameTask
  <2>7. Applying(u, key', refused)
    BY <1>3, <2>4 DEF Applying, SameTask
  <2>8. Agreed(u, t, key', refused, BlamedNow)
    BY <2>5, <2>6, <2>7 DEF Agreed
  <2>9. Moves(t, task[t].pc, coord[ses.n].queue, u.k.pc, u.c.queue)
    BY <1>7, <2>4
  <2>10. u.k.own = task[t].own /\ u.k.aborted = task[t].aborted /\ u.s = ses
    BY <1>1, <2>4 DEF SameTask
  <2>11. u.c.set \in {Unset, key'}
    BY <1>1, <1>2, <2>4 DEF SameMarks
  <2> QED
    BY <1>11, <2>4, <2>8, <2>9, <2>10, <2>11, NewestGoes
<1>12. CASE w.k.mode = "account" /\ Commit(t, m)
  <2>1. /\ m \in Worlds /\ m.c = w.c /\ m.conf = w.conf /\ m.s = w.s
        /\ m.k.pc = "catalog" /\ SameTask(w.k, m.k)
    BY <1>1, AtFields DEF Waiting
  <2> HIDE DEF m
  <2>2. Generations(m, t) /\ Concludes(m, key', refused, BlamedNow)
    BY <1>1, <1>3, <2>1 DEF Generations, Concludes
  <2>3. Selected(m, BlamedNow)
    BY <1>3, <1>12, <2>1 DEF Selected, SameTask
  <2>4. Applying(m, key', refused)
    BY <1>2, <1>3, <2>1 DEF Applying, SameTask
  <2>5. Agreed(m, t, key', refused, BlamedNow)
    BY <2>2, <2>3, <2>4 DEF Agreed
  <2>6. Moves(t, task[t].pc, coord[ses.n].queue, m.k.pc, m.c.queue)
    BY <1>1, <1>2, <2>1 DEF Moves, Enqueued, Early
  <2>7. m.k.own = task[t].own /\ m.k.aborted = task[t].aborted /\ m.s = ses
    BY <1>1, <2>1 DEF SameTask
  <2> QED
    BY <1>1, <1>2, <1>12, <2>1, <2>5, <2>6, <2>7, NewestGoes
<1> QED
  BY <1>4, <1>8, <1>9, <1>10, <1>11, <1>12

LEMMA NewestCatalog ==
  ASSUME ActivationInv, CountersInv, AgreeInv, ses.phase = "up",
         NEW t, t = Latest, Frame(t), RefreshCatalog(t)
  PROVE  AgreeInv' /\ TurnsReady
<1> DEFINE w == World(t)
           m == At(w, "verify")
<1>1. /\ w \in Worlds /\ w.s = ses /\ w.k = task[t] /\ w.c = coord[ses.n] /\ t \in DOMAIN task
      /\ w.c.set \in {Unset, key} /\ (Aborted(w, t) => Blamed)
      /\ t \in Nat /\ w.c.gen = t /\ w.c.rgen = (IF w.s.bad THEN 0 ELSE t)
  BY NewestFacts
<1>2. task[t].pc = "catalog" /\ UNCHANGED <<store, key>>
  BY DEF RefreshCatalog, Step
<1>3. /\ w.c.cgen = t /\ w.c.offer = Unset
      /\ w.conf = w.k.key /\ w.k.key # Unset
      /\ w.k.mode = "account" => w.k.key.acct = w.s.sel /\ w.s.sel \in Accounts
      /\ w.k.mode = "account" => w.k.acct = w.s.sel /\ ~w.s.bad
      /\ key = w.k.key /\ w.k.mode = "account"
  BY <1>2, NewestApplies
<1>4. \/ Commit(t, Retry(w, t))
      \/ (Fault \/ Aborted(w, t)) /\ Commit(t, FailClosed(w, t))
      \/ Commit(t, m)
  BY DEF RefreshCatalog
<1>5. Fault \/ Aborted(w, t) => BlamedNow
  BY <1>1, <1>2, FaultIsBlamed, StillBlamed DEF Frame
<1>6. CASE Commit(t, Retry(w, t))
  BY <1>2, <1>6, NewestRetries
<1>7. CASE (Fault \/ Aborted(w, t)) /\ Commit(t, FailClosed(w, t))
  BY <1>2, <1>5, <1>7, NewestGivesUp DEF Enqueued
<1>8. CASE Commit(t, m)
  <2> HIDE DEF w
  <2>1. /\ m \in Worlds /\ m.c = w.c /\ m.conf = w.conf /\ m.s = w.s
        /\ m.k.pc = "verify" /\ SameTask(w.k, m.k)
    BY <1>1, AtFields DEF Waiting
  <2> HIDE DEF m
  <2>2. Generations(m, t) /\ Concludes(m, key', refused, BlamedNow)
    BY <1>1, <1>3, <2>1 DEF Generations, Concludes
  <2>3. Selected(m, BlamedNow)
    BY <1>3, <2>1 DEF Selected, SameTask
  <2>4. Applying(m, key', refused)
    BY <1>2, <1>3, <2>1 DEF Applying, SameTask
  <2>5. Agreed(m, t, key', refused, BlamedNow)
    BY <2>2, <2>3, <2>4 DEF Agreed
  <2>6. Moves(t, task[t].pc, coord[ses.n].queue, m.k.pc, m.c.queue)
    BY <1>1, <1>2, <2>1 DEF Moves, Enqueued, Early
  <2>7. m.k.own = task[t].own /\ m.k.aborted = task[t].aborted /\ m.s = ses
    BY <1>1, <2>1 DEF SameTask
  <2> QED
    BY <1>1, <1>2, <1>8, <2>1, <2>5, <2>6, <2>7, NewestGoes
<1> QED
  BY <1>4, <1>6, <1>7, <1>8

LEMMA NewestVerifies ==
  ASSUME ActivationInv, CountersInv, AgreeInv, ses.phase = "up",
         NEW t, t = Latest, Frame(t), VerifyOverlay(t)
  PROVE  AgreeInv' /\ TurnsReady
<1> DEFINE w == World(t)
           l == w.k.key
           u == [w EXCEPT !.c.pending = l]
           r == Active(w.k.acct)
<1>1. /\ w \in Worlds /\ w.s = ses /\ w.k = task[t] /\ w.c = coord[ses.n] /\ t \in DOMAIN task
      /\ w.c.set \in {Unset, key} /\ (Aborted(w, t) => Blamed)
      /\ t \in Nat /\ w.c.gen = t /\ w.c.rgen = (IF w.s.bad THEN 0 ELSE t)
      /\ w.conf = conf
  BY NewestFacts
<1>2. task[t].pc = "verify" /\ UNCHANGED <<store, key>>
  BY DEF VerifyOverlay, Step
<1>3. /\ w.c.cgen = t /\ w.c.offer = Unset /\ w.conf = l
      /\ w.k.mode = "account" => l.acct = w.s.sel /\ w.s.sel \in Accounts
      /\ w.k.mode = "account" => w.k.acct = w.s.sel /\ ~w.s.bad
      /\ key = l /\ w.k.mode = "account"
  BY <1>2, NewestApplies
<1>4. \/ (Fault \/ Aborted(w, t)) /\ Commit(t, FailClosed(w, t))
      \/ Commit(t, Settle(u, t, r))
  BY <1>1, <1>3 DEF VerifyOverlay
<1>5. Fault \/ Aborted(w, t) => BlamedNow
  BY <1>1, <1>2, FaultIsBlamed, StillBlamed DEF Frame
<1>6. CASE (Fault \/ Aborted(w, t)) /\ Commit(t, FailClosed(w, t))
  BY <1>2, <1>5, <1>6, NewestGivesUp DEF Enqueued
<1>7. CASE Commit(t, Settle(u, t, r))
  <2>1. l \in Login /\ r \in Result /\ r = Active(w.s.sel)
    BY <1>1, <1>3, Fields, Values
  <2> HIDE DEF w, l
  <2>2. /\ u \in Worlds /\ u.k = w.k /\ u.conf = w.conf /\ u.s = w.s
        /\ SameMarks(w.c, u.c) /\ u.c.pending = l /\ u.c.offer = w.c.offer
        /\ u.c.queue = w.c.queue
    BY <1>1, <2>1, PendingFields
  <2> HIDE DEF u, r
  <2>3. /\ u.c.gen = t /\ u.c.cgen \in {0, t} /\ u.c.rgen = (IF u.s.bad THEN 0 ELSE t)
        /\ u.c.set \in {Unset, key'} /\ u.c.pending = key' /\ u.c.offer = Unset
    BY <1>1, <1>2, <1>3, <2>2 DEF SameMarks
  <2>4. Concluded(r, u.s, key', u.conf, refused, BlamedNow)
    BY <1>2, <1>3, <2>1, <2>2 DEF Concluded
  <2>5. \A x \in {"conns", "done"} : Moves(t, task[t].pc, coord[ses.n].queue, x, u.c.queue)
    BY <1>1, <1>2, <2>2 DEF Moves, Enqueued, Early
  <2>6. /\ u.s = ses /\ u.k.own = task[t].own /\ (u.k.aborted => task[t].aborted)
        /\ u.k.mode = "account" /\ u.k.acct = u.s.sel /\ ~u.s.bad
    BY <1>1, <1>3, <2>2
  <2> QED
    BY <1>7, <2>1, <2>2, <2>3, <2>4, <2>5, <2>6, NewestSettles
<1> QED
  BY <1>4, <1>6, <1>7

-----------------------------------------------------------------------------
LEMMA ClearedFields ==
  ASSUME NEW w \in Worlds, w.c.queue # <<>>
  PROVE  LET v == Cleared(w) IN
           /\ v \in Worlds /\ v.k = w.k /\ v.conf = w.conf /\ v.s = w.s
           /\ v.c.gen = w.c.gen /\ v.c.cgen = w.c.cgen /\ v.c.rgen = w.c.rgen
           /\ v.c.set = (IF w.c.may THEN Unset ELSE w.c.set)
           /\ SameOffers(w.c, v.c) /\ v.c.queue = Tail(w.c.queue)
<1> DEFINE d == Dequeue(w)
           l == IF w.c.may THEN Unset ELSE d.c.set
           c == [d.c EXCEPT !.set = l, !.may = FALSE]
<1>1. /\ d \in Worlds /\ d.k = w.k /\ d.conf = w.conf /\ d.s = w.s
      /\ SameMarks(w.c, d.c) /\ SameOffers(w.c, d.c) /\ d.c.queue = Tail(w.c.queue)
  BY DequeueKeeps
<1>2. Cleared(w) = [d EXCEPT !.c.set = IF w.c.may THEN Unset ELSE @, !.c.may = FALSE]
  BY DEF Cleared
<1> HIDE DEF d
<1>3. l \in Login /\ l = (IF w.c.may THEN Unset ELSE w.c.set)
  BY <1>1, Fields, Values DEF SameMarks
<1>4. Cleared(w) = [d EXCEPT !.c.set = l, !.c.may = FALSE]
  BY <1>1, <1>2 DEF Worlds
<1> HIDE DEF l
<1>5. /\ c \in Coordinator /\ c.gen = d.c.gen /\ c.cgen = d.c.cgen /\ c.rgen = d.c.rgen
      /\ c.set = l /\ SameOffers(d.c, c) /\ c.queue = d.c.queue
  BY <1>1, <1>3, Fields DEF Coordinator, SameOffers
<1>6. Cleared(w) = [d EXCEPT !.c = c]
  BY <1>1, <1>4 DEF Worlds
<1> HIDE DEF c
<1> DEFINE v == [d EXCEPT !.c = c]
<1>7. v \in Worlds /\ v.c = c /\ v.k = d.k /\ v.conf = d.conf /\ v.s = d.s
  BY <1>1, <1>5, WithCoordinator
<1> HIDE DEF v
<1>8. /\ v \in Worlds /\ v.k = w.k /\ v.conf = w.conf /\ v.s = w.s
      /\ v.c.gen = w.c.gen /\ v.c.cgen = w.c.cgen /\ v.c.rgen = w.c.rgen
      /\ v.c.set = l /\ SameOffers(w.c, v.c) /\ v.c.queue = Tail(w.c.queue)
  BY <1>1, <1>5, <1>7 DEF SameMarks, SameOffers
<1> QED
  BY <1>3, <1>6, <1>8 DEF v

\* The operation begins again, to fail closed.
Again(w, v, t) ==
    /\ v \in Worlds /\ v.s = w.s /\ v.k.own = w.k.own /\ v.k.aborted = w.k.aborted
    /\ v.c.gen = t /\ v.c.cgen = t /\ v.c.rgen = w.c.rgen /\ v.c.set = w.c.set
    /\ v.c.queue = w.c.queue

LEMMA AgainFields ==
  ASSUME NEW w \in Worlds, NEW t \in Nat
  PROVE  /\ Again(w, [BeginOperation(w, t) EXCEPT !.k.acct = Failing], t)
         /\ Again(w, [BeginOperation(w, t) EXCEPT !.k.mode = "forced"], t)
<1> DEFINE b == BeginOperation(w, t)
<1>1. /\ b \in Worlds /\ b.k = w.k /\ b.s = w.s
      /\ b.c.gen = t /\ b.c.cgen = t /\ b.c.rgen = w.c.rgen /\ b.c.set = w.c.set
      /\ b.c.queue = w.c.queue
  BY BeginFields
<1> HIDE DEF b
<1>2. ASSUME NEW k \in Task, k.own = b.k.own, k.aborted = b.k.aborted
      PROVE  Again(w, [b EXCEPT !.k = k], t)
  <2> DEFINE v == [b EXCEPT !.k = k]
  <2>1. v \in Worlds /\ v.c = b.c /\ v.k = k /\ v.s = b.s
    BY <1>1, WithTask
  <2> HIDE DEF v
  <2>2. Again(w, v, t)
    BY <1>1, <1>2, <2>1 DEF Again
  <2> QED
    BY <2>2 DEF v
<1>3. Again(w, [b EXCEPT !.k.acct = Failing], t)
  <2> DEFINE k == [b.k EXCEPT !.acct = Failing]
  <2>1. k \in Task /\ k.own = b.k.own /\ k.aborted = b.k.aborted
    BY <1>1, Fields DEF Task
  <2>2. [b EXCEPT !.k.acct = Failing] = [b EXCEPT !.k = k]
    BY <1>1 DEF Worlds
  <2> HIDE DEF k
  <2> QED
    BY <1>2, <2>1, <2>2
<1>4. Again(w, [b EXCEPT !.k.mode = "forced"], t)
  <2> DEFINE k == [b.k EXCEPT !.mode = "forced"]
  <2>1. k \in Task /\ k.own = b.k.own /\ k.aborted = b.k.aborted
    BY <1>1, Fields DEF Task
  <2>2. [b EXCEPT !.k.mode = "forced"] = [b EXCEPT !.k = k]
    BY <1>1 DEF Worlds
  <2> HIDE DEF k
  <2> QED
    BY <1>2, <2>1, <2>2
<1> QED
  BY <1>3, <1>4 DEF b

\* What follows if it does: w is what the step makes of the world.
LEMMA NewestFailsAgain ==
  ASSUME ActivationInv, AgreeInv, ses.phase = "up", NEW t, t = Latest, Frame(t), BlamedNow,
         NEW w \in Worlds, w.s = ses, w.k = task[t],
         w.c.set \in {Unset, key'}, w.c.rgen = (IF w.s.bad THEN 0 ELSE t),
         NEW u, Again(w, u, t), Commit(t, FailClosed(u, t)),
         Moves(t, task[t].pc, coord[ses.n].queue, "set", Append(w.c.queue, t))
  PROVE  AgreeInv' /\ TurnsReady
<1>1. /\ u \in Worlds /\ u.s = ses /\ u.k.own = task[t].own /\ u.k.aborted = task[t].aborted
      /\ u.c.gen = t /\ u.c.cgen = t /\ u.c.rgen = w.c.rgen /\ u.c.set = w.c.set
      /\ u.c.queue = w.c.queue
  BY DEF Again
<1>2. u.c.rgen = (IF u.s.bad THEN 0 ELSE t)
  BY <1>1
<1> QED
  BY <1>1, <1>2, NewestFailsClosed

\* The default is not restored.
LEMMA NewestRestoreFails ==
  ASSUME ActivationInv, AgreeInv, ses.phase = "up", NEW t, t = Latest, Frame(t), BlamedNow,
         NEW w \in Worlds, w.s = ses, w.k = task[t], w.c.gen = t,
         w.c.set \in {Unset, key'}, w.c.rgen = (IF w.s.bad THEN 0 ELSE t),
         Commit(t, RestoreFails(w, t)),
         Moves(t, task[t].pc, coord[ses.n].queue, "set", Append(w.c.queue, t))
  PROVE  AgreeInv' /\ TurnsReady
<1> DEFINE u == [BeginOperation(w, t) EXCEPT !.k.acct = Failing]
<1>1. Commit(t, FailClosed(u, t))
  BY DEF RestoreFails, IsCurrent
<1>2. Again(w, u, t)
  BY NewestFacts, AgainFields
<1> HIDE DEF u
<1> QED
  BY <1>1, <1>2, NewestFailsAgain

\* What the newest task has while it restores the default.
LEMMA NewestRestoring ==
  ASSUME ActivationInv, AgreeInv, ses.phase = "up", NEW t, t = Latest,
         task[t].pc \in {"clear", "restore"}
  PROVE  LET w == World(t) IN
         /\ w.c.offer = Unset /\ w.k.mode = "account" /\ w.k.acct = w.s.sel /\ ~w.s.bad
         /\ w.s.sel = Default
         /\ task[t].pc = "restore" => refused \/ key = DefaultLogin
<1> DEFINE w == World(t)
           pc == task[t].pc
<1>1. Agreed(w, t, key, refused, Blamed) /\ w.k.pc = pc
  BY NewestFacts
<1> HIDE DEF w, pc
<1>2. ASSUME pc \in {"clear", "restore"}
      PROVE  /\ w.c.offer = Unset /\ w.k.mode = "account" /\ w.k.acct = w.s.sel /\ ~w.s.bad
             /\ w.s.sel = Default
             /\ pc = "restore" => refused \/ key = DefaultLogin
  <2>1. w.c.offer = Unset
    BY <1>1, <1>2 DEF Agreed, Concludes
  <2>2. w.k.mode = "account" /\ w.k.acct = w.s.sel /\ ~w.s.bad /\ w.s.sel = Default
    BY <1>1, <1>2 DEF Agreed, Selected
  <2>3. pc = "restore" => refused \/ key = DefaultLogin
    BY <1>1 DEF Agreed, Applying
  <2> QED
    BY <2>1, <2>2, <2>3
<1> QED
  BY <1>2 DEF w, pc

LEMMA NewestClear ==
  ASSUME ActivationInv, CountersInv, AgreeInv, ses.phase = "up",
         NEW t, t = Latest, Frame(t), Clear(t)
  PROVE  AgreeInv' /\ TurnsReady
<1> DEFINE w == World(t)
           d == Dequeue(w)
           c == Cleared(w)
           m == At(c, "restore")
<1>1. /\ w \in Worlds /\ w.s = ses /\ w.k = task[t] /\ w.c = coord[ses.n] /\ t \in DOMAIN task
      /\ w.c.set \in {Unset, key} /\ (Aborted(w, t) => Blamed)
      /\ t \in Nat /\ w.c.gen = t /\ w.c.rgen = (IF w.s.bad THEN 0 ELSE t) /\ w.c.cgen \in {0, t}
  BY NewestFacts
<1>2. task[t].pc = "clear" /\ store' = store /\ IsNext(t)
  BY DEF Clear
<1>3. coord[ses.n].queue # <<>> /\ Head(coord[ses.n].queue) = t
  BY <1>2, NewestIsNext
<1>4. /\ w.c.offer = Unset /\ w.k.mode = "account" /\ w.k.acct = w.s.sel /\ ~w.s.bad
      /\ w.s.sel = Default
  BY <1>2, NewestRestoring
<1>5. \/ /\ Fault /\ key' = key /\ Commit(t, RestoreFails(d, t))
      \/ /\ key' = (IF w.c.may THEN DefaultLogin ELSE key)
         /\ Aborted(w, t) /\ Commit(t, RestoreFails(c, t))
      \/ /\ key' = (IF w.c.may THEN DefaultLogin ELSE key)
         /\ Commit(t, m)
  BY DEF Clear
<1>6. Fault \/ Aborted(w, t) => BlamedNow
  BY <1>1, <1>2, FaultIsBlamed, StillBlamed DEF Frame
<1>7. ~refused /\ key # DefaultLogin => w.c.may
  BY <1>1 DEF ActivationInv, KeyIsRemovable
<1> HIDE DEF w
<1>8. CASE Fault /\ key' = key /\ Commit(t, RestoreFails(d, t))
  <2>1. /\ d \in Worlds /\ d.k = w.k /\ d.conf = w.conf /\ d.s = w.s
        /\ SameMarks(w.c, d.c) /\ SameOffers(w.c, d.c) /\ d.c.queue = Tail(w.c.queue)
    BY <1>1, <1>3, DequeueKeeps
  <2> HIDE DEF d
  <2>2. /\ d.c.gen = t /\ d.c.rgen = (IF d.s.bad THEN 0 ELSE t)
        /\ d.c.set \in {Unset, key'} /\ d.s = ses /\ d.k = task[t]
    BY <1>1, <1>8, <2>1 DEF SameMarks
  <2>3. Moves(t, task[t].pc, coord[ses.n].queue, "set", Append(d.c.queue, t))
    BY <1>1, <1>2, <1>3, <2>1 DEF Moves, Enqueued
  <2> QED
    BY <1>6, <1>8, <2>1, <2>2, <2>3, NewestRestoreFails
<1>9. /\ c \in Worlds /\ c.k = w.k /\ c.conf = w.conf /\ c.s = w.s
      /\ c.c.gen = w.c.gen /\ c.c.cgen = w.c.cgen /\ c.c.rgen = w.c.rgen
      /\ c.c.set = (IF w.c.may THEN Unset ELSE w.c.set)
      /\ SameOffers(w.c, c.c) /\ c.c.queue = Tail(w.c.queue)
  BY <1>1, <1>3, ClearedFields
<1> HIDE DEF c
<1>10. CASE /\ key' = (IF w.c.may THEN DefaultLogin ELSE key)
            /\ Aborted(w, t) /\ Commit(t, RestoreFails(c, t))
  <2>1. /\ c.c.gen = t /\ c.c.rgen = (IF c.s.bad THEN 0 ELSE t)
        /\ c.c.set \in {Unset, key'} /\ c.s = ses /\ c.k = task[t]
    BY <1>1, <1>9, <1>10
  <2>2. Moves(t, task[t].pc, coord[ses.n].queue, "set", Append(c.c.queue, t))
    BY <1>1, <1>2, <1>3, <1>9 DEF Moves, Enqueued
  <2> QED
    BY <1>6, <1>9, <1>10, <2>1, <2>2, NewestRestoreFails
<1>11. CASE /\ key' = (IF w.c.may THEN DefaultLogin ELSE key)
            /\ Commit(t, m)
  <2>1. /\ m \in Worlds /\ m.c = c.c /\ m.conf = c.conf /\ m.s = c.s
        /\ m.k.pc = "restore" /\ SameTask(c.k, m.k)
    BY <1>9, AtFields DEF Waiting
  <2> HIDE DEF m
  <2>2. Generations(m, t) /\ Concludes(m, key', refused, BlamedNow)
    BY <1>1, <1>4, <1>9, <2>1 DEF Generations, Concludes, SameOffers
  <2>3. Selected(m, BlamedNow)
    BY <1>4, <1>9, <2>1 DEF Selected, SameTask
  <2>4. Applying(m, key', refused)
    BY <1>7, <1>11, <2>1 DEF Applying
  <2>5. Agreed(m, t, key', refused, BlamedNow)
    BY <2>2, <2>3, <2>4 DEF Agreed
  <2>6. Moves(t, task[t].pc, coord[ses.n].queue, m.k.pc, m.c.queue)
    BY <1>1, <1>2, <1>3, <1>9, <2>1 DEF Moves, Enqueued
  <2>7. /\ m.k.own = task[t].own /\ m.k.aborted = task[t].aborted /\ m.s = ses
        /\ m.c.set \in {Unset, key'}
    BY <1>1, <1>9, <1>11, <2>1 DEF SameTask
  <2> QED
    BY <1>11, <2>1, <2>5, <2>6, <2>7, NewestGoes
<1> QED
  BY <1>5, <1>8, <1>10, <1>11

LEMMA NewestRestore ==
  ASSUME ActivationInv, CountersInv, AgreeInv, ses.phase = "up",
         NEW t, t = Latest, Frame(t), Restore(t)
  PROVE  AgreeInv' /\ TurnsReady
<1> DEFINE w == World(t)
           u == RemoveOverlay(w)
<1>1. /\ w \in Worlds /\ w.s = ses /\ w.k = task[t] /\ w.c = coord[ses.n] /\ t \in DOMAIN task
      /\ w.c.set \in {Unset, key} /\ (Aborted(w, t) => Blamed) /\ w.conf = conf
      /\ t \in Nat /\ w.c.gen = t /\ w.c.rgen = (IF w.s.bad THEN 0 ELSE t) /\ w.c.cgen \in {0, t}
      /\ IsCurrent(w, t)
  BY NewestFacts
<1>2. task[t].pc = "restore" /\ UNCHANGED <<store, key>>
  BY DEF Restore, Step
<1>3. /\ w.c.offer = Unset /\ w.k.mode = "account" /\ w.k.acct = w.s.sel /\ ~w.s.bad
      /\ w.s.sel = Default /\ (refused \/ key = DefaultLogin)
  BY <1>2, NewestRestoring
<1>4. \/ (Fault \/ Aborted(w, t)) /\ Commit(t, RestoreFails(w, t))
      \/ Commit(t, Settle(u, t, Inactive))
  BY <1>1 DEF Restore
<1>5. Fault \/ Aborted(w, t) => BlamedNow
  BY <1>1, <1>2, FaultIsBlamed, StillBlamed DEF Frame
<1>6. ~refused => (IF w.c.owned THEN w.c.previous ELSE w.conf) = DefaultLogin
  BY <1>1 DEF ActivationInv, OverlayIsRemovable, Live
<1>7. /\ Moves(t, task[t].pc, coord[ses.n].queue, "set", Append(w.c.queue, t))
      /\ \A x \in {"conns", "done"} : Moves(t, task[t].pc, coord[ses.n].queue, x, w.c.queue)
  BY <1>1, <1>2 DEF Moves, Enqueued, Early
<1> HIDE DEF w
<1>8. CASE (Fault \/ Aborted(w, t)) /\ Commit(t, RestoreFails(w, t))
  BY <1>1, <1>2, <1>5, <1>7, <1>8, NewestRestoreFails
<1>9. CASE Commit(t, Settle(u, t, Inactive))
  <2>1. /\ u \in Worlds /\ u.k = w.k /\ u.s = w.s
        /\ u.conf = (IF w.c.owned THEN w.c.previous ELSE w.conf)
        /\ SameMarks(w.c, u.c) /\ SameOffers(w.c, u.c) /\ u.c.queue = w.c.queue
    BY <1>1, RemoveOverlayFields
  <2> HIDE DEF u
  <2>2. /\ u.c.gen = t /\ u.c.cgen \in {0, t} /\ u.c.rgen = (IF u.s.bad THEN 0 ELSE t)
        /\ u.c.set \in {Unset, key'} /\ u.c.offer = Unset
    BY <1>1, <1>2, <1>3, <2>1 DEF SameMarks, SameOffers
  <2>3. Inactive \in Result /\ Inactive.status # "active"
    BY Values DEF Inactive
  <2>4. Concluded(Inactive, u.s, key', u.conf, refused, BlamedNow)
    BY <1>2, <1>3, <1>6, <2>1 DEF Concluded
  <2>5. /\ u.s = ses /\ u.k.own = task[t].own /\ (u.k.aborted => task[t].aborted)
        /\ u.k.mode = "account" /\ u.k.acct = u.s.sel /\ ~u.s.bad
    BY <1>1, <1>3, <2>1
  <2>6. \A x \in {"conns", "done"} : Moves(t, task[t].pc, coord[ses.n].queue, x, u.c.queue)
    BY <1>7, <2>1
  <2> HIDE DEF Inactive
  <2> QED
    BY <1>9, <2>1, <2>2, <2>3, <2>4, <2>5, <2>6, NewestSettles
<1> QED
  BY <1>4, <1>8, <1>9

LEMMA NewestInvalidates ==
  ASSUME ActivationInv, CountersInv, AgreeInv, ses.phase = "up",
         NEW t, t = Latest, Frame(t), InvalidateConnections(t)
  PROVE  AgreeInv' /\ TurnsReady
<1> DEFINE w == World(t)
           r == w.k.res
           id == Identity(w, r)
           x == [w EXCEPT !.s.ident = id]
           v == Publish(x, t, r)
           m == At(w, "credential")
<1>1. /\ w \in Worlds /\ w.s = ses /\ w.k = task[t] /\ w.c = coord[ses.n] /\ t \in DOMAIN task
      /\ w.c.set \in {Unset, key} /\ ~Superseded(w, t)
      /\ t \in Nat /\ w.c.gen = t /\ w.c.rgen = (IF w.s.bad THEN 0 ELSE t) /\ w.c.cgen \in {0, t}
      /\ Agreed(w, t, key, refused, Blamed) /\ task \in Seq(Task)
  BY NewestFacts DEF ActivationInv
<1>2. task[t].pc = "conns" /\ UNCHANGED <<store, key>>
  BY DEF InvalidateConnections, Step
<1>3. Commit(t, v) \/ (Fault /\ Commit(t, m))
  BY <1>1 DEF InvalidateConnections
<1>4. Blamed => BlamedNow
  BY <1>2, StillBlamed DEF Frame
<1>5. /\ Concluded(r, w.s, key', w.conf, refused, BlamedNow)
      /\ r.status = "active" => w.c.pending = key'
      /\ w.c.offer = Unset
  <2>1. /\ Concluded(r, w.s, key, w.conf, refused, Blamed)
        /\ r.status = "active" => w.c.pending = key
        /\ w.c.offer = Unset
    BY <1>1, <1>2 DEF Agreed, Concludes
  <2> QED
    BY <1>2, <1>4, <2>1 DEF Concluded
<1>6. r \in Result /\ id \in Login
  BY <1>1, Fields, IdentityIsLogin
<1> HIDE DEF w, id
<1>7. CASE Commit(t, v)
  <2>1. /\ x \in Worlds /\ x.c = w.c /\ x.k = w.k /\ x.conf = w.conf
        /\ SameSelection(w.s, x.s) /\ x.s.run = w.s.run
    BY <1>1, <1>6, SessionFields
  <2> HIDE DEF x, r
  <2>2. /\ v \in Worlds /\ v.conf = x.conf
        /\ SameMarks(x.c, v.c) /\ v.c.queue = x.c.queue
        /\ v.c.offer = (IF r.status = "active" THEN x.c.pending ELSE Unset)
        /\ v.k.pc = "done" /\ v.k.own = x.k.own /\ ~v.k.aborted /\ v.k.res = r
        /\ v.k.mode = "account"
        /\ SameSelection(x.s, v.s) /\ v.s.res = r /\ Turned(x.s, v.s, v.k, t)
    BY <1>1, <1>6, <2>1, PublishFields DEF IsCurrent
  <2> HIDE DEF v
  <2>3. SameSelection(w.s, v.s) /\ Turned(w.s, v.s, v.k, t) /\ SameMarks(w.c, v.c)
    BY <2>1, <2>2 DEF SameSelection, Turned
  <2>4. Generations(v, t)
    BY <1>1, <2>2, <2>3 DEF Generations, SameMarks, SameSelection
  <2>5. Selected(v, BlamedNow) /\ Applying(v, key', refused)
    BY <2>2 DEF Selected, Applying
  <2>6. Concludes(v, key', refused, BlamedNow)
    <3>1. Concluded(r, v.s, key', v.conf, refused, BlamedNow)
      BY <1>5, <2>1, <2>2, <2>3 DEF Concluded, SameSelection
    <3> QED
      BY <1>5, <2>1, <2>2, <3>1 DEF Concludes
  <2>7. Agreed(v, t, key', refused, BlamedNow)
    BY <2>4, <2>5, <2>6 DEF Agreed
  <2>8. Proceeds(w, v, t)
    BY <2>1, <2>2, <2>3 DEF Proceeds, SameMarks
  <2>9. Moves(t, task[t].pc, coord[ses.n].queue, v.k.pc, v.c.queue)
    BY <1>1, <1>2, <2>1, <2>2 DEF Moves, Enqueued, Early
  <2> QED
    BY <1>1, <1>2, <1>7, <2>2, <2>7, <2>8, <2>9, NewestProceeds
<1>8. CASE Fault /\ Commit(t, m)
  <2>1. /\ m \in Worlds /\ m.c = w.c /\ m.conf = w.conf /\ m.s = w.s
        /\ m.k.pc = "credential" /\ SameTask(w.k, m.k)
    BY <1>1, AtFields DEF Waiting
  <2> HIDE DEF m
  <2>2. BlamedNow
    BY <1>8, FaultIsBlamed
  <2>3. Generations(m, t) /\ Concludes(m, key', refused, BlamedNow) /\ Applying(m, key', refused)
    BY <1>1, <1>5, <2>1 DEF Generations, Concludes, Applying
  <2>4. Selected(m, BlamedNow)
    <3>1. w.k.mode = "account" => w.k.acct = w.s.sel /\ ~w.s.bad
      BY <1>1, <1>2 DEF Agreed, Selected
    <3> QED
      BY <2>1, <2>2, <3>1 DEF Selected, SameTask
  <2>5. Agreed(m, t, key', refused, BlamedNow)
    BY <2>3, <2>4 DEF Agreed
  <2>6. Moves(t, task[t].pc, coord[ses.n].queue, m.k.pc, m.c.queue)
    BY <1>1, <1>2, <2>1 DEF Moves, Enqueued, Early
  <2>7. m.k.own = task[t].own /\ m.k.aborted = task[t].aborted /\ m.s = ses
    BY <1>1, <2>1 DEF SameTask
  <2> QED
    BY <1>1, <1>2, <1>8, <2>1, <2>5, <2>6, <2>7, NewestGoes
<1> QED
  BY <1>3, <1>7, <1>8

LEMMA NewestCredential ==
  ASSUME ActivationInv, CountersInv, AgreeInv, ses.phase = "up",
         NEW t, t = Latest, Frame(t), SelectedCredential(t)
  PROVE  AgreeInv' /\ TurnsReady
<1> DEFINE w == World(t)
           u == [BeginOperation(w, t) EXCEPT !.k.mode = "forced"]
<1>1. /\ w \in Worlds /\ w.s = ses /\ w.k = task[t] /\ w.c = coord[ses.n] /\ t \in DOMAIN task
      /\ w.c.set \in {Unset, key} /\ ~Superseded(w, t)
      /\ t \in Nat /\ w.c.gen = t /\ w.c.rgen = (IF w.s.bad THEN 0 ELSE t)
      /\ Agreed(w, t, key, refused, Blamed)
  BY NewestFacts
<1>2. task[t].pc = "credential" /\ UNCHANGED <<store, key>>
  BY DEF SelectedCredential, Step
<1>3. Commit(t, FailClosed(u, t))
  BY <1>1 DEF SelectedCredential
<1>4. BlamedNow
  <2>1. Blamed
    BY <1>1, <1>2 DEF Agreed, Selected
  <2> QED
    BY <1>2, <2>1, StillBlamed DEF Frame
<1>5. Moves(t, task[t].pc, coord[ses.n].queue, "set", Append(w.c.queue, t))
  BY <1>1, <1>2 DEF Moves, Enqueued, Early
<1> HIDE DEF w
<1>6. Again(w, u, t)
  BY <1>1, AgainFields
<1> HIDE DEF u
<1> QED
  BY <1>1, <1>2, <1>3, <1>4, <1>5, <1>6, NewestFailsAgain

LEMMA NewestStep ==
  ASSUME ActivationInv, StoreInv, CountersInv, AgreeInv, ses.phase = "up",
         NEW t, t = Latest, TaskStep(t)
  PROVE  AgreeInv' /\ TurnsReady
<1>1. Frame(t)
  BY NewestFacts, TaskStepFrame
<1> QED
  BY <1>1, NewestRead, NewestRefreshes, NewestRecheck, NewestToAuth, NewestSetBegins,
     NewestSetEnds, NewestSetFails, NewestMatch, NewestCatalog, NewestVerifies, NewestClear,
     NewestRestore, NewestInvalidates, NewestCredential
  DEF TaskStep

-----------------------------------------------------------------------------
(* The steps of the others: they end, or go on to what will end them. *)

\* What the step of another task may have made of its world before it ends.
Leaves(u, t) ==
    LET c == coord[task[t].own] IN
    /\ u \in Worlds /\ u.k.own = task[t].own /\ (u.k.aborted => task[t].aborted)
    /\ u.s = ses /\ u.conf = conf
    /\ u.c.gen = c.gen /\ u.c.cgen = c.cgen /\ u.c.rgen = c.rgen /\ SameOffers(c, u.c)
    /\ \/ u.c.queue = c.queue
       \/ u.c.queue = Append(c.queue, t)
       \/ c.queue # <<>> /\ Head(c.queue) = t /\ u.c.queue = Tail(c.queue)
    /\ \/ key' = key /\ u.c.set = c.set
       \/ task[t].pc \in {"clear", "setting"} /\ u.c.set \in {Unset, key'}

LEMMA BystanderEnds ==
  ASSUME ActivationInv, AgreeInv, NEW t, Bystander(t), Frame(t), store' = store \/ upsets' > 0,
         NEW u, Leaves(u, t), NEW r \in Result, Commit(t, End(u, t, r))
  PROVE  AgreeInv' /\ TurnsReady
<1> DEFINE v == End(u, t, r)
           c == coord[task[t].own]
<1>1. t \in DOMAIN task /\ task \in Seq(Task)
  BY DEF Bystander, ActivationInv
<1>2. /\ u \in Worlds /\ u.k.own = task[t].own
      /\ u.s = ses /\ u.conf = conf
      /\ u.c.gen = c.gen /\ u.c.cgen = c.cgen /\ u.c.rgen = c.rgen /\ SameOffers(c, u.c)
      /\ \/ u.c.queue = c.queue
         \/ u.c.queue = Append(c.queue, t)
         \/ c.queue # <<>> /\ Head(c.queue) = t /\ u.c.queue = Tail(c.queue)
      /\ \/ key' = key /\ u.c.set = c.set
         \/ task[t].pc \in {"clear", "setting"} /\ u.c.set \in {Unset, key'}
  BY DEF Leaves
<1>3. /\ v \in Worlds /\ v.c = u.c /\ v.conf = u.conf
      /\ v.k.pc = "done" /\ v.k.own = u.k.own /\ ~v.k.aborted /\ v.k.res = r
      /\ SameSelection(u.s, v.s) /\ v.s.res = u.s.res /\ Turned(u.s, v.s, v.k, t)
  BY <1>1, <1>2, EndFields
<1>4. Commit(t, v)
  OBVIOUS
<1> HIDE DEF v
<1>5. AgreeInv'
  <2>1. v.k.pc \notin {"clear", "setting", "refreshing"}
    BY <1>3
  <2>2. /\ v.c.gen = c.gen /\ v.c.cgen = c.cgen
        /\ v.c.rgen = c.rgen /\ SameOffers(c, v.c)
    BY <1>2, <1>3
  <2>3. \/ v.c.queue = c.queue
        \/ v.c.queue = Append(c.queue, t)
        \/ c.queue # <<>> /\ Head(c.queue) = t /\ v.c.queue = Tail(c.queue)
    BY <1>2, <1>3
  <2>4. \/ key' = key /\ v.c.set = c.set
        \/ task[t].pc \in {"clear", "setting"} /\ v.c.set \in {Unset, key'}
    BY <1>2, <1>3
  <2>5. /\ v.k.own = task[t].own /\ SameSelection(ses, v.s) /\ v.s.res = ses.res
        /\ v.conf = conf /\ ~v.k.aborted
    BY <1>2, <1>3
  <2>6. /\ refused' = refused /\ (store' = store \/ upsets' > 0) /\ (upsets > 0 => upsets' > 0)
        /\ (lock # t /\ lock # 0 => lock' = lock)
    BY DEF Frame
  <2> QED
    BY <1>3, <1>4, <2>1, <2>2, <2>3, <2>4, <2>5, <2>6, BystanderKeeps
<1>6. TurnsReady
  <2>1. /\ ses' = v.s /\ Latest' = Latest
        /\ \A p \in DOMAIN task : p # t => task'[p] = task[p]
    BY <1>1, <1>2, <1>3, <1>4, Committed
  <2>2. ses.phase = "up" => Latest \in DOMAIN task /\ Latest # t
    BY DEF Bystander, AgreeInv, NewestInv
  <2>3. ses.phase = "up" => Newest' = task[Latest]
    BY <2>1, <2>2 DEF Newest
  <2> QED
    BY <1>2, <1>3, <2>1, <2>2, <2>3 DEF Turned, TurnsReady, SameSelection
<1> QED
  BY <1>5, <1>6

LEMMA BystanderGoes ==
  ASSUME ActivationInv, AgreeInv, NEW t, Bystander(t), Frame(t), store' = store \/ upsets' > 0,
         NEW v, Leaves(v, t), v.k.pc \notin {"clear", "setting", "refreshing"}, Commit(t, v)
  PROVE  AgreeInv' /\ TurnsReady
<1> DEFINE c == coord[task[t].own]
<1>1. /\ v \in Worlds /\ v.k.own = task[t].own /\ (v.k.aborted => task[t].aborted)
      /\ v.s = ses /\ v.conf = conf
      /\ v.c.gen = c.gen /\ v.c.cgen = c.cgen /\ v.c.rgen = c.rgen /\ SameOffers(c, v.c)
      /\ \/ v.c.queue = c.queue
         \/ v.c.queue = Append(c.queue, t)
         \/ c.queue # <<>> /\ Head(c.queue) = t /\ v.c.queue = Tail(c.queue)
      /\ \/ key' = key /\ v.c.set = c.set
         \/ task[t].pc \in {"clear", "setting"} /\ v.c.set \in {Unset, key'}
  BY DEF Leaves
<1>2. SameSelection(ses, v.s) /\ v.s.res = ses.res
  BY <1>1 DEF SameSelection
<1>3. /\ refused' = refused /\ (store' = store \/ upsets' > 0) /\ (upsets > 0 => upsets' > 0)
      /\ (lock # t /\ lock # 0 => lock' = lock)
  BY DEF Frame
<1>4. AgreeInv'
  BY <1>1, <1>2, <1>3, BystanderKeeps
<1>5. ses' = ses
  BY <1>1 DEF Commit
<1> QED
  BY <1>4, <1>5 DEF TurnsReady

\* The operators of a task all end it, if it is not the newest of its session.
LEMMA LeavesIsStale ==
  ASSUME ActivationInv, AgreeInv, NEW t, Bystander(t), NEW u, Leaves(u, t)
  PROVE  /\ FailClosed(u, t) = End(u, t, Inactive) /\ Retry(u, t) = End(u, t, Inactive)
         /\ RestoreFails(u, t) = End(u, t, Inactive) /\ NotApplied(u, t) = End(u, t, Inactive)
         /\ \A r : Settle(u, t, r) = End(u, t, Inactive)
         /\ ~IsCurrent(u, t) /\ Superseded(u, t)
<1> DEFINE c == coord[task[t].own]
<1>1. u.k.own = task[t].own /\ u.s = ses /\ u.c.gen = c.gen
  BY DEF Leaves
<1>2. c.gen # t /\ Superseded(World(t), t)
  BY BystanderIsStale
<1>3. World(t).k = task[t] /\ World(t).s = ses
  BY WorldFacts DEF Bystander
<1>4. ~IsCurrent(u, t) /\ Superseded(u, t)
  BY <1>1, <1>2, <1>3 DEF IsCurrent, Superseded, IsOwnerCurrent
<1> QED
  BY <1>4, SupersededSettles

\* One of them is called.
LEMMA BystanderStops ==
  ASSUME ActivationInv, AgreeInv, NEW t, Bystander(t), Frame(t), store' = store \/ upsets' > 0,
         NEW u, Leaves(u, t),
         \/ Commit(t, FailClosed(u, t)) \/ Commit(t, Retry(u, t))
         \/ Commit(t, RestoreFails(u, t)) \/ Commit(t, NotApplied(u, t))
         \/ (\E r : Commit(t, Settle(u, t, r))) \/ Commit(t, End(u, t, Inactive))
  PROVE  AgreeInv' /\ TurnsReady
<1>1. Commit(t, End(u, t, Inactive))
  BY LeavesIsStale
<1>2. Inactive \in Result
  BY Values
<1> QED
  BY <1>1, <1>2, BystanderEnds

LEMMA BystanderFacts ==
  ASSUME ActivationInv, AgreeInv, NEW t, Bystander(t)
  PROVE  LET w == World(t) IN
         /\ t \in DOMAIN task /\ t \in Nat /\ w \in Worlds /\ w.k = task[t]
         /\ w.c = coord[task[t].own] /\ w.c.cgen # t
         /\ Aborted(w, t) /\ ~IsCurrent(w, t) /\ Superseded(w, t)
         /\ key' = key => Leaves(w, t)
<1> DEFINE w == World(t)
<1>1. /\ t \in DOMAIN task /\ t \in Nat /\ w \in Worlds /\ w.k = task[t]
      /\ w.c = coord[task[t].own] /\ w.s = ses /\ w.conf = conf
  BY WorldFacts DEF Bystander
<1>2. w.c.cgen # t /\ Aborted(w, t) /\ ~IsCurrent(w, t) /\ Superseded(w, t)
  BY <1>1, BystanderIsStale
<1> HIDE DEF w
<1>3. key' = key => Leaves(w, t)
  BY <1>1 DEF Leaves, SameOffers
<1> QED
  BY <1>1, <1>2, <1>3 DEF w

\* The task goes on to pc.
LEMMA BystanderMoves ==
  ASSUME ActivationInv, AgreeInv, NEW t, Bystander(t), Frame(t),
         key' = key, store' = store \/ upsets' > 0,
         NEW pc \in {"auth", "recheck"}, NEW v, Goes(World(t), v, pc), Commit(t, v)
  PROVE  AgreeInv' /\ TurnsReady
<1> DEFINE w == World(t)
<1>1. w \in Worlds /\ w.k = task[t] /\ Leaves(w, t)
  BY BystanderFacts
<1>2. Goes(w, v, pc)
  OBVIOUS
<1> HIDE DEF w
<1>3. Leaves(v, t) /\ v.k.pc = pc
  BY <1>1, <1>2 DEF Goes, Leaves, SameTask
<1> QED
  BY <1>3, BystanderGoes

LEMMA BystanderReads ==
  ASSUME ActivationInv, StoreInv, AgreeInv, NEW t, Bystander(t), Frame(t),
         \/ Read(t) \/ LockStore(t) \/ Refreshed(t) \/ RefreshFails(t) \/ Recheck(t)
         \/ RefreshCatalog(t) \/ VerifyOverlay(t)
  PROVE  AgreeInv' /\ TurnsReady
<1> DEFINE w == World(t)
<1>1. /\ t \in DOMAIN task /\ w \in Worlds /\ Aborted(w, t) /\ (key' = key => Leaves(w, t))
  BY BystanderFacts
<1>2. UNCHANGED <<store, key>> /\ Commit(t, FailClosed(w, t)) => AgreeInv' /\ TurnsReady
  BY <1>1, BystanderStops
<1>3. UNCHANGED <<store, key>> /\ Commit(t, Retry(w, t)) => AgreeInv' /\ TurnsReady
  BY <1>1, BystanderStops
<1>4. \A v : /\ key' = key /\ (store' = store \/ upsets' > 0)
            /\ Commit(t, v) /\ (Goes(w, v, "auth") \/ Goes(w, v, "recheck"))
        => AgreeInv' /\ TurnsReady
  BY BystanderMoves
<1>5. CASE Read(t) \/ RefreshCatalog(t) \/ VerifyOverlay(t) \/ Recheck(t)
  <2>1. UNCHANGED <<store, key>>
    BY <1>5 DEF Read, RefreshCatalog, VerifyOverlay, Recheck, Step
  <2>2. Commit(t, FailClosed(w, t)) \/ Commit(t, Retry(w, t))
    BY <1>1, <1>5 DEF Read, RefreshCatalog, VerifyOverlay, Recheck
  <2> QED
    BY <1>2, <1>3, <2>1, <2>2
<1>6. CASE LockStore(t)
  <2>1. /\ UNCHANGED <<key, store>>
        /\ \/ Stored(t) = 0 /\ Commit(t, FailClosed(w, t))
           \/ \E v : Commit(t, v) /\ Goes(w, v, "auth")
           \/ (Fault \/ Aborted(w, t)) /\ \E v : Commit(t, v) /\ Goes(w, v, "recheck")
           \/ ~Aborted(w, t) /\ lock' = t /\ \E v : Commit(t, v) /\ Goes(w, v, "refreshing")
    BY <1>1, <1>6, LockStoreMoves
  <2> HIDE DEF w
  <2> QED
    BY <1>1, <1>2, <1>4, <2>1
<1>7. CASE Refreshed(t) \/ RefreshFails(t)
  <2>1. /\ task[t].pc = "refreshing" /\ key' = key
        /\ \/ ~Aborted(w, t) /\ \E v : Commit(t, v) /\ Goes(w, v, "auth")
           \/ /\ Fault \/ Aborted(w, t) \/ lock # t
              /\ store' = store \/ lock # t
              /\ \E v : Commit(t, v) /\ Goes(w, v, "recheck")
    BY <1>1, <1>7, RefreshMoves
  <2>2. lock # t => upsets' > 0
    BY <1>1, <2>1 DEF AgreeInv, TroubleInv, Frame
  <2> HIDE DEF w
  <2> QED
    BY <1>1, <1>4, <2>1, <2>2
<1> QED
  BY <1>5, <1>6, <1>7

LEMMA BystanderApplies ==
  ASSUME ActivationInv, AgreeInv, NEW t, Bystander(t), Frame(t), ToAuth(t) \/ Match(t)
  PROVE  AgreeInv' /\ TurnsReady
<1> DEFINE w == World(t)
           a == At(w, "set")
           e == Enqueue(a, t)
           u == [e EXCEPT !.k.force = TRUE]
<1>1. /\ t \in DOMAIN task /\ t \in Nat /\ w \in Worlds /\ w.k = task[t] /\ Aborted(w, t)
      /\ w.c = coord[task[t].own] /\ (key' = key => Leaves(w, t))
  BY BystanderFacts
<1>2. UNCHANGED <<store, key>>
  BY DEF ToAuth, Match, Step
<1>3. \/ Commit(t, Retry(w, t)) \/ Commit(t, FailClosed(w, t)) \/ Commit(t, NotApplied(w, t))
      \/ \E r : Commit(t, Settle(w, t, r))
      \/ Commit(t, At(w, "recheck"))
      \/ Commit(t, u)
  BY <1>1 DEF ToAuth, Match
<1>4. CASE \/ Commit(t, Retry(w, t)) \/ Commit(t, FailClosed(w, t)) \/ Commit(t, NotApplied(w, t))
           \/ \E r : Commit(t, Settle(w, t, r))
  BY <1>1, <1>2, <1>4, BystanderStops
<1>5. CASE Commit(t, At(w, "recheck"))
  <2>1. Goes(w, At(w, "recheck"), "recheck")
    BY <1>1, GoesFields DEF Waiting
  <2> QED
    BY <1>2, <1>5, <2>1, BystanderMoves
<1>6. CASE Commit(t, u)
  <2>1. Leaves(w, t)
    BY <1>1, <1>2
  <2> HIDE DEF w
  <2>2. /\ a \in Worlds /\ a.c = w.c /\ a.conf = w.conf /\ a.s = w.s
        /\ a.k.pc = "set" /\ SameTask(w.k, a.k)
    BY <1>1, AtFields DEF Waiting
  <2> HIDE DEF a
  <2>3. /\ e \in Worlds /\ e.k = a.k /\ e.conf = a.conf /\ e.s = a.s
        /\ SameMarks(a.c, e.c) /\ SameOffers(a.c, e.c) /\ e.c.queue = Append(a.c.queue, t)
    BY <1>1, <2>2, EnqueueKeeps
  <2> HIDE DEF e
  <2>4. Aside(e, u)
    BY <2>3, AsideFields
  <2> HIDE DEF u
  <2>5. u.k.pc = "set" /\ Leaves(u, t)
    <3>1. u \in Worlds /\ u.k.pc = "set" /\ u.s = w.s /\ u.conf = w.conf
      BY <2>2, <2>3, <2>4 DEF Aside
    <3>2. u.k.own = w.k.own /\ u.k.aborted = w.k.aborted
      BY <2>2, <2>3, <2>4 DEF Aside, SameTask
    <3>3. /\ u.c.gen = w.c.gen /\ u.c.cgen = w.c.cgen /\ u.c.rgen = w.c.rgen /\ u.c.set = w.c.set
          /\ SameOffers(w.c, u.c) /\ u.c.queue = Append(w.c.queue, t)
      BY <2>2, <2>3, <2>4 DEF Aside, SameMarks, SameOffers
    <3> QED
      BY <1>1, <1>2, <2>1, <3>1, <3>2, <3>3 DEF Leaves
  <2> QED
    BY <1>2, <1>6, <2>5, BystanderGoes
<1> QED
  BY <1>3, <1>4, <1>5, <1>6

\* Its turn in the queue has come.
LEMMA BystanderIsFirst ==
  ASSUME ActivationInv, AgreeInv, NEW t, Bystander(t), IsNext(t)
  PROVE  LET w == World(t)
             d == Dequeue(w)
             c == Cleared(w) IN
         /\ key' = key => Leaves(d, t)
         /\ task[t].pc = "clear" /\ key' = (IF w.c.may THEN DefaultLogin ELSE key) => Leaves(c, t)
         /\ task[t].pc = "setting" /\ key' = task[t].key
              => Leaves([d EXCEPT !.c.set = task[t].key], t)
<1> DEFINE w == World(t)
           d == Dequeue(w)
           c == Cleared(w)
           l == task[t].key
           u == [d EXCEPT !.c.set = l]
<1>1. /\ t \in DOMAIN task /\ w \in Worlds /\ w.k = task[t]
      /\ w.c = coord[task[t].own] /\ w.s = ses /\ w.conf = conf
  BY BystanderFacts, WorldFacts
<1>2. w.c.queue # <<>> /\ Head(w.c.queue) = t
  BY <1>1 DEF IsNext
<1>3. l \in Login
  BY <1>1, Fields
<1> HIDE DEF w, l
<1>4. /\ d \in Worlds /\ d.k = w.k /\ d.conf = w.conf /\ d.s = w.s
      /\ SameMarks(w.c, d.c) /\ SameOffers(w.c, d.c) /\ d.c.queue = Tail(w.c.queue)
  BY <1>1, <1>2, DequeueKeeps
<1>5. /\ c \in Worlds /\ c.k = w.k /\ c.conf = w.conf /\ c.s = w.s
      /\ c.c.gen = w.c.gen /\ c.c.cgen = w.c.cgen /\ c.c.rgen = w.c.rgen
      /\ c.c.set = (IF w.c.may THEN Unset ELSE w.c.set)
      /\ SameOffers(w.c, c.c) /\ c.c.queue = Tail(w.c.queue)
  BY <1>1, <1>2, ClearedFields
<1> HIDE DEF d, c
<1>6. /\ u \in Worlds /\ u.k = d.k /\ u.conf = d.conf /\ u.s = d.s
      /\ u.c.gen = d.c.gen /\ u.c.cgen = d.c.cgen /\ u.c.rgen = d.c.rgen /\ u.c.set = l
      /\ SameOffers(d.c, u.c) /\ u.c.queue = d.c.queue
  BY <1>3, <1>4, AppliedFields
<1> HIDE DEF u
<1>7. key' = key => Leaves(d, t)
  BY <1>1, <1>2, <1>4 DEF Leaves, SameMarks
<1>8. task[t].pc = "clear" /\ key' = (IF w.c.may THEN DefaultLogin ELSE key) => Leaves(c, t)
  BY <1>1, <1>2, <1>5 DEF Leaves
<1>9. task[t].pc = "setting" /\ key' = l => Leaves(u, t)
  BY <1>1, <1>2, <1>4, <1>6 DEF Leaves, SameMarks, SameOffers
<1> QED
  BY <1>7, <1>8, <1>9 DEF w, d, c, u, l

LEMMA BystanderTurns ==
  ASSUME ActivationInv, AgreeInv, NEW t, Bystander(t), Frame(t),
         SetBegins(t) \/ SetEnds(t) \/ SetFails(t) \/ Clear(t)
  PROVE  AgreeInv' /\ TurnsReady
<1> DEFINE w == World(t)
           d == Dequeue(w)
           c == Cleared(w)
           l == task[t].key
           u == [d EXCEPT !.c.set = l]
<1>1. /\ t \in DOMAIN task /\ w \in Worlds /\ w.c.cgen # t /\ Aborted(w, t)
  BY BystanderFacts
<1>2. store' = store
  BY DEF SetBegins, SetEnds, SetFails, Clear, Step
<1>3. IsNext(t)
  BY <1>1, SetterIsNext DEF SetBegins, SetEnds, SetFails, Clear, Step
<1>4. /\ key' = key => Leaves(d, t)
      /\ task[t].pc = "clear" /\ key' = (IF w.c.may THEN DefaultLogin ELSE key) => Leaves(c, t)
      /\ task[t].pc = "setting" /\ key' = l => Leaves(u, t)
  BY <1>3, BystanderIsFirst
<1>5. CASE SetBegins(t)
  <2>1. key' = key /\ Commit(t, Settle(d, t, Inactive))
    BY <1>1, <1>5 DEF SetBegins, Step
  <2> QED
    BY <1>2, <1>4, <2>1, BystanderStops
<1>6. CASE SetEnds(t)
  <2>1. task[t].pc = "setting" /\ key' = l
    BY <1>6 DEF SetEnds
  <2>2. u.c.cgen # t
    <3>1. Leaves(u, t)
      BY <1>4, <2>1
    <3>2. w.c = coord[task[t].own]
      BY BystanderFacts
    <3> HIDE DEF u, w
    <3> QED
      BY <1>1, <3>1, <3>2 DEF Leaves
  <2>3. Commit(t, Settle(u, t, Inactive))
    BY <1>6, <2>2 DEF SetEnds
  <2> QED
    BY <1>2, <1>4, <2>1, <2>3, BystanderStops
<1>7. CASE SetFails(t)
  <2>1. key' = key /\ Commit(t, NotApplied(d, t))
    BY <1>7 DEF SetFails, Step
  <2> QED
    BY <1>2, <1>4, <2>1, BystanderStops
<1>8. CASE Clear(t)
  <2>1. /\ task[t].pc = "clear"
        /\ \/ key' = (IF w.c.may THEN DefaultLogin ELSE key) /\ Commit(t, RestoreFails(c, t))
           \/ key' = key /\ Commit(t, RestoreFails(d, t))
    BY <1>1, <1>8 DEF Clear
  <2> QED
    BY <1>2, <1>4, <2>1, BystanderStops
<1> QED
  BY <1>5, <1>6, <1>7, <1>8

LEMMA BystanderRests ==
  ASSUME ActivationInv, AgreeInv, NEW t, Bystander(t), Frame(t),
         Restore(t) \/ InvalidateConnections(t) \/ SelectedCredential(t)
  PROVE  AgreeInv' /\ TurnsReady
<1> DEFINE w == World(t)
<1>1. /\ ~IsCurrent(w, t) /\ Superseded(w, t) /\ (key' = key => Leaves(w, t))
  BY BystanderFacts
<1>2. UNCHANGED <<store, key>>
  BY DEF Restore, InvalidateConnections, SelectedCredential, Step
<1>3. \/ Commit(t, RestoreFails(w, t)) \/ Commit(t, Settle(w, t, Inactive))
      \/ Commit(t, End(w, t, Inactive))
  BY <1>1 DEF Restore, InvalidateConnections, SelectedCredential
<1> QED
  BY <1>1, <1>2, <1>3, BystanderStops

\* Every step of a task.
LEMMA TaskStepAgrees ==
  ASSUME ActivationInv, StoreInv, CountersInv, AgreeInv, NEW t \in DOMAIN task, TaskStep(t)
  PROVE  AgreeInv' /\ TurnsReady
<1>1. Frame(t)
  BY TaskStepFrame
<1>2. CASE ses.phase = "up" /\ t = Latest
  BY <1>2, NewestStep
<1>3. CASE Bystander(t)
  BY <1>1, <1>3, BystanderReads, BystanderApplies, BystanderTurns, BystanderRests DEF TaskStep
<1> QED
  BY <1>2, <1>3 DEF Bystander

-----------------------------------------------------------------------------
(* The calls of the session, and what is not a step of a task *)

LEMMA SyncAgrees ==
  ASSUME ActivationInv, AgreeInv, NEW s \in Session, s.n = ses.n, s.phase = "up",
         ses.phase \in {"init", "up"}, NEW menu \in BOOLEAN, SyncIn(s, menu),
         s.bad => coord[ses.n].rgen = 0, upsets > 0 => upsets' > 0
  PROVE  AgreeInv' /\ ses'.run = s.run
<1> DEFINE n == ses.n
           t == Len(task) + 1
           acct == IF s.bad THEN Failing ELSE s.sel
           k == NewTask(s.n, acct, menu)
           w == [c |-> coord[s.n], k |-> k, conf |-> conf, s |-> s]
           u == BeginOperation(w, t)
           b == IF s.bad THEN FailClosed(u, t) ELSE EnsureActive(w, t)
           before == Mine.queue
<1>1. n \in Nat /\ n # 0 /\ n \in DOMAIN coord /\ coord[n] \in Coordinator
      /\ t \in Nat /\ t # 0 /\ task \in Seq(Task) /\ Latest \in Nat /\ t = Latest + 1
  BY DEF ActivationInv, Shape, Session, Latest
<1>2. /\ w \in Worlds /\ w.c = coord[n] /\ w.k.own = n /\ w.conf = conf /\ w.s = s
      /\ w.k.mode = "account" /\ w.k.acct = acct /\ ~w.k.aborted
  <2>1. acct \in Selections \cup {Failing}
    BY DEF Session
  <2> HIDE DEF acct
  <2>2. k \in Task /\ k.own = n
    BY <1>1, <2>1, NewValues
  <2>3. k.mode = "account" /\ k.acct = acct /\ ~k.aborted
    BY DEF NewTask
  <2> HIDE DEF k
  <2> QED
    BY <1>1, <2>2, <2>3 DEF Worlds, ActivationInv
<1>3. /\ coord' = [coord EXCEPT ![n] = b.c] /\ task' = Append(task, b.k)
      /\ conf' = b.conf /\ ses' = b.s /\ UNCHANGED <<lock, key, refused>>
  BY DEF SyncIn
<1>4. Mine = coord[n] /\ before = w.c.queue
  BY <1>2 DEF Mine
<1> HIDE DEF w, t
<1>5. /\ ses'.bad => Blamed'
  BY DEF Blamed
<1>6. /\ Agreed(b, t, key, refused, Blamed') /\ b \in Worlds /\ b.s = s
      /\ b.k.own = n /\ ~b.k.aborted /\ b.c.set = w.c.set
      /\ \/ b.k.pc = "read" /\ b.c.queue = before
         \/ b.k.pc = "set" /\ b.c.queue = Append(before, t)
  <2>1. CASE s.bad
    <3>1. /\ u \in Worlds /\ u.k = w.k /\ u.s = w.s
          /\ u.c.gen = t /\ u.c.cgen = t /\ u.c.rgen = w.c.rgen /\ u.c.set = w.c.set
          /\ u.c.queue = w.c.queue
      BY <1>1, <1>2, BeginFields
    <3>2. b = FailClosed(u, t)
      BY <2>1
    <3> HIDE DEF u
    <3>3. u.c.rgen = (IF u.s.bad THEN 0 ELSE t)
      BY <1>2, <2>1, <3>1
    <3>4. b.s = u.s
      BY <1>1, <3>1, <3>2, FailClosedFields DEF IsCurrent
    <3> HIDE DEF b
    <3>5. Blamed'
      BY <1>2, <1>3, <1>5, <2>1, <3>1, <3>4
    <3>6. /\ Agreed(b, t, key, refused, Blamed') /\ Proceeds(u, b, t)
          /\ b.k.pc = "set" /\ b.c.queue = Append(u.c.queue, t)
      BY <1>1, <3>1, <3>2, <3>3, <3>5, FailClosedAgrees
    <3> QED
      BY <1>2, <1>4, <3>1, <3>4, <3>6 DEF Proceeds
  <2>2. CASE ~s.bad
    <3>1. w.k.acct = w.s.sel /\ ~w.s.bad
      BY <1>2, <2>2
    <3>2. b = EnsureActive(w, t)
      BY <2>2
    <3> HIDE DEF b
    <3>3. /\ Agreed(b, t, key, refused, Blamed') /\ Proceeds(w, b, t)
          /\ \/ b.k.pc = "read" /\ b.c.queue = w.c.queue
             \/ b.k.pc = "set" /\ b.c.queue = Append(w.c.queue, t)
          /\ b.s = w.s
      BY <1>1, <1>2, <3>1, <3>2, EnsureActiveAgrees
    <3> QED
      BY <1>2, <1>4, <3>3 DEF Proceeds
  <2> QED
    BY <2>1, <2>2
<1> HIDE DEF b
<1>7. /\ b.c \in Coordinator /\ b.k \in Task
      /\ [c |-> b.c, k |-> b.k, conf |-> b.conf, s |-> b.s] = b
  BY <1>6, Fields DEF Worlds
<1>8. /\ DOMAIN coord' = DOMAIN coord /\ coord'[n] = b.c
      /\ \A p \in DOMAIN coord : p # n => coord'[p] = coord[p]
  BY <1>1, <1>3, <1>7 DEF ActivationInv
<1>9. /\ DOMAIN task' = DOMAIN task \cup {t} /\ task'[t] = b.k
      /\ t \notin DOMAIN task /\ Latest' = t
      /\ \A p \in DOMAIN task : task'[p] = task[p]
  BY <1>1, <1>3, <1>7 DEF Latest
<1>10. ses'.n = n /\ ses'.phase = "up" /\ Live' /\ Mine' = b.c /\ ses' = s
  BY <1>3, <1>6, <1>8 DEF Live, Mine
<1>11. Clearing' = Clearing
  <2>1. Clearing' = {p \in DOMAIN task' : task'[p].pc = "clear"}
    BY DEF Clearing
  <2> QED
    BY <1>6, <1>9, <2>1 DEF Clearing
<1>12. /\ before \in Seq(1 .. Latest) /\ before \in Seq(Nat)
       /\ before \in Seq(1 .. t) /\ Append(before, t) \in Seq(1 .. t)
       /\ ~Has(before, t)
  <2>1. before \in Seq(1 .. Latest)
    BY DEF AgreeInv, QueueInv
  <2>2. before \in Seq(Nat)
    BY <1>1, <1>4 DEF Coordinator
  <2> HIDE DEF before
  <2>3. before \in Seq(1 .. t) /\ ~Has(before, t)
    <3>1. t \notin 1 .. Latest
      BY <1>1
    <3> QED
      BY <1>1, <2>1, <3>1, QueueOfTasks
  <2>4. Append(before, t) \in Seq(1 .. t)
    BY <1>1, <2>3, QueueOfTasks
  <2> QED
    BY <2>1, <2>2, <2>3, <2>4
<1> HIDE DEF before
<1>13. \A x : Has(before, x) => Has(b.c.queue, x)
  <2>1. \A x : Has(before, x) => Has(Append(before, t), x)
    BY <1>1, <1>12, QueueElements
  <2> DEFINE after == Append(before, t)
             q == b.c.queue
  <2>2. q = before \/ q = after
    BY <1>6
  <2> HIDE DEF after, q
  <2>3. \A x : Has(before, x) => Has(after, x)
    BY <2>1 DEF after
  <2>4. \A x : Has(before, x) => Has(q, x)
    BY <2>2, <2>3
  <2> QED
    BY <2>4 DEF q
<1>14. QueueInv'
  <2>1. ASSUME NEW p \in Clearing PROVE task'[p].own = n /\ Has(b.c.queue, p)
    <3>1. task[p].own = n /\ Has(before, p)
      BY <2>1 DEF AgreeInv, QueueInv, before
    <3> QED
      BY <1>9, <1>13, <2>1, <3>1 DEF Clearing
  <2> QED
    BY <1>6, <1>9, <1>10, <1>11, <1>12, <2>1 DEF QueueInv
<1>15. AppliedInv'
  <2>1. Mine.set \in {Unset, key}
    BY DEF AgreeInv, AppliedInv, Live
  <2> QED
    BY <1>2, <1>3, <1>4, <1>6, <1>10, <2>1 DEF AppliedInv
<1>16. TroubleInv'
  BY <1>3, <1>6, <1>9 DEF AgreeInv, TroubleInv
<1>17. OffersInv'
  BY <1>8, <1>10 DEF AgreeInv, OffersInv
<1>18. NewestInv'
  <2>1. (World(Latest))' = b
    BY <1>3, <1>6, <1>7, <1>8, <1>9 DEF World
  <2>2. Agreed(World(Latest), Latest, key, refused, Blamed)'
    BY <1>3, <1>6, <1>9, <2>1
  <2>3. Newest' = b.k
    BY <1>9 DEF Newest
  <2>4. InPlace(b.c.queue, t, b.k.pc, Clearing)
    <3>1. Once(Append(before, t), t, Clearing)
      BY <1>1, <1>12, OnceAppended
    <3> QED
      BY <1>6, <1>12, <3>1 DEF InPlace, Enqueued
  <2>5. Placed'
    BY <1>6, <1>9, <1>10, <1>11, <2>3, <2>4 DEF Placed, Enqueued, Early
  <2> QED
    BY <1>6, <1>9, <1>10, <2>2, <2>3, <2>5 DEF NewestInv
<1> QED
  BY <1>10, <1>14, <1>15, <1>16, <1>17, <1>18 DEF AgreeInv

\* Nothing happens that matters, but what a failure may blame.
LEMMA QuietAgrees ==
  ASSUME ActivationInv, AgreeInv, UNCHANGED <<key, conf, coord, refused>>,
         SameSelection(ses, ses'), ses'.res = ses.res, Len(task') = Len(task),
         DOMAIN task' = DOMAIN task,
         \A t \in DOMAIN task :
             /\ task'[t].own = task[t].own /\ task'[t].pc = task[t].pc
             /\ task'[t].mode = task[t].mode /\ task'[t].acct = task[t].acct
             /\ task'[t].key = task[t].key /\ task'[t].res = task[t].res
             /\ task'[t].aborted => task[t].aborted \/ upsets' > 0,
         Blamed => Blamed', upsets > 0 => upsets' > 0, lock' = lock \/ upsets' > 0
  PROVE  AgreeInv'
<1>1. /\ ses'.n = ses.n /\ ses'.phase = ses.phase /\ ses'.sel = ses.sel /\ ses'.bad = ses.bad
      /\ Latest' = Latest
  BY DEF SameSelection, Latest
<1>2. Clearing' = Clearing
  <2>1. Clearing' = {p \in DOMAIN task' : task'[p].pc = "clear"}
    BY DEF Clearing
  <2> QED
    BY <2>1 DEF Clearing
<1>3. Mine' = Mine /\ (Live' <=> Live)
  BY <1>1 DEF Mine, Live
<1>4. QueueInv'
  BY <1>1, <1>2, <1>3 DEF AgreeInv, QueueInv, Clearing
<1>5. AppliedInv'
  BY <1>1, <1>3 DEF AgreeInv, AppliedInv
<1>6. TroubleInv'
  BY DEF AgreeInv, TroubleInv
<1>7. OffersInv'
  BY <1>1 DEF AgreeInv, OffersInv
<1>8. ASSUME ses.phase = "up" PROVE NewestInv'
  <2> DEFINE l == Latest
             w == World(Latest)
             v == (World(Latest))'
  <2>1. l \in DOMAIN task /\ task[l].own = ses.n /\ Agreed(w, l, key, refused, Blamed) /\ Placed
    BY <1>8 DEF AgreeInv, NewestInv, Newest
  <2>2. w.c = coord[ses.n] /\ w.k = task[l] /\ w.conf = conf /\ w.s = ses
    BY <2>1 DEF World
  <2>3. v.c = coord[ses.n] /\ v.k = task'[l] /\ v.conf = conf /\ v.s = ses'
    BY <1>1, <2>1 DEF World
  <2> HIDE DEF w, v
  <2>4. Agreed(v, l, key', refused', Blamed')
    <3>1. /\ v.k.pc = w.k.pc /\ v.k.mode = w.k.mode /\ v.k.acct = w.k.acct
          /\ v.k.key = w.k.key /\ v.k.res = w.k.res
      BY <2>1, <2>2, <2>3
    <3>2. v.conf = w.conf /\ SameSelection(w.s, v.s) /\ v.s.res = w.s.res
      BY <2>2, <2>3
    <3>3. /\ v.c.gen = w.c.gen /\ v.c.cgen = w.c.cgen /\ v.c.rgen = w.c.rgen
          /\ SameOffers(w.c, v.c)
      BY <2>2, <2>3 DEF SameOffers
    <3>4. (refused => refused') /\ key = key'
      OBVIOUS
    <3> QED
      BY <2>1, <3>1, <3>2, <3>3, <3>4, StillAgreed
  <2>5. Agreed(World(Latest), Latest, key, refused, Blamed)'
    BY <1>1, <2>4 DEF v
  <2>6. Newest'.pc = Newest.pc /\ Newest'.own = ses'.n
    BY <1>1, <2>1 DEF Newest
  <2>7. Placed'
    BY <1>1, <1>2, <1>3, <2>1, <2>6 DEF Placed
  <2> QED
    BY <1>1, <2>1, <2>5, <2>6, <2>7 DEF NewestInv
<1>9. NewestInv'
  BY <1>1, <1>8 DEF NewestInv
<1> QED
  BY <1>4, <1>5, <1>6, <1>7, <1>9 DEF AgreeInv

-----------------------------------------------------------------------------
LEMMA UpsetsGrow ==
  ASSUME CountersInv, Call \/ Upset \/ NoFault
  PROVE  /\ upsets > 0 => upsets' > 0
         /\ Upset => upsets' > 0
<1>1. upsets \in Nat
  BY RuntimeAuthAssumption DEF CountersInv
<1> QED
  BY <1>1 DEF Call, Upset, NoFault, counters

LEMMA CallsAgree ==
  ASSUME ActivationInv, StoreInv, CountersInv, AgreeInv,
         SessionReady \/ ModelSelect \/ BeforeAgentStart \/ SwitchAccount \/ LoginAccount
           \/ RemoveAccount
  PROVE  AgreeInv' /\ TurnsReady
<1>1. ses \in Session /\ task \in Seq(Task)
  BY DEF ActivationInv
<1>2. upsets > 0 => upsets' > 0
  <2>1. Call \/ Upset \/ NoFault
    BY DEF SessionReady, ModelSelect, BeforeAgentStart, SwitchAccount, LoginAccount,
           RemoveAccount, Fault
  <2> QED
    BY <2>1, UpsetsGrow
<1>3. ses.phase = "up" /\ ses.bad => coord[ses.n].rgen = 0
  BY DEF AgreeInv, NewestInv, Newest, Agreed, Generations, World
<1>4. ASSUME ses'.run = ses.run \/ ses'.run = "starting" PROVE TurnsReady
  BY <1>4 DEF TurnsReady
<1>5. CASE SessionReady
  <2>1. PICK a \in Restored :
          SyncIn([ses EXCEPT !.phase = "up", !.sel = IF a = Failing THEN Default ELSE a,
                             !.bad = a = Failing], FALSE)
    BY <1>5 DEF SessionReady
  <2> DEFINE s == [ses EXCEPT !.phase = "up", !.sel = IF a = Failing THEN Default ELSE a,
                              !.bad = a = Failing]
  <2>2. s \in Session /\ s.n = ses.n /\ s.phase = "up" /\ SyncIn(s, FALSE)
    BY <1>1, <2>1, NewSelections
  <2>3. s.run = ses.run
    BY <1>1 DEF Session
  <2> HIDE DEF s
  <2>4. ses.phase = "init" /\ coord[ses.n].rgen = 0
    BY <1>5 DEF SessionReady, AgreeInv, AppliedInv, Mine
  <2>5. AgreeInv' /\ ses'.run = s.run
    BY <1>2, <2>2, <2>4, SyncAgrees
  <2> QED
    BY <1>4, <2>3, <2>5
<1>6. CASE ModelSelect
  <2>1. AgreeInv' /\ ses'.run = ses.run
    BY <1>1, <1>2, <1>3, <1>6, SyncAgrees DEF ModelSelect
  <2> QED
    BY <1>4, <2>1
<1>7. CASE BeforeAgentStart
  <2> DEFINE s == [ses EXCEPT !.run = "starting", !.turn = Len(task) + 1, !.abort = FALSE]
  <2>1. s \in Session /\ s.n = ses.n /\ s.phase = "up" /\ SyncIn(s, FALSE) /\ ses.phase = "up"
    BY <1>1, <1>7, NewSelections DEF BeforeAgentStart
  <2>2. s.run = "starting" /\ s.bad = ses.bad
    BY <1>1 DEF Session
  <2> HIDE DEF s
  <2>3. AgreeInv' /\ ses'.run = s.run
    BY <1>2, <1>3, <2>1, <2>2, SyncAgrees
  <2> QED
    BY <1>4, <2>2, <2>3
<1>8. ASSUME NEW a \in Selections, SyncIn(Selecting(a), TRUE), ses.phase = "up"
      PROVE  AgreeInv' /\ TurnsReady
  <2> DEFINE s == Selecting(a)
  <2>1. s \in Session /\ s.n = ses.n /\ s.phase = "up" /\ SyncIn(s, TRUE)
    BY <1>1, <1>8, NewSelections
  <2>2. s.run = ses.run /\ ~s.bad
    BY <1>1 DEF Session, Selecting
  <2> HIDE DEF s
  <2>3. AgreeInv' /\ ses'.run = s.run
    BY <1>2, <1>8, <2>1, <2>2, SyncAgrees
  <2> QED
    BY <1>4, <2>2, <2>3
<1>9. CASE SwitchAccount
  BY <1>8, <1>9 DEF SwitchAccount, Selections
<1>10. CASE LoginAccount
  BY <1>8, <1>10 DEF LoginAccount, Selections
<1>11. CASE RemoveAccount
  <2>1. ses.phase = "up"
    BY <1>11 DEF RemoveAccount
  <2>2. \/ SyncIn(Selecting(Default), TRUE) \/ SyncIn(ses, TRUE)
        \/ /\ UNCHANGED <<lock, key, conf, coord, ses, task, refused>>
           /\ \E a \in Accounts : store' = [store EXCEPT ![a] = 0]
    BY <1>11 DEF RemoveAccount
  <2>3. CASE SyncIn(Selecting(Default), TRUE)
    BY <1>8, <2>1, <2>3 DEF Selections
  <2>4. CASE SyncIn(ses, TRUE)
    <3>1. AgreeInv' /\ ses'.run = ses.run
      BY <1>1, <1>2, <1>3, <2>1, <2>4, SyncAgrees
    <3> QED
      BY <1>4, <3>1
  <2>5. CASE /\ UNCHANGED <<lock, key, conf, coord, ses, task, refused>>
             /\ \E a \in Accounts : store' = [store EXCEPT ![a] = 0]
    <3>1. Blamed => Blamed'
      <4>1. \A b \in Accounts : store[b] = 0 => store'[b] = 0
        BY <2>5 DEF StoreInv
      <4> QED
        BY <1>2, <2>5, <4>1 DEF Blamed
    <3>2. SameSelection(ses, ses')
      BY <2>5 DEF SameSelection
    <3>3. AgreeInv'
      BY <1>2, <2>5, <3>1, <3>2, QuietAgrees
    <3> QED
      BY <1>4, <2>5, <3>3
  <2> QED
    BY <2>2, <2>3, <2>4, <2>5
<1> QED
  BY <1>5, <1>6, <1>7, <1>9, <1>10, <1>11

\* The menu closes, a turn starts, or something happens elsewhere.
LEMMA UpsetsAgree ==
  ASSUME ActivationInv, StoreInv, CountersInv, AgreeInv,
         \/ \E t \in DOMAIN task : MenuCloses(t)
         \/ TurnStart \/ OthersStore \/ LockTaken \/ LockCompromised \/ UNCHANGED vars
  PROVE  AgreeInv' /\ TurnsReady
<1>1. ses \in Session /\ task \in Seq(Task)
  BY DEF ActivationInv
<1>2. CASE \E t \in DOMAIN task : MenuCloses(t)
  <2>1. PICK t \in DOMAIN task : MenuCloses(t)
    BY <1>2
  <2>2. /\ task' = [task EXCEPT ![t].aborted = TRUE] /\ Upset
        /\ UNCHANGED <<store, lock, key, conf, coord, ses, refused>>
    BY <2>1 DEF MenuCloses
  <2>3. task[t] \in Task
    BY <1>1
  <2>4. /\ Len(task') = Len(task) /\ DOMAIN task' = DOMAIN task
        /\ \A p \in DOMAIN task :
             /\ task'[p].own = task[p].own /\ task'[p].pc = task[p].pc
             /\ task'[p].mode = task[p].mode /\ task'[p].acct = task[p].acct
             /\ task'[p].key = task[p].key /\ task'[p].res = task[p].res
    <3> DEFINE k == [task[t] EXCEPT !.aborted = TRUE]
    <3>1. /\ k \in Task /\ k.own = task[t].own /\ k.pc = task[t].pc /\ k.mode = task[t].mode
          /\ k.acct = task[t].acct /\ k.key = task[t].key /\ k.res = task[t].res
      BY <2>3 DEF Task
    <3>2. task' = [task EXCEPT ![t] = k]
      BY <2>2
    <3> HIDE DEF k
    <3>3. /\ Len(task') = Len(task) /\ DOMAIN task' = DOMAIN task /\ task'[t] = k
          /\ \A p \in DOMAIN task : p # t => task'[p] = task[p]
      BY <1>1, <3>1, <3>2
    <3> QED
      BY <3>1, <3>3
  <2>5. upsets' > 0
    BY <2>2, UpsetsGrow
  <2>6. Blamed'
    BY <2>5 DEF Blamed
  <2>7. SameSelection(ses, ses') /\ ses'.res = ses.res
    BY <2>2 DEF SameSelection
  <2>8. AgreeInv'
    BY <2>2, <2>4, <2>5, <2>6, <2>7, QuietAgrees
  <2> QED
    BY <2>2, <2>8 DEF TurnsReady
<1>3. CASE TurnStart
  <2>1. /\ SameSelection(ses, ses') /\ ses'.res = ses.res /\ ses'.run = "no"
        /\ ses'.sel = ses.sel /\ ses'.bad = ses.bad
    BY <1>1, <1>3 DEF TurnStart, Session, SameSelection
  <2>2. UNCHANGED <<store, lock, key, conf, coord, task, refused, upsets>>
    BY <1>3 DEF TurnStart, counters
  <2>3. Blamed => Blamed'
    BY <2>1, <2>2 DEF Blamed
  <2>4. AgreeInv'
    BY <2>1, <2>2, <2>3, QuietAgrees
  <2> QED
    BY <2>1, <2>4 DEF TurnsReady
<1>4. CASE OthersStore \/ LockTaken
  <2>1. UNCHANGED <<key, conf, coord, ses, task, refused>> /\ Upset
    BY <1>4 DEF OthersStore, LockTaken, OthersChange
  <2>2. upsets' > 0
    BY <2>1, UpsetsGrow
  <2>3. Blamed'
    BY <2>2 DEF Blamed
  <2>4. SameSelection(ses, ses')
    BY <2>1 DEF SameSelection
  <2>5. AgreeInv'
    BY <2>1, <2>2, <2>3, <2>4, QuietAgrees
  <2> QED
    BY <2>1, <2>5 DEF TurnsReady
<1>5. CASE LockCompromised \/ UNCHANGED vars
  <2>1. UNCHANGED <<store, lock, key, conf, coord, ses, task, refused, upsets>>
    BY <1>5 DEF LockCompromised, NoFault, counters, vars
  <2>2. Blamed => Blamed'
    BY <2>1 DEF Blamed
  <2>3. SameSelection(ses, ses')
    BY <2>1 DEF SameSelection
  <2>4. AgreeInv'
    BY <2>1, <2>2, <2>3, QuietAgrees
  <2> QED
    BY <2>1, <2>4 DEF TurnsReady
<1> QED
  BY <1>2, <1>3, <1>4, <1>5

-----------------------------------------------------------------------------
LEMMA SessionStartAgrees ==
  ASSUME ActivationInv, AgreeInv, SessionStart
  PROVE  AgreeInv' /\ TurnsReady
<1> DEFINE n == ses.n + 1
           c == NewCoordinator
           s == NewSession(n)
<1>1. ses.n \in Nat /\ n \in Nat /\ Len(coord) = ses.n
  BY DEF ActivationInv, Shape, Session
<1>2. c \in Coordinator /\ c.queue = <<>> /\ c.set = Unset /\ c.rgen = 0 /\ c.offer = Unset
  BY NewValues DEF NewCoordinator
<1>3. s.n = n /\ s.phase = "init" /\ s.run = "no"
  BY DEF NewSession
<1>4. /\ ses' = s /\ coord' = Append(coord, c) /\ ses.phase \in {"off", "down"}
      /\ UNCHANGED <<lock, key, conf, task, refused, upsets>>
  BY DEF SessionStart, counters
<1> HIDE DEF c, s
<1>5. /\ DOMAIN coord' = 1 .. n /\ coord'[n] = c
      /\ \A o \in DOMAIN coord' : o # n => o \in DOMAIN coord /\ coord'[o] = coord[o]
  BY <1>1, <1>2, <1>4 DEF ActivationInv
<1>6. Clearing' = {} /\ Mine' = c /\ ~Live'
  BY <1>3, <1>4, <1>5 DEF AgreeInv, QueueInv, Clearing, Live, Mine
<1>7. QueueInv'
  <2>1. <<>> \in Seq(1 .. Latest')
    OBVIOUS
  <2> QED
    BY <1>2, <1>3, <1>4, <1>6, <2>1 DEF QueueInv
<1>8. AppliedInv'
  BY <1>2, <1>6 DEF AppliedInv
<1>9. TroubleInv'
  BY <1>4 DEF AgreeInv, TroubleInv
<1>10. OffersInv'
  BY <1>2, <1>4, <1>5 DEF AgreeInv, OffersInv
<1>11. NewestInv' /\ TurnsReady
  BY <1>3, <1>4 DEF NewestInv, TurnsReady
<1> QED
  BY <1>7, <1>8, <1>9, <1>10, <1>11 DEF AgreeInv

LEMMA SessionShutdownAgrees ==
  ASSUME ActivationInv, AgreeInv, CountersInv, SessionShutdown
  PROVE  AgreeInv' /\ TurnsReady
<1> DEFINE n == ses.n
           unset == Unset
           none == NoResult
           before == coord[n].queue
           q == Append(before, 0)
           c == [coord[n] EXCEPT !.gen = 0, !.cgen = 0, !.rgen = 0,
                                 !.pending = unset, !.offer = unset, !.queue = q]
           s == [ses EXCEPT !.phase = "closing", !.res = none, !.ident = unset,
                            !.abort = FALSE, !.run = "no", !.turn = 0]
<1>1. n \in Nat /\ n # 0 /\ n \in DOMAIN coord /\ coord[n] \in Coordinator /\ ses \in Session
  BY DEF ActivationInv, Shape, Session, SessionShutdown
<1>2. unset = Unset /\ unset \in Login /\ none \in Result
  BY Values
<1>3. /\ ses' = s /\ coord' = [coord EXCEPT ![n] = c] /\ Call
      /\ UNCHANGED <<lock, key, conf, task, refused>> /\ ses.phase \in {"init", "up"}
  BY DEF SessionShutdown
<1> HIDE DEF unset, none
<1>4. s.n = n /\ s.phase = "closing" /\ s.run = "no"
  BY <1>1 DEF Session
<1> HIDE DEF s
<1>5. /\ before \in Seq(Nat) /\ ~Has(before, 0)
  <2>1. before \in Seq(1 .. Latest) /\ Latest \in Nat
    BY <1>3 DEF AgreeInv, QueueInv, Mine, ActivationInv, Latest
  <2>2. before \in Seq(Nat)
    BY <1>1 DEF Coordinator
  <2> HIDE DEF before
  <2>3. ~Has(before, 0)
    BY <2>1, QueueOfTasks
  <2> QED
    BY <2>2, <2>3
<1> HIDE DEF before
<1>6. q \in Seq(Nat) /\ Once(q, 0, Clearing) /\ \A x : Has(before, x) => Has(q, x)
  <2>1. \A x : Has(before, x) => Has(q, x)
    BY <1>5, QueueElements
  <2>2. Once(q, 0, Clearing)
    BY <1>5, OnceAppended
  <2> QED
    BY <1>5, <2>1, <2>2
<1> HIDE DEF q
<1>7. /\ c \in Coordinator /\ c.queue = q /\ c.offer = Unset /\ c.set = coord[n].set
  BY <1>1, <1>2, <1>6 DEF Coordinator
<1> HIDE DEF c
<1>8. /\ DOMAIN coord' = DOMAIN coord /\ coord'[n] = c
      /\ \A o \in DOMAIN coord : o # n => coord'[o] = coord[o]
  BY <1>1, <1>3, <1>7 DEF ActivationInv
<1>9. Clearing' = Clearing /\ Mine' = c /\ Live' /\ Mine = coord[n] /\ Latest' = Latest
  BY <1>3, <1>4, <1>8 DEF Clearing, Live, Mine, Latest
<1>10. QueueInv'
  <2>1. \A t \in Clearing : task[t].own = n /\ Has(q, t)
    BY <1>6, <1>9 DEF AgreeInv, QueueInv, before
  <2> QED
    BY <1>3, <1>4, <1>6, <1>7, <1>9, <2>1 DEF QueueInv
<1>11. AppliedInv'
  <2>1. Mine.set \in {Unset, key}
    BY <1>3 DEF AgreeInv, AppliedInv, Live
  <2> QED
    BY <1>3, <1>4, <1>7, <1>9, <2>1 DEF AppliedInv
<1>12. TroubleInv'
  BY <1>3, UpsetsGrow DEF AgreeInv, TroubleInv
<1>13. OffersInv'
  BY <1>3, <1>4, <1>7, <1>8 DEF AgreeInv, OffersInv
<1>14. NewestInv' /\ TurnsReady
  BY <1>3, <1>4 DEF NewestInv, TurnsReady
<1> QED
  BY <1>10, <1>11, <1>12, <1>13, <1>14 DEF AgreeInv

LEMMA ShutdownClearsAgrees ==
  ASSUME ActivationInv, AgreeInv, CountersInv, ShutdownClears
  PROVE  AgreeInv' /\ TurnsReady
<1> DEFINE n == ses.n
           c == coord[n]
           s == [ses EXCEPT !.phase = "down"]
<1>1. /\ n \in Nat /\ n # 0 /\ n \in DOMAIN coord /\ c \in Coordinator /\ ses \in Session
      /\ \A t \in DOMAIN task : t # 0
  BY DEF ActivationInv, Shape, Session, ShutdownClears
<1>2. /\ ses' = s /\ UNCHANGED <<lock, task>> /\ ses.phase = "closing"
      /\ c.queue # <<>> /\ Head(c.queue) = 0 /\ (NoFault \/ Upset)
  BY DEF ShutdownClears, Fault
<1>3. s.n = n /\ s.phase = "down" /\ s.run = ses.run
  BY <1>1 DEF Session
<1> HIDE DEF s
<1>4. \E d \in Coordinator : coord' = [coord EXCEPT ![n] = d] /\ d.offer = c.offer
  <2> DEFINE q == Tail(c.queue)
             unset == Unset
             set == IF c.may THEN unset ELSE c.set
             d1 == [c EXCEPT !.queue = q, !.set = set, !.may = FALSE]
             d2 == [d1 EXCEPT !.owned = FALSE]
             d3 == [c EXCEPT !.queue = q]
             w == [c |-> c, conf |-> conf]
             x == Cleared(w)
             r == RemoveOverlay(x)
  <2>1. unset \in Login
    BY Values
  <2>2. coord' = [coord EXCEPT ![n] = r.c] \/ coord' = [coord EXCEPT ![n] = x.c]
          \/ coord' = [coord EXCEPT ![n] = d3]
    BY DEF ShutdownClears
  <2> HIDE DEF c
  <2>3. w \in [c : Coordinator, conf : Login] /\ w.c = c
    BY <1>1 DEF ActivationInv
  <2>4. Dequeue(w) = [w EXCEPT !.c = d3]
    BY <2>3 DEF Dequeue
  <2>5. d3.set = c.set /\ d1 = [d3 EXCEPT !.set = set, !.may = FALSE]
    BY <1>1 DEF Coordinator
  <2>6. q \in Seq(Nat)
    <3>1. c.queue \in Seq(Nat)
      BY <1>1 DEF Coordinator
    <3> QED
      BY <1>2, <3>1 DEF c
  <2>7. set \in Login
    BY <1>1, <2>1 DEF Coordinator
  <2> HIDE DEF set, q
  <2>8. /\ d1 \in Coordinator /\ d1.offer = c.offer
        /\ d3 \in Coordinator /\ d3.offer = c.offer
    BY <1>1, <2>6, <2>7 DEF Coordinator
  <2> HIDE DEF d1, w
  <2>9. x = [w EXCEPT !.c = d1]
    BY <2>3, <2>4, <2>5 DEF Cleared, set
  <2>10. x.c = d1 /\ x \in [c : {d1}, conf : Login]
    BY <2>3, <2>9
  <2> HIDE DEF x, d3
  <2>11. d2 \in Coordinator /\ d2.offer = d1.offer
    BY <2>8 DEF Coordinator
  <2>12. r.c = d1 \/ r.c = d2
    <3>1. RemoveOverlay(x) = x \/ RemoveOverlay(x) = [x EXCEPT !.conf = d1.previous, !.c = d2]
      BY <2>10 DEF RemoveOverlay
    <3> HIDE DEF d2
    <3> QED
      BY <2>10, <3>1
  <2> HIDE DEF d2, r
  <2> QED
    BY <2>2, <2>8, <2>10, <2>11, <2>12
<1>5. PICK d \in Coordinator : coord' = [coord EXCEPT ![n] = d] /\ d.offer = c.offer
  BY <1>4
<1>6. Clearing = {}
  <2>1. c.queue \in Seq(Nat)
    BY <1>1 DEF Coordinator
  <2>2. /\ Once(c.queue, Head(c.queue), Clearing)
        /\ \A t \in Clearing : Has(c.queue, t)
    BY <1>2 DEF AgreeInv, QueueInv, Mine
  <2>3. \A t \in Clearing : t = 0
    BY <1>2, <2>1, <2>2, OnceFirst
  <2> QED
    BY <1>1, <2>3 DEF Clearing
<1> HIDE DEF c
<1>7. /\ DOMAIN coord' = DOMAIN coord /\ coord'[n] = d
      /\ \A o \in DOMAIN coord : o # n => coord'[o] = coord[o]
  BY <1>1, <1>5 DEF ActivationInv
<1>8. Clearing' = {} /\ ~Live' /\ ses'.phase = "down"
  BY <1>2, <1>3, <1>6 DEF Clearing, Live
<1>9. QueueInv' /\ AppliedInv'
  BY <1>8 DEF QueueInv, AppliedInv
<1>10. TroubleInv'
  <2>1. upsets > 0 => upsets' > 0
    BY <1>2, UpsetsGrow
  <2> QED
    BY <1>2, <2>1 DEF AgreeInv, TroubleInv
<1>11. OffersInv'
  BY <1>1, <1>2, <1>5, <1>7 DEF AgreeInv, OffersInv, c
<1>12. NewestInv' /\ TurnsReady
  BY <1>2, <1>3, <1>8 DEF NewestInv, TurnsReady
<1> QED
  BY <1>9, <1>10, <1>11, <1>12 DEF AgreeInv

LEMMA InitAgrees ==
  ASSUME Init
  PROVE  AgreeInv
<1>1. coord = <<>> /\ task = <<>> /\ ses.phase = "off"
  BY DEF Init, NewSession
<1>2. Clearing = {} /\ ~Live
  BY <1>1 DEF Clearing, Live
<1> QED
  BY <1>1, <1>2 DEF AgreeInv, QueueInv, AppliedInv, TroubleInv, OffersInv, NewestInv

LEMMA NextAgrees ==
  ASSUME IInv, AgreeInv, [Next]_vars
  PROVE  AgreeInv' /\ TurnsReady
<1>1. ActivationInv /\ StoreInv /\ CountersInv
  BY DEF IInv
<1>2. CASE UNCHANGED vars
  BY <1>1, <1>2, UpsetsAgree
<1>3. CASE Next
  BY <1>1, <1>3, TaskStepAgrees, UpsetsAgree, CallsAgree, SessionStartAgrees,
     SessionShutdownAgrees, ShutdownClearsAgrees
  DEF Next
<1> QED
  BY <1>2, <1>3

\* The second inductive invariant, on top of the first: what the newest
\* activation (runtime-auth.ts ensureActive, and syncProvider of accounts.ts)
\* has come to agrees with what Pi uses and with where its mutation is in the
\* queue, and what an older one can still do does not touch that.
THEOREM AgreementInvariantCorrect == Spec => []AgreeInv
<1>1. Init => AgreeInv
  BY InitAgrees
<1>2. IInv /\ AgreeInv /\ [Next]_vars => AgreeInv'
  BY NextAgrees
<1> QED
  BY <1>1, <1>2, InvariantCorrect, PTL DEF Spec

\* What is concluded is applied, unless Pi has failed to remove a key.
LEMMA ConcludedIsApplied ==
  ASSUME NEW r, NEW s, NEW k, NEW cf, NEW kept \in BOOLEAN, NEW blamed,
         Concluded(r, s, k, cf, kept, blamed), r.status # "error"
  PROVE  /\ kept \/ Applied(s, k, cf)
         /\ r = (IF s.sel = Default THEN Inactive ELSE Active(s.sel))
<1>1. DefaultLogin.acct = Default /\ Default \notin Accounts
  BY RuntimeAuthAssumption DEF DefaultLogin, LoginOf
<1> QED
  BY <1>1 DEF Concluded, Applied

\* What the session shows, what it offers to other extensions and what Pi uses
\* agree: at rest the result is that of the last selection and Pi uses it, or
\* something did fail; an offered credential is the one in use; and a session
\* that is over leaves nothing.  For any number of accounts, sessions and
\* activations that overtake each other.
THEOREM AgreementCorrect == Spec => []AccountsAgree
<1>1. IInv /\ AgreeInv => AccountsAgree
  <2> SUFFICES ASSUME IInv, AgreeInv PROVE AccountsAgree
    OBVIOUS
  <2>1. ShutdownLeavesNothing
    BY DEF IInv, ActivationInv, KeyIsRemovable, OverlayIsRemovable, Live, ShutdownLeavesNothing
  <2> DEFINE w == World(Latest)
  <2>2. ses.phase = "up" =>
          /\ Latest \in DOMAIN task /\ w.k = task[Latest] /\ w.s = ses /\ w.conf = conf
          /\ w.c = coord[ses.n] /\ Agreed(w, Latest, key, refused, Blamed)
    BY DEF AgreeInv, NewestInv, Newest, World
  <2>3. refused \in BOOLEAN
    BY DEF IInv, ActivationInv
  <2> HIDE DEF w
  <2>4. ses.phase = "up" /\ w.k.pc = "done" =>
          /\ Concluded(w.k.res, ses, key, conf, refused, Blamed) /\ ses.res = w.k.res
    BY <2>2 DEF Agreed, Concludes
  <2>5. OfferIsApplied
    <3> SUFFICES ASSUME NEW o \in DOMAIN coord, coord[o].offer # Unset
                 PROVE  /\ o = ses.n /\ ses.phase = "up"
                        /\ key = coord[o].offer /\ Applied(ses, key, conf)
      BY DEF OfferIsApplied
    <3>1. o = ses.n /\ ses.phase = "up"
      BY DEF AgreeInv, OffersInv
    <3>2. w.k.pc = "done" /\ w.k.res.status = "active" /\ key = coord[o].offer
      BY <2>2, <3>1 DEF Agreed, Concludes
    <3>3. ses.sel \in Accounts /\ key.acct = ses.sel /\ conf = key
      BY <2>4, <3>1, <3>2 DEF Concluded, Inactive
    <3> QED
      BY <3>1, <3>2, <3>3, RuntimeAuthAssumption DEF Applied
  <2>6. RestsWithTheSelection
    <3> SUFFICES ASSUME ses.phase = "up", \A t \in DOMAIN task : task[t].pc = "done"
                 PROVE  \/ ses.res.status = "error" /\ Blamed
                        \/ /\ ses.res = (IF ses.sel = Default THEN Inactive
                                         ELSE Active(ses.sel))
                           /\ refused \/ Applied(ses, key, conf)
      BY DEF RestsWithTheSelection, Blamed
    <3>1. Concluded(ses.res, ses, key, conf, refused, Blamed)
      BY <2>2, <2>4
    <3>2. CASE ses.res.status # "error"
      BY <2>3, <3>1, <3>2, ConcludedIsApplied
    <3>3. CASE ses.res.status = "error"
      BY <3>1, <3>3 DEF Concluded, Inactive, Active
    <3> QED
      BY <3>2, <3>3
  <2> QED
    BY <2>1, <2>5, <2>6 DEF AccountsAgree
<1> QED
  BY <1>1, InvariantCorrect, AgreementInvariantCorrect, PTL

\* A step by which a turn becomes ready is not one by which Pi refuses.
LEMMA TurnsKeepRefused ==
  ASSUME Next, IInv, ses.run = "starting", ses'.run = "ready"
  PROVE  refused' = refused
<1>1. ASSUME NEW t \in DOMAIN task, TaskStep(t) PROVE refused' = refused
  BY <1>1, TaskStepFrame DEF Frame, IInv
<1>2. CASE \/ \E t \in DOMAIN task : MenuCloses(t)
           \/ SessionStart \/ SessionReady \/ ModelSelect \/ BeforeAgentStart \/ TurnStart
           \/ SwitchAccount \/ LoginAccount \/ RemoveAccount \/ SessionShutdown
           \/ OthersStore \/ LockTaken \/ LockCompromised
  <2>1. \A s, menu : SyncIn(s, menu) => refused' = refused
    BY DEF SyncIn
  <2>2. CASE SessionReady \/ ModelSelect \/ BeforeAgentStart
    BY <2>1, <2>2, Zenon DEF SessionReady, ModelSelect, BeforeAgentStart
  <2>3. CASE SwitchAccount \/ LoginAccount \/ RemoveAccount
    <3>1. SwitchAccount => refused' = refused
      BY <2>1, Zenon DEF SwitchAccount
    <3>2. LoginAccount => refused' = refused
      BY <2>1, Zenon DEF LoginAccount
    <3>3. RemoveAccount => refused' = refused
      BY <2>1, Zenon DEF RemoveAccount
    <3> QED
      BY <2>3, <3>1, <3>2, <3>3
  <2>4. CASE SessionStart \/ TurnStart \/ SessionShutdown
    BY <2>4 DEF SessionStart, TurnStart, SessionShutdown
  <2>5. CASE (\E t \in DOMAIN task : MenuCloses(t)) \/ OthersStore \/ LockTaken \/ LockCompromised
    BY <2>5 DEF MenuCloses, OthersStore, LockTaken, LockCompromised, OthersChange
  <2> QED
    BY <1>2, <2>2, <2>3, <2>4, <2>5
<1>3. CASE ShutdownClears
  <2>1. ses'.run = ses.run
    BY <1>3 DEF ShutdownClears, Session, IInv, ActivationInv
  <2> QED
    BY <2>1
<1> QED
  BY <1>1, <1>2, <1>3 DEF Next

\* before_agent_start lets a turn go on only when Pi uses the account that is
\* selected then, whatever was switched, removed or replaced while it waited.
THEOREM TurnsCorrect == Spec => TurnsAreAuthenticated
<1>1. ASSUME IInv, AgreeInv,
             ses.run = "starting", ses'.run = "ready", ~ses'.abort, Next
      PROVE  refused \/ Applied(ses', key', conf')
  <2>1. /\ AgreeInv' /\ ses'.phase = "up" /\ Newest'.pc = "done"
        /\ ses'.abort = (Newest'.res.status = "error")
    BY <1>1, NextAgrees DEF TurnsReady
  <2>2. ActivationInv'
    BY <1>1, NextKeepsActivation DEF IInv
  <2> DEFINE w == (World(Latest))'
  <2>3. /\ w.k = Newest' /\ w.s = ses' /\ w.conf = conf'
        /\ Agreed(w, Latest', key', refused', Blamed')
    BY <2>1 DEF AgreeInv, NewestInv, Newest, World
  <2> HIDE DEF w
  <2>4. Concluded(Newest'.res, ses', key', conf', refused', Blamed')
    BY <2>1, <2>3 DEF Agreed, Concludes
  <2>5. refused' \in BOOLEAN /\ refused' = refused
    BY <1>1, <2>2, TurnsKeepRefused DEF ActivationInv
  <2>6. Newest'.res.status # "error"
    <3>1. ~ses'.abort
      BY <1>1
    <3> QED
      BY <2>1, <3>1
  <2> DEFINE r == Newest'.res
             s == ses'
             k == key'
             cf == conf'
             kept == refused'
             blamed == Blamed'
  <2>7. kept \in BOOLEAN /\ Concluded(r, s, k, cf, kept, blamed) /\ r.status # "error"
    BY <2>4, <2>5, <2>6
  <2> HIDE DEF r, s, k, cf, kept, blamed
  <2>8. kept \/ Applied(s, k, cf)
    BY <2>7, ConcludedIsApplied
  <2> QED
    BY <2>5, <2>8 DEF s, k, cf, kept
<1>2. IInv /\ AgreeInv /\ [Next]_vars
        => [ses.run = "starting" /\ ses'.run = "ready" /\ ~ses'.abort
              => refused \/ Applied(ses', key', conf')]_vars
  BY <1>1
<1> QED
  BY <1>2, InvariantCorrect, AgreementInvariantCorrect, PTL DEF Spec, TurnsAreAuthenticated
=============================================================================

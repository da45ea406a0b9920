---------------------------- MODULE WorkflowMutex ----------------------------
(***************************************************************************)
(* The cooperative mutex of pi-goal and pi-plan-mode: a participant that   *)
(* wants to run its workflow asks all listeners of an event channel, one   *)
(* after the other and synchronously, whether one of them holds the group  *)
(* in its session.                                                         *)
(*                                                                         *)
(* Source: packages/pi-goal/src/workflow-mutex.ts (pi-plan-mode has a copy *)
(* of its own).  The only group is "agent-workflow".                       *)
(***************************************************************************)
EXTENDS Naturals, Sequences

CONSTANTS
    Participants,   \* the extensions that each own a WorkflowMutex
    Sessions,       \* session managers, compared by identity
    None,           \* no session, no owner
    Conducts,       \* the choices of conduct: sets of ListenerActs
    MaxGeneration,  \* bound on the session changes of a participant
    MaxOwners,      \* bound on the owner symbols
    MaxDepth        \* bound on the emissions inside emissions

\* What listeners of other extensions may do in the middle of an emission.
ListenerActs == {"bind", "unbind", "release", "acquire", "throw", "spoil"}

ASSUME WorkflowMutexAssumption ==
    /\ None \notin Sessions
    /\ Conducts \subseteq SUBSET ListenerActs
    /\ MaxGeneration \in Nat /\ MaxOwners \in Nat /\ MaxDepth \in Nat

VARIABLES
    conduct,    \* what the listeners of this system do; it never changes
    session,    \* of each participant
    held,       \* heldGroups: the owner of the group, or None
    generation,
    attempts,   \* the emissions that have not returned, innermost first
    owners      \* the owner symbols handed out by each participant

mutexVars == <<conduct, session, held, generation, attempts, owners>>

-----------------------------------------------------------------------------
\* An owner symbol.  Its binding, the generation in which acquire was called,
\* is not part of the symbol; OwnersAreCurrent speaks about it.
Owner == [id : 1..MaxOwners, binding : 0..MaxGeneration]

Attempt ==
    [by : Participants, session : Sessions, generation : 0..MaxGeneration,
     busy : BOOLEAN, spoiled : BOOLEAN, pending : SUBSET Participants]

MutexTypeOK ==
    /\ conduct \in Conducts
    /\ session \in [Participants -> Sessions \cup {None}]
    /\ held \in [Participants -> Owner \cup {None}]
    /\ generation \in [Participants -> 0..MaxGeneration]
    /\ attempts \in Seq(Attempt)
    /\ owners \in [Participants -> SUBSET Owner]

MutexInit ==
    /\ conduct \in Conducts
    /\ session = [p \in Participants |-> None]
    /\ held = [p \in Participants |-> None]
    /\ generation = [p \in Participants |-> 0]
    /\ attempts = <<>>
    /\ owners = [p \in Participants |-> {}]

-----------------------------------------------------------------------------
\* Calls are made when no emission is under way, or by a listener.
May(act) == attempts = <<>> \/ act \in conduct

Issued == UNION {owners[p] : p \in Participants}

FreshIds == {i \in 1..MaxOwners : \A o \in Issued : o.id # i}

BindSession(p, s) ==
    /\ May("bind") /\ generation[p] < MaxGeneration
    /\ generation' = [generation EXCEPT ![p] = @ + 1]
    /\ held' = [held EXCEPT ![p] = None]
    /\ session' = [session EXCEPT ![p] = s]
    /\ UNCHANGED <<attempts, owners>>

UnbindSession(p, s) ==
    /\ May("unbind") /\ session[p] = s /\ generation[p] < MaxGeneration
    /\ generation' = [generation EXCEPT ![p] = @ + 1]
    /\ held' = [held EXCEPT ![p] = None]
    /\ session' = [session EXCEPT ![p] = None]
    /\ UNCHANGED <<attempts, owners>>

\* acquire up to the emission.
Emit(p) ==
    /\ May("acquire") /\ Len(attempts) < MaxDepth
    /\ session[p] # None /\ held[p] = None
    /\ attempts' =
         <<[by |-> p, session |-> session[p], generation |-> generation[p],
            busy |-> FALSE, spoiled |-> FALSE, pending |-> Participants]>> \o attempts
    /\ UNCHANGED <<session, held, generation, owners>>

\* Mutant: a holder answers for every session.
AnswerAnySession(q) ==
    /\ attempts # <<>> /\ q \in Head(attempts).pending
    /\ attempts' = [attempts EXCEPT
         ![1].pending = @ \ {q},
         ![1].busy = @ \/ held[q] # None]
    /\ UNCHANGED <<session, held, generation, owners>>

\* The listener of a participant.
Answer(q) ==
    /\ attempts # <<>> /\ q \in Head(attempts).pending
    /\ attempts' = [attempts EXCEPT
         ![1].pending = @ \ {q},
         ![1].busy = @ \/ (~Head(attempts).spoiled
                             /\ session[q] = Head(attempts).session /\ held[q] # None)]
    /\ UNCHANGED <<session, held, generation, owners>>

\* Mutant: the result of the emission is not looked at.
AcceptedBusy(a) ==
    /\ session[a.by] = a.session /\ generation[a.by] = a.generation
    /\ ~a.spoiled /\ held[a.by] = None

\* Mutant: what was acquired during the emission is forgotten.
AcceptedTwice(a) ==
    /\ session[a.by] = a.session /\ generation[a.by] = a.generation
    /\ ~a.spoiled /\ ~a.busy

\* The checks after the emission.
Accepted(a) ==
    /\ session[a.by] = a.session /\ generation[a.by] = a.generation
    /\ ~a.spoiled /\ ~a.busy /\ held[a.by] = None

Grant(p, o) ==
    /\ held' = [held EXCEPT ![p] = o]
    /\ owners' = [owners EXCEPT ![p] = @ \cup {o}]

Acquired ==
    /\ attempts # <<>> /\ Head(attempts).pending = {} /\ Accepted(Head(attempts))
    /\ \E i \in FreshIds :
         Grant(Head(attempts).by, [id |-> i, binding |-> Head(attempts).generation])
    /\ attempts' = Tail(attempts)
    /\ UNCHANGED <<session, generation>>

NotAcquired ==
    /\ attempts # <<>> /\ Head(attempts).pending = {} /\ ~Accepted(Head(attempts))
    /\ attempts' = Tail(attempts)
    /\ UNCHANGED <<session, held, generation, owners>>

EmitThrows ==
    /\ attempts # <<>> /\ "throw" \in conduct
    /\ attempts' = Tail(attempts)
    /\ UNCHANGED <<session, held, generation, owners>>

\* A listener changes the session or the group of the attempt.
Spoil ==
    /\ attempts # <<>> /\ "spoil" \in conduct
    /\ attempts' = [attempts EXCEPT ![1].spoiled = TRUE]
    /\ UNCHANGED <<session, held, generation, owners>>

\* Release, by whoever kept the owner symbol, however old it is.
Release(p, o) ==
    /\ May("release") /\ o \in owners[p]
    /\ held' = IF held[p] = o THEN [held EXCEPT ![p] = None] ELSE held
    /\ UNCHANGED <<session, generation, attempts, owners>>

MutexNext ==
    /\ \/ \E p \in Participants, s \in Sessions : BindSession(p, s) \/ UnbindSession(p, s)
       \/ \E p \in Participants : Emit(p) \/ Answer(p)
       \/ Acquired \/ NotAcquired \/ EmitThrows \/ Spoil
       \/ \E p \in Participants : \E o \in owners[p] : Release(p, o)
    /\ UNCHANGED conduct

MutexSpec == MutexInit /\ [][MutexNext]_mutexVars

-----------------------------------------------------------------------------
(***************************************************************************)
(* Two participants never hold the group in the same session, whatever     *)
(* listeners do in the middle of an emission except to call acquire.       *)
(***************************************************************************)
MutualExclusion ==
    "acquire" \notin conduct =>
      \A p, q \in Participants :
        p # q /\ held[p] # None /\ held[q] # None => session[p] # session[q]

(***************************************************************************)
(* What is held was acquired for the session that is bound now: an         *)
(* acquisition that a session change overtook never comes through, not     *)
(* even when the old session is bound again.                               *)
(***************************************************************************)
OwnersAreCurrent ==
    \A p \in Participants : held[p] # None => held[p].binding = generation[p]

(***************************************************************************)
(* The group has one holder in a session, who acquired it for that session. *)
(***************************************************************************)
GroupIsSound == MutualExclusion /\ OwnersAreCurrent

(***************************************************************************)
(* A workflow that holds the group keeps it until its session changes or   *)
(* its own owner symbol is released: no release with an older symbol frees *)
(* the group, and no call of acquire, not even one that began before and   *)
(* ends now, gives it to a second owner.                                   *)
(***************************************************************************)
HeldUntilReleased ==
    [][\A p \in Participants :
         held[p] # None /\ held'[p] # held[p] =>
           /\ held'[p] = None
           /\ generation'[p] # generation[p] \/ Release(p, held[p])]_mutexVars

(***************************************************************************)
(* As long as listeners do as the protocol says, a refusal means that a    *)
(* workflow of the same session is at work.                                *)
(***************************************************************************)
RefusedOnlyWhenBusy ==
    [][NotAcquired /\ conduct = {} =>
         \E q \in Participants :
           held[q] # None /\ session[q] = session[Head(attempts).by]]_mutexVars
=============================================================================

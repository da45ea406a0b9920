--------------------------- MODULE Workflow_proofs ---------------------------
(***************************************************************************)
(* Proofs about WorkflowMutex: the types, the owners' freshness and, when  *)
(* no listener calls acquire in the middle of an emission, the mutual      *)
(* exclusion, for any number of participants, sessions and session changes.*)
(* Proofs about GoalRun, one of its two callers, for any limits, answers   *)
(* and messages: it holds the group exactly as long as a goal is active,   *)
(* what it has requested or sent is one thing, for the goal of now, and an *)
(* active goal that nothing has left alone always has something to go on   *)
(* with.                                                                   *)
(***************************************************************************)
EXTENDS WorkflowMutex, GoalRun, TLAPS, WellFoundedInduction

\* The mutex

(***************************************************************************)
(* What an emission has established so far: of the participants that have  *)
(* answered, none holds the group in the session of the attempt, unless    *)
(* the attempt is busy or spoiled.  This needs that nobody else acquires   *)
(* while the emission is under way.                                        *)
(***************************************************************************)
AnswersStand ==
    attempts # <<>> =>
      \A q \in Participants \ Head(attempts).pending :
        held[q] # None /\ session[q] = Head(attempts).session
          => Head(attempts).busy \/ Head(attempts).spoiled

AtMostOneAttempt == Len(attempts) <= 1

IInv ==
    /\ MutexTypeOK
    /\ "acquire" \notin conduct => AtMostOneAttempt /\ AnswersStand
    /\ MutualExclusion

-----------------------------------------------------------------------------
(***************************************************************************)
(* The conduct of the listeners is chosen once.                            *)
(***************************************************************************)
LEMMA ConductStays == [MutexNext]_mutexVars => conduct' = conduct
BY DEF MutexNext, mutexVars

(***************************************************************************)
(* The actions preserve the types, whatever listeners do.                  *)
(***************************************************************************)
LEMMA TypeInit == MutexInit => MutexTypeOK
BY WorkflowMutexAssumption DEF MutexInit, MutexTypeOK

LEMMA TypeStep == MutexTypeOK /\ [MutexNext]_mutexVars => MutexTypeOK'
<1> SUFFICES ASSUME MutexTypeOK, [MutexNext]_mutexVars PROVE MutexTypeOK'
  OBVIOUS
<1> conduct' = conduct
  BY ConductStays
<1> USE WorkflowMutexAssumption DEF MutexTypeOK
<1>1. ASSUME NEW p \in Participants, NEW s \in Sessions, BindSession(p, s)
      PROVE  MutexTypeOK'
  BY <1>1 DEF BindSession
<1>2. ASSUME NEW p \in Participants, NEW s \in Sessions, UnbindSession(p, s)
      PROVE  MutexTypeOK'
  BY <1>2 DEF UnbindSession
<1>3. ASSUME NEW p \in Participants, Emit(p) PROVE MutexTypeOK'
  <2> DEFINE a == [by |-> p, session |-> session[p], generation |-> generation[p],
                   busy |-> FALSE, spoiled |-> FALSE, pending |-> Participants]
  <2>1. a \in Attempt
    BY <1>3 DEF Emit, Attempt
  <2>2. attempts' = <<a>> \o attempts
    BY <1>3 DEF Emit
  <2>3. attempts' \in Seq(Attempt)
    BY <2>1, <2>2
  <2> QED
    BY <1>3, <2>3 DEF Emit
<1>4. ASSUME NEW p \in Participants, Answer(p) PROVE MutexTypeOK'
  <2> DEFINE a == [Head(attempts) EXCEPT
                     !.pending = @ \ {p},
                     !.busy = @ \/ (~Head(attempts).spoiled
                                      /\ session[p] = Head(attempts).session
                                      /\ held[p] # None)]
  <2>1. Len(attempts) \in Nat /\ 1 \in 1..Len(attempts) /\ attempts[1] = Head(attempts)
        /\ Head(attempts) \in Attempt
    BY <1>4 DEF Answer
  <2>2. a \in Attempt
    BY <2>1 DEF Attempt
  <2>3. attempts' = [attempts EXCEPT ![1] = a]
    BY <1>4, <2>1 DEF Answer, Attempt
  <2>4. attempts' \in Seq(Attempt)
    BY <2>1, <2>2, <2>3
  <2> QED
    BY <1>4, <2>4 DEF Answer
<1>5. ASSUME Acquired PROVE MutexTypeOK'
  <2>1. PICK i \in FreshIds :
          Grant(Head(attempts).by, [id |-> i, binding |-> Head(attempts).generation])
    BY <1>5 DEF Acquired
  <2>2. Head(attempts) \in Attempt /\ Tail(attempts) \in Seq(Attempt)
    BY <1>5 DEF Acquired
  <2>3. [id |-> i, binding |-> Head(attempts).generation] \in Owner
    BY <2>1, <2>2 DEF Owner, Attempt, FreshIds
  <2> QED
    BY <1>5, <2>1, <2>2, <2>3 DEF Acquired, Grant, Attempt
<1>6. ASSUME NotAcquired PROVE MutexTypeOK'
  BY <1>6 DEF NotAcquired
<1>7. ASSUME EmitThrows PROVE MutexTypeOK'
  BY <1>7 DEF EmitThrows
<1>8. ASSUME Spoil PROVE MutexTypeOK'
  <2>1. Len(attempts) \in Nat /\ 1 \in 1..Len(attempts) /\ attempts[1] = Head(attempts)
        /\ Head(attempts) \in Attempt
    BY <1>8 DEF Spoil
  <2>2. [Head(attempts) EXCEPT !.spoiled = TRUE] \in Attempt
    BY <2>1 DEF Attempt
  <2> QED
    BY <1>8, <2>1, <2>2 DEF Spoil
<1>9. ASSUME NEW p \in Participants, NEW o \in owners[p], Release(p, o) PROVE MutexTypeOK'
  BY <1>9 DEF Release
<1>10. CASE UNCHANGED mutexVars
  BY <1>10 DEF mutexVars
<1> QED
  BY <1>1, <1>2, <1>3, <1>4, <1>5, <1>6, <1>7, <1>8, <1>9, <1>10 DEF MutexNext

(***************************************************************************)
(* Type correctness of the mutex, for every value of the constants.        *)
(***************************************************************************)
THEOREM TypeCorrect == MutexSpec => []MutexTypeOK
BY TypeInit, TypeStep, PTL DEF MutexSpec

-----------------------------------------------------------------------------
(***************************************************************************)
(* A session change clears what is held, and an emission that it overtook  *)
(* is refused by the check of the generation: so every holder acquired for *)
(* its present session, for any nesting of emissions.                      *)
(***************************************************************************)
LEMMA CurrentStep ==
  MutexTypeOK /\ OwnersAreCurrent /\ [MutexNext]_mutexVars => OwnersAreCurrent'
<1> SUFFICES ASSUME MutexTypeOK, OwnersAreCurrent, [MutexNext]_mutexVars
             PROVE  OwnersAreCurrent'
  OBVIOUS
<1> USE DEF MutexTypeOK, OwnersAreCurrent
<1>1. ASSUME NEW p \in Participants, NEW s \in Sessions, BindSession(p, s)
      PROVE  OwnersAreCurrent'
  BY <1>1 DEF BindSession
<1>2. ASSUME NEW p \in Participants, NEW s \in Sessions, UnbindSession(p, s)
      PROVE  OwnersAreCurrent'
  BY <1>2 DEF UnbindSession
<1>3. ASSUME Acquired PROVE OwnersAreCurrent'
  <2>1. PICK i \in FreshIds :
          Grant(Head(attempts).by, [id |-> i, binding |-> Head(attempts).generation])
    BY <1>3 DEF Acquired
  <2>2. generation[Head(attempts).by] = Head(attempts).generation /\ generation' = generation
    BY <1>3 DEF Acquired, Accepted
  <2> QED
    BY <2>1, <2>2 DEF Grant
<1>4. ASSUME NEW p \in Participants, NEW o \in owners[p], Release(p, o)
      PROVE  OwnersAreCurrent'
  BY <1>4 DEF Release
<1>5. ASSUME NEW p \in Participants, Emit(p) \/ Answer(p) PROVE OwnersAreCurrent'
  BY <1>5 DEF Emit, Answer
<1>6. CASE NotAcquired \/ EmitThrows \/ Spoil \/ UNCHANGED mutexVars
  BY <1>6 DEF NotAcquired, EmitThrows, Spoil, mutexVars
<1> QED
  BY <1>1, <1>2, <1>3, <1>4, <1>5, <1>6 DEF MutexNext

(***************************************************************************)
(* No acquisition comes through for a session that was left meanwhile.     *)
(***************************************************************************)
THEOREM CurrentCorrect == MutexSpec => []OwnersAreCurrent
<1>1. MutexInit => OwnersAreCurrent
  BY DEF MutexInit, OwnersAreCurrent
<1> QED
  BY <1>1, TypeInit, TypeStep, CurrentStep, PTL DEF MutexSpec

-----------------------------------------------------------------------------
(***************************************************************************)
(* A step that takes the group from a holder is a session change or the    *)
(* release of its owner: the check of heldGroups after the emission        *)
(* refuses a second owner, and isOwner an older one.                       *)
(***************************************************************************)
LEMMA KeepStep ==
  ASSUME MutexTypeOK, MutexNext, NEW q \in Participants, held[q] # None, held'[q] # held[q]
  PROVE  /\ held'[q] = None
         /\ generation'[q] # generation[q] \/ Release(q, held[q])
<1> DEFINE Goal == /\ held'[q] = None
                   /\ generation'[q] # generation[q] \/ Release(q, held[q])
<1> USE WorkflowMutexAssumption DEF MutexTypeOK
<1>1. ASSUME NEW p \in Participants, NEW s \in Sessions,
             BindSession(p, s) \/ UnbindSession(p, s)
      PROVE  Goal
  BY <1>1 DEF BindSession, UnbindSession
<1>2. ASSUME Acquired PROVE FALSE
  <2>1. PICK i \in FreshIds :
          Grant(Head(attempts).by, [id |-> i, binding |-> Head(attempts).generation])
    BY <1>2 DEF Acquired
  <2>2. held[Head(attempts).by] = None
    BY <1>2 DEF Acquired, Accepted
  <2> QED
    BY <2>1, <2>2 DEF Grant
<1>3. ASSUME NEW p \in Participants, NEW o \in owners[p], Release(p, o) PROVE Goal
  <2>1. p = q /\ held[q] = o
    BY <1>3 DEF Release
  <2> QED
    BY <1>3, <2>1 DEF Release
<1>4. ASSUME NEW p \in Participants, Emit(p) \/ Answer(p) PROVE FALSE
  BY <1>4 DEF Emit, Answer
<1>5. ASSUME NotAcquired \/ EmitThrows \/ Spoil PROVE FALSE
  BY <1>5 DEF NotAcquired, EmitThrows, Spoil
<1> QED
  BY <1>1, <1>2, <1>3, <1>4, <1>5 DEF MutexNext

(***************************************************************************)
(* The group of a working participant is neither freed by a stale release  *)
(* nor given to a second owner, for any nesting of emissions.              *)
(***************************************************************************)
THEOREM HeldCorrect == MutexSpec => HeldUntilReleased
<1>1. MutexTypeOK /\ [MutexNext]_mutexVars =>
        [\A p \in Participants :
           held[p] # None /\ held'[p] # held[p] =>
             /\ held'[p] = None
             /\ generation'[p] # generation[p] \/ Release(p, held[p])]_mutexVars
  BY KeepStep
<1> QED
  BY <1>1, TypeInit, TypeStep, PTL DEF MutexSpec, HeldUntilReleased

-----------------------------------------------------------------------------
(***************************************************************************)
(* Mutual exclusion, when no listener calls acquire.                       *)
(***************************************************************************)
LEMMA ExclusionInit == MutexInit => IInv
BY TypeInit DEF MutexInit, IInv, AtMostOneAttempt, AnswersStand, MutualExclusion

LEMMA OneAttemptStep ==
  ASSUME "acquire" \notin conduct, MutexTypeOK, AtMostOneAttempt, [MutexNext]_mutexVars
  PROVE  AtMostOneAttempt'
<1> USE DEF MutexTypeOK, AtMostOneAttempt
<1>1. ASSUME NEW p \in Participants, Emit(p) PROVE AtMostOneAttempt'
  <2>1. attempts = <<>>
    BY <1>1 DEF Emit, May
  <2> QED
    BY <1>1, <2>1 DEF Emit
<1>2. ASSUME NEW p \in Participants, Answer(p) PROVE AtMostOneAttempt'
  BY <1>2 DEF Answer
<1>3. CASE Spoil
  BY <1>3 DEF Spoil
<1>4. CASE Acquired \/ NotAcquired \/ EmitThrows
  BY <1>4 DEF Acquired, NotAcquired, EmitThrows
<1>5. ASSUME NEW p \in Participants, NEW s \in Sessions,
             BindSession(p, s) \/ UnbindSession(p, s)
      PROVE  AtMostOneAttempt'
  BY <1>5 DEF BindSession, UnbindSession
<1>6. ASSUME NEW p \in Participants, NEW o \in owners[p], Release(p, o)
      PROVE  AtMostOneAttempt'
  BY <1>6 DEF Release
<1>7. CASE UNCHANGED mutexVars
  BY <1>7 DEF mutexVars
<1> QED
  BY <1>1, <1>2, <1>3, <1>4, <1>5, <1>6, <1>7 DEF MutexNext

(***************************************************************************)
(* The answers stand: who has answered does not become a holder, and a     *)
(* new emission starts with nobody having answered.                        *)
(***************************************************************************)
LEMMA AnswersStep ==
  ASSUME MutexTypeOK, AtMostOneAttempt, AnswersStand, [MutexNext]_mutexVars
  PROVE  AnswersStand'
<1> USE DEF MutexTypeOK, AtMostOneAttempt, AnswersStand
<1>1. ASSUME NEW p \in Participants, NEW s \in Sessions, BindSession(p, s)
      PROVE  AnswersStand'
  BY <1>1 DEF BindSession
<1>2. ASSUME NEW p \in Participants, NEW s \in Sessions, UnbindSession(p, s)
      PROVE  AnswersStand'
  BY <1>2 DEF UnbindSession
<1>3. ASSUME NEW p \in Participants, Emit(p) PROVE AnswersStand'
  <2> DEFINE a == [by |-> p, session |-> session[p], generation |-> generation[p],
                   busy |-> FALSE, spoiled |-> FALSE, pending |-> Participants]
  <2>1. attempts' = <<a>> \o attempts
    BY <1>3 DEF Emit
  <2>2. Head(attempts') = a
    BY <2>1
  <2> QED
    BY <2>2
<1>4. ASSUME NEW q \in Participants, Answer(q) PROVE AnswersStand'
  <2> DEFINE a == Head(attempts)
  <2>1. a \in Attempt /\ a = attempts[1] /\ 1 \in DOMAIN attempts
    BY <1>4 DEF Answer
  <2>2. attempts' = [attempts EXCEPT ![1] =
          [a EXCEPT !.pending = @ \ {q},
                    !.busy = @ \/ (~a.spoiled /\ session[q] = a.session /\ held[q] # None)]]
    BY <1>4, <2>1 DEF Answer, Attempt
  <2>3. attempts' # <<>> /\ Head(attempts') = attempts'[1]
    BY <2>1, <2>2
  <2>4. /\ Head(attempts').pending = a.pending \ {q}
        /\ Head(attempts').session = a.session
        /\ Head(attempts').spoiled = a.spoiled
        /\ Head(attempts').busy =
             (a.busy \/ (~a.spoiled /\ session[q] = a.session /\ held[q] # None))
    BY <2>1, <2>2, <2>3 DEF Attempt
  <2>5. held' = held /\ session' = session /\ attempts # <<>>
    BY <1>4 DEF Answer
  <2>6. SUFFICES ASSUME NEW r \in Participants \ Head(attempts').pending,
                        held[r] # None, session[r] = a.session
                 PROVE  Head(attempts').busy \/ Head(attempts').spoiled
    BY <2>4, <2>5
  <2>7. CASE r = q
    BY <2>4, <2>6, <2>7
  <2>8. CASE r # q
    BY <2>4, <2>5, <2>6, <2>8
  <2> QED
    BY <2>7, <2>8
<1>5. CASE Acquired \/ NotAcquired \/ EmitThrows
  <2>1. attempts' = <<>>
    BY <1>5 DEF Acquired, NotAcquired, EmitThrows
  <2> QED
    BY <2>1
<1>6. CASE Spoil
  <2>1. 1 \in DOMAIN attempts /\ attempts[1] \in Attempt
    BY <1>6 DEF Spoil
  <2>2. attempts' # <<>> /\ Head(attempts').spoiled
    BY <1>6, <2>1 DEF Spoil, Attempt
  <2> QED
    BY <2>2
<1>7. ASSUME NEW p \in Participants, NEW o \in owners[p], Release(p, o)
      PROVE  AnswersStand'
  BY <1>7 DEF Release
<1>8. CASE UNCHANGED mutexVars
  BY <1>8 DEF mutexVars
<1> QED
  BY <1>1, <1>2, <1>3, <1>4, <1>5, <1>6, <1>7, <1>8 DEF MutexNext

(***************************************************************************)
(* Only an acquisition makes a holder, and it is accepted only if nobody   *)
(* answered that it is one in the same session.                            *)
(***************************************************************************)
LEMMA ExclusionStep ==
  ASSUME "acquire" \notin conduct, MutexTypeOK, AnswersStand, MutualExclusion,
         [MutexNext]_mutexVars
  PROVE  MutualExclusion'
<1> conduct' = conduct
  BY ConductStays
<1> USE DEF MutexTypeOK, MutualExclusion
<1>1. ASSUME NEW p \in Participants, NEW s \in Sessions, BindSession(p, s)
      PROVE  MutualExclusion'
  BY <1>1 DEF BindSession
<1>2. ASSUME NEW p \in Participants, NEW s \in Sessions, UnbindSession(p, s)
      PROVE  MutualExclusion'
  BY <1>2 DEF UnbindSession
<1>3. ASSUME Acquired PROVE MutualExclusion'
  <2> DEFINE a == Head(attempts)
  <2>1. /\ attempts # <<>> /\ a.pending = {} /\ ~a.busy /\ ~a.spoiled
        /\ session[a.by] = a.session /\ session' = session
    BY <1>3 DEF Acquired, Accepted
  <2>2. \A q \in Participants : held[q] # None => session[q] # session[a.by]
    BY <2>1 DEF AnswersStand
  <2>3. \A q \in Participants \ {a.by} : held'[q] = held[q]
    BY <1>3 DEF Acquired, Grant
  <2> QED
    BY <2>1, <2>2, <2>3
<1>4. ASSUME NEW p \in Participants, NEW o \in owners[p], Release(p, o)
      PROVE  MutualExclusion'
  BY <1>4 DEF Release
<1>5. ASSUME NEW p \in Participants, Emit(p) \/ Answer(p) PROVE MutualExclusion'
  BY <1>5 DEF Emit, Answer
<1>6. CASE NotAcquired \/ EmitThrows \/ Spoil \/ UNCHANGED mutexVars
  BY <1>6 DEF NotAcquired, EmitThrows, Spoil, mutexVars
<1> QED
  BY <1>1, <1>2, <1>3, <1>4, <1>5, <1>6 DEF MutexNext

(***************************************************************************)
(* At most one workflow of a session is at work: session changes, stale    *)
(* releases and spoiled attempts in the middle of an emission included, as *)
(* long as no listener calls acquire there.                                *)
(***************************************************************************)
THEOREM ExclusionCorrect == MutexSpec => []MutualExclusion
<1>1. IInv /\ [MutexNext]_mutexVars => IInv'
  <2> SUFFICES ASSUME IInv, [MutexNext]_mutexVars PROVE IInv'
    OBVIOUS
  <2>1. MutexTypeOK' /\ conduct' = conduct
    BY TypeStep, ConductStays DEF IInv
  <2>2. CASE "acquire" \in conduct
    BY <2>1, <2>2 DEF IInv, MutualExclusion
  <2>3. CASE "acquire" \notin conduct
    BY <2>1, <2>3, OneAttemptStep, AnswersStep, ExclusionStep DEF IInv
  <2> QED
    BY <2>2, <2>3
<1>2. IInv => MutualExclusion
  BY DEF IInv
<1> QED
  BY <1>1, <1>2, ExclusionInit, PTL DEF MutexSpec

(***************************************************************************)
(* The group has one holder in a session, who acquired it for that session, *)
(* for any participants, sessions and nesting of emissions.                *)
(***************************************************************************)
THEOREM GroupCorrect == MutexSpec => []GroupIsSound
BY ExclusionCorrect, CurrentCorrect, PTL DEF GroupIsSound
-----------------------------------------------------------------------------
(***************************************************************************)
(* When listeners only answer, nothing but answers happens in the middle   *)
(* of an emission: the attempt finds its session, its generation and its   *)
(* empty group unchanged, and busy means that the holder is still there.   *)
(***************************************************************************)
Undisturbed ==
    attempts # <<>> =>
      /\ ~Head(attempts).spoiled
      /\ session[Head(attempts).by] = Head(attempts).session
      /\ generation[Head(attempts).by] = Head(attempts).generation
      /\ held[Head(attempts).by] = None
      /\ Head(attempts).busy =>
           \E q \in Participants : held[q] # None /\ session[q] = Head(attempts).session

QuietInv == MutexTypeOK /\ (conduct = {} => AtMostOneAttempt /\ Undisturbed)

LEMMA UndisturbedStep ==
  ASSUME conduct = {}, MutexTypeOK, AtMostOneAttempt, Undisturbed, [MutexNext]_mutexVars
  PROVE  Undisturbed'
<1> USE DEF MutexTypeOK, AtMostOneAttempt, Undisturbed
<1>1. ASSUME NEW p \in Participants, NEW s \in Sessions,
             BindSession(p, s) \/ UnbindSession(p, s)
      PROVE  Undisturbed'
  <2>1. attempts' = <<>>
    BY <1>1 DEF BindSession, UnbindSession, May
  <2> QED
    BY <2>1
<1>2. ASSUME NEW p \in Participants, NEW o \in owners[p], Release(p, o)
      PROVE  Undisturbed'
  <2>1. attempts' = <<>>
    BY <1>2 DEF Release, May
  <2> QED
    BY <2>1
<1>3. ASSUME NEW p \in Participants, Emit(p) PROVE Undisturbed'
  <2> DEFINE a == [by |-> p, session |-> session[p], generation |-> generation[p],
                   busy |-> FALSE, spoiled |-> FALSE, pending |-> Participants]
  <2>1. attempts' = <<a>> \o attempts
    BY <1>3 DEF Emit
  <2>2. Head(attempts') = a
    BY <2>1
  <2> QED
    BY <1>3, <2>2 DEF Emit
<1>4. ASSUME NEW q \in Participants, Answer(q) PROVE Undisturbed'
  <2> DEFINE a == Head(attempts)
  <2>1. a \in Attempt /\ a = attempts[1] /\ 1 \in DOMAIN attempts
    BY <1>4 DEF Answer
  <2>2. attempts' = [attempts EXCEPT ![1] =
          [a EXCEPT !.pending = @ \ {q},
                    !.busy = @ \/ (~a.spoiled /\ session[q] = a.session /\ held[q] # None)]]
    BY <1>4, <2>1 DEF Answer, Attempt
  <2>3. attempts' # <<>> /\ Head(attempts') = attempts'[1]
    BY <2>1, <2>2
  <2>4. /\ Head(attempts').by = a.by /\ Head(attempts').session = a.session
        /\ Head(attempts').generation = a.generation
        /\ Head(attempts').spoiled = a.spoiled
        /\ Head(attempts').busy =
             (a.busy \/ (~a.spoiled /\ session[q] = a.session /\ held[q] # None))
    BY <2>1, <2>2, <2>3 DEF Attempt
  <2>5. UNCHANGED <<held, session, generation>> /\ attempts # <<>>
    BY <1>4 DEF Answer
  <2>6. Head(attempts').busy =>
          \E r \in Participants : held[r] # None /\ session[r] = a.session
    BY <2>4, <2>5
  <2> QED
    BY <2>4, <2>5, <2>6
<1>5. CASE Acquired \/ NotAcquired \/ EmitThrows
  <2>1. attempts' = <<>>
    BY <1>5 DEF Acquired, NotAcquired, EmitThrows
  <2> QED
    BY <2>1
<1>6. CASE Spoil
  BY <1>6 DEF Spoil
<1>7. CASE UNCHANGED mutexVars
  BY <1>7 DEF mutexVars
<1> QED
  BY <1>1, <1>2, <1>3, <1>4, <1>5, <1>6, <1>7 DEF MutexNext

(***************************************************************************)
(* A refusal is due to a workflow at work in the same session, as long as  *)
(* listeners do as the protocol says: of the five checks after the         *)
(* emission only the one of busy can fail, and who answered still holds.   *)
(***************************************************************************)
THEOREM RefusalCorrect == MutexSpec => RefusedOnlyWhenBusy
<1>1. MutexInit => QuietInv
  BY TypeInit DEF MutexInit, QuietInv, AtMostOneAttempt, Undisturbed
<1>2. QuietInv /\ [MutexNext]_mutexVars => QuietInv'
  BY TypeStep, ConductStays, OneAttemptStep, UndisturbedStep DEF QuietInv
<1>3. QuietInv /\ [MutexNext]_mutexVars =>
        [NotAcquired /\ conduct = {} =>
           \E q \in Participants :
             held[q] # None /\ session[q] = session[Head(attempts).by]]_mutexVars
  <2> SUFFICES ASSUME QuietInv, NotAcquired, conduct = {}
               PROVE  \E q \in Participants :
                        held[q] # None /\ session[q] = session[Head(attempts).by]
    OBVIOUS
  <2>1. attempts # <<>> /\ Undisturbed /\ ~Accepted(Head(attempts))
    BY DEF NotAcquired, QuietInv
  <2>2. Head(attempts).busy
    BY <2>1 DEF Undisturbed, Accepted
  <2> QED
    BY <2>1, <2>2 DEF Undisturbed
<1> QED
  BY <1>1, <1>2, <1>3, PTL DEF MutexSpec, RefusedOnlyWhenBusy

-----------------------------------------------------------------------------
(***************************************************************************)
(* The goal runtime.  What a handler does to the runtime is an operator    *)
(* from records to records, so the proof goes operator by operator: each   *)
(* keeps the status of the goal and the owner of the group, or stops the   *)
(* goal and gives the group back, or starts a goal that holds the group.   *)
(* Nothing is asked of the other fields, nor of the messages of Pi.        *)
(***************************************************************************)
IsGoal(g) ==
    /\ g \in [id : {g.id}, status : Statuses, waiting : {g.waiting}, turns : {g.turns},
              repeats : {g.repeats}, spent : {g.spent}, reset : {g.reset}]
    /\ g.status = "none" => g = NoGoal

IsRuntime(r) ==
    /\ r \in [goal : {r.goal}, intent : {r.intent}, delivery : {r.delivery},
              timer : {r.timer}, recovery : {r.recovery}, run : {r.run}, guard : {r.guard},
              stale : {r.stale}, inputs : {r.inputs}, retry : {r.retry}, alarm : {r.alarm},
              due : {r.due}, exhausted : {r.exhausted}, owner : {"none", "goal", "other"},
              saved : {r.saved}, queue : {r.queue}, aborting : {r.aborting}]
    /\ IsGoal(r.goal) /\ IsGoal(r.saved)
    /\ r.run = [id |-> r.run.id, auto |-> r.run.auto, tool |-> r.run.tool]

\* The session has the status of the goal.
Sound(r) == IsRuntime(r) /\ r.saved.status = r.goal.status

Follows(r) == (r.owner = "goal") <=> Active(r)

\* s is r as far as the group is concerned.
SameGroup(r, s) ==
    /\ IsRuntime(s) /\ s.owner = r.owner /\ s.goal.status = r.goal.status
    /\ s.saved.status \in {r.saved.status, s.goal.status}

Released(s) == Sound(s) /\ ~Active(s) /\ s.owner # "goal"
Holds(s) == Sound(s) /\ Active(s) /\ s.owner = "goal"

\* What handlers do that start no goal.
Moves(r, s) == SameGroup(r, s) \/ Released(s)

LEMMA SameGroupIs ==
  ASSUME NEW r, NEW s, SameGroup(r, s)
  PROVE  IsRuntime(s) /\ s.goal.status = r.goal.status /\ s.owner = r.owner
BY DEF SameGroup

LEMMA MovesFollow ==
  ASSUME NEW r, NEW s, Sound(r), Moves(r, s)
  PROVE  Sound(s) /\ (Follows(r) => Follows(s)) /\ (Active(s) => Active(r))
BY DEF Moves, SameGroup, Released, Sound, Follows, Active

LEMMA MovesCompose ==
  ASSUME NEW r, NEW s, NEW t, Moves(r, s), Moves(s, t)
  PROVE  Moves(r, t)
BY DEF Moves, SameGroup, Released, Sound, Active

LEMMA GoalValues ==
  /\ IsGoal(NoGoal)
  /\ \A id : IsGoal(NewGoal(id)) /\ NewGoal(id).status = "active"
BY DEF IsGoal, NoGoal, NewGoal, Statuses

(***************************************************************************)
(* The operators that write neither the status nor the owner.              *)
(***************************************************************************)
LEMMA PersistKeeps ==
  ASSUME NEW r, IsRuntime(r)
  PROVE  /\ SameGroup(r, Persist(r)) /\ Sound(Persist(r))
         /\ Persist(r).goal = r.goal
<1>1. SameGroup(r, Persist(r)) /\ Persist(r).goal = r.goal
  BY DEF Persist, SameGroup, IsRuntime
<1>2. Persist(r).saved = r.goal
  BY DEF Persist, IsRuntime
<1> QED
  BY <1>1, <1>2 DEF SameGroup, Sound

LEMMA FieldsKeep ==
  ASSUME NEW r, IsRuntime(r)
  PROVE  /\ \A v : SameGroup(r, [r EXCEPT !.timer = v]) /\ SameGroup(r, [r EXCEPT !.intent = v])
         /\ \A v : SameGroup(r, [r EXCEPT !.recovery = v]) /\ SameGroup(r, [r EXCEPT !.stale = v])
         /\ \A v : SameGroup(r, [r EXCEPT !.aborting = v]) /\ SameGroup(r, [r EXCEPT !.guard = v])
         /\ \A v : SameGroup(r, [r EXCEPT !.queue = v]) /\ SameGroup(r, [r EXCEPT !.inputs = v])
         /\ \A v : SameGroup(r, [r EXCEPT !.exhausted = v]) /\ SameGroup(r, [r EXCEPT !.run = NoRun])
<1> USE DEF SameGroup, IsRuntime
<1>1. \A v : SameGroup(r, [r EXCEPT !.timer = v]) /\ SameGroup(r, [r EXCEPT !.intent = v])
  OBVIOUS
<1>2. \A v : SameGroup(r, [r EXCEPT !.recovery = v]) /\ SameGroup(r, [r EXCEPT !.stale = v])
  OBVIOUS
<1>3. \A v : SameGroup(r, [r EXCEPT !.aborting = v]) /\ SameGroup(r, [r EXCEPT !.guard = v])
  OBVIOUS
<1>4. \A v : SameGroup(r, [r EXCEPT !.queue = v]) /\ SameGroup(r, [r EXCEPT !.inputs = v])
  OBVIOUS
<1>5. \A v : SameGroup(r, [r EXCEPT !.exhausted = v])
  OBVIOUS
<1>6. SameGroup(r, [r EXCEPT !.run = NoRun])
  BY DEF NoRun
<1> HIDE DEF SameGroup, IsRuntime
<1> QED
  BY <1>1, <1>2, <1>3, <1>4, <1>5, <1>6

LEMMA QuietKeeps ==
  ASSUME NEW r, IsRuntime(r)
  PROVE  /\ SameGroup(r, Abort(r))
         /\ \A i : SameGroup(r, Dequeue(r, i))
         /\ SameGroup(r, CancelContinuation(r)) /\ CancelContinuation(r).goal = r.goal
         /\ SameGroup(r, ClearWaitTimer(r)) /\ ClearWaitTimer(r).goal = r.goal
         /\ SameGroup(r, RestoreWaitTimer(r)) /\ RestoreWaitTimer(r).goal = r.goal
         /\ \A id, auto : SameGroup(r, BeginRun(r, id, auto))
<1> USE DEF SameGroup, IsRuntime
<1>1. SameGroup(r, Abort(r))
  BY DEF Abort
<1>2. \A i : SameGroup(r, Dequeue(r, i))
  BY DEF Dequeue
<1>3. SameGroup(r, CancelContinuation(r)) /\ CancelContinuation(r).goal = r.goal
  BY DEF CancelContinuation
<1>4. SameGroup(r, ClearWaitTimer(r)) /\ ClearWaitTimer(r).goal = r.goal
  BY DEF ClearWaitTimer
<1>5. SameGroup(r, RestoreWaitTimer(r)) /\ RestoreWaitTimer(r).goal = r.goal
  BY DEF RestoreWaitTimer, ClearWaitTimer
<1>6. ASSUME NEW id, NEW auto PROVE SameGroup(r, BeginRun(r, id, auto))
  BY DEF BeginRun
<1> HIDE DEF SameGroup, IsRuntime
<1> QED
  BY <1>1, <1>2, <1>3, <1>4, <1>5, <1>6

LEMMA RecordKeeps ==
  ASSUME NEW r, IsRuntime(r)
  PROVE  SameGroup(r, RecordUsage(r)) /\ (r.goal = NoGoal => RecordUsage(r) = r)
BY DEF RecordUsage, SameGroup, IsRuntime, IsGoal

LEMMA SameGroupComposes ==
  ASSUME NEW r, NEW s, NEW t, SameGroup(r, s), SameGroup(s, t)
  PROVE  SameGroup(r, t)
BY DEF SameGroup

\* A goal that is there may change, as long as its status does not.
LEMMA GoalKeeps ==
  ASSUME NEW r, IsRuntime(r), r.goal.status # "none"
  PROVE  /\ \A v : SameGroup(r, [r EXCEPT !.goal.waiting = v])
         /\ \A v : SameGroup(r, [r EXCEPT !.goal.turns = v])
         /\ \A v : SameGroup(r, [r EXCEPT !.goal.repeats = v])
         /\ SameGroup(r, [r EXCEPT !.goal = Fresh(@)])
<1> USE DEF SameGroup, IsRuntime, IsGoal
<1>1. \A v : SameGroup(r, [r EXCEPT !.goal.waiting = v])
  OBVIOUS
<1>2. \A v : SameGroup(r, [r EXCEPT !.goal.turns = v])
  OBVIOUS
<1>3. \A v : SameGroup(r, [r EXCEPT !.goal.repeats = v])
  OBVIOUS
<1>4. SameGroup(r, [r EXCEPT !.goal = Fresh(@)])
  BY DEF Fresh
<1> HIDE DEF SameGroup, IsRuntime, IsGoal
<1> QED
  BY <1>1, <1>2, <1>3, <1>4

LEMMA EnterWaitKeeps ==
  ASSUME NEW r, IsRuntime(r), r.goal.status # "none", NEW waiting
  PROVE  SameGroup(r, EnterGoalWait(r, waiting))
<1> DEFINE s == CancelContinuation(RecordUsage(r))
           t == [s EXCEPT !.recovery = NoRecovery, !.goal.waiting = waiting]
<1>1. SameGroup(r, s)
  BY RecordKeeps, QuietKeeps, SameGroupComposes DEF SameGroup
<1>2. SameGroup(s, t)
  BY <1>1 DEF SameGroup, IsRuntime, IsGoal
<1>3. SameGroup(t, Persist(t)) /\ SameGroup(Persist(t), RestoreWaitTimer(Persist(t)))
  BY <1>2, PersistKeeps, QuietKeeps DEF SameGroup
<1> HIDE DEF s, t
<1>4. SameGroup(r, RestoreWaitTimer(Persist(t)))
  BY <1>1, <1>2, <1>3, SameGroupComposes
<1> QED
  BY <1>4 DEF EnterGoalWait, s, t

LEMMA ClearWaitKeeps ==
  ASSUME NEW r, IsRuntime(r)
  PROVE  SameGroup(r, ClearGoalWait(r))
<1> DEFINE s == [ClearWaitTimer(r) EXCEPT !.goal.waiting = "no", !.due = FALSE]
<1>1. CASE Owns(r) /\ Waits(r)
  <2> DEFINE w == ClearWaitTimer(r)
  <2>0. SameGroup(r, w) /\ w.goal.status # "none"
    BY <1>1, QuietKeeps DEF Owns, Active
  <2> HIDE DEF w
  <2>01. SameGroup(w, [w EXCEPT !.goal.waiting = "no", !.due = FALSE])
    BY <2>0 DEF SameGroup, IsRuntime, IsGoal
  <2>1. SameGroup(r, s)
    BY <2>0, <2>01, SameGroupComposes DEF w
  <2>2. SameGroup(s, Persist(s))
    BY <2>1, PersistKeeps DEF SameGroup
  <2> HIDE DEF s
  <2>3. SameGroup(r, Persist(s))
    BY <2>1, <2>2, SameGroupComposes
  <2> QED
    BY <1>1, <2>3 DEF ClearGoalWait, s
<1>2. CASE ~(Owns(r) /\ Waits(r))
  BY <1>2 DEF ClearGoalWait, SameGroup
<1> QED
  BY <1>1, <1>2

LEMMA ResetKeeps ==
  ASSUME NEW r, IsRuntime(r)
  PROVE  SameGroup(r, ResetEpoch(r))
<1> DEFINE s == [r EXCEPT !.goal = Fresh(@), !.run.auto = FALSE]
<1>1. CASE Active(r)
  <2>1. SameGroup(r, s)
    BY <1>1 DEF Active, SameGroup, IsRuntime, IsGoal, Fresh
  <2>2. SameGroup(s, Persist(s))
    BY <2>1, PersistKeeps DEF SameGroup
  <2> HIDE DEF s
  <2>3. SameGroup(r, Persist(s))
    BY <2>1, <2>2, SameGroupComposes
  <2> QED
    BY <1>1, <2>3 DEF ResetEpoch, s
<1>2. CASE ~Active(r)
  BY <1>2 DEF ResetEpoch, SameGroup
<1> QED
  BY <1>1, <1>2

LEMMA FollowUpKeeps ==
  ASSUME NEW r, IsRuntime(r), NEW resets
  PROVE  SameGroup(r, FollowUp(r, resets))
<1> DEFINE s == [r EXCEPT !.recovery = NoRecovery, !.stale = FALSE]
           run == BeginRun(s, IF Active(r) THEN r.goal.id ELSE Foreign, FALSE)
<1>1. SameGroup(r, s)
  BY DEF SameGroup, IsRuntime
<1>2. SameGroup(s, run)
  <2> DEFINE id == IF Active(r) THEN r.goal.id ELSE Foreign
  <2> HIDE DEF s, id
  <2>1. \A auto : SameGroup(s, BeginRun(s, id, auto))
    BY <1>1, QuietKeeps DEF SameGroup
  <2> QED
    BY <2>1, Zenon DEF id
<1> HIDE DEF s, run
<1>3. SameGroup(r, run) /\ SameGroup(r, ResetEpoch(run))
  BY <1>1, <1>2, ResetKeeps, SameGroupComposes DEF SameGroup
<1> QED
  BY <1>3 DEF FollowUp, s, run

LEMMA RequestKeeps ==
  ASSUME NEW r, IsRuntime(r)
  PROVE  SameGroup(r, RequestContinuation(r))
<1>1. SameGroup(r, r)
  BY DEF SameGroup
<1> DEFINE id == r.goal.id
           requested == [r EXCEPT !.intent = id]
<1>2. SameGroup(r, requested)
  <2> HIDE DEF id
  <2> QED
    BY FieldsKeep
<1>3. RequestContinuation(r) = r \/ RequestContinuation(r) = requested
  BY DEF RequestContinuation
<1> HIDE DEF requested
<1> QED
  BY <1>1, <1>2, <1>3

(***************************************************************************)
(* The stops give the group back, and the session learns of them.          *)
(***************************************************************************)
LEMMA ReleaseWorkflowReleases ==
  ASSUME NEW r, Sound(r), ~Active(r)
  PROVE  Released(ReleaseWorkflow(r))
BY DEF ReleaseWorkflow, Released, Sound, IsRuntime, Active

LEMMA StopReleases ==
  ASSUME NEW r, IsRuntime(r), NEW effects,
         NEW status \in Statuses \ {"none", "active"}
  PROVE  Released(Stop(r, status, effects))
<1> DEFINE recorded == IF "usage" \in effects THEN RecordUsage(r) ELSE r
           quiet == CancelContinuation(ClearWaitTimer(recorded))
           stale == "unblocked" \notin effects
           guard == IF "guard" \in effects THEN r.goal.id ELSE quiet.guard
           aborting == quiet.aborting \/ ("abort" \in effects /\ phase # "idle")
           stopped == [quiet EXCEPT
            !.recovery = NoRecovery, !.stale = stale, !.guard = guard,
            !.aborting = aborting, !.goal.status = status, !.goal.waiting = "no", !.due = FALSE]
<1>1. IsRuntime(quiet)
  BY RecordKeeps, QuietKeeps DEF SameGroup
<1>2. IsRuntime(stopped) /\ stopped.goal.status = status
  <2> HIDE DEF quiet, stale, guard, aborting
  <2> QED
    BY <1>1 DEF IsRuntime, IsGoal
<1>3. Sound(Persist(stopped)) /\ ~Active(Persist(stopped))
  <2> HIDE DEF stopped
  <2> QED
    BY <1>2, PersistKeeps DEF Active
<1>4. Released(ReleaseWorkflow(Persist(stopped)))
  <2> HIDE DEF stopped
  <2> QED
    BY <1>3, ReleaseWorkflowReleases
<1> QED
  BY <1>4 DEF Stop

LEMMA StopsRelease ==
  ASSUME NEW r, IsRuntime(r), NEW aborts \in BOOLEAN
  PROVE  Released(SafetyPause(r, aborts)) /\ Released(PauseForTools(r, aborts))
         /\ Released(BudgetStop(r))
BY StopReleases DEF SafetyPause, PauseForTools, BudgetStop, Statuses

LEMMA ClearedReleases ==
  ASSUME NEW r, IsRuntime(r)
  PROVE  Released(Cleared(r))
<1> DEFINE s == [Quiet(r) EXCEPT !.stale = FALSE, !.goal = NoGoal, !.exhausted = FALSE]
<1>1. IsRuntime(Quiet(r))
  <2>1. IsRuntime(CancelContinuation(ClearWaitTimer(r)))
    BY QuietKeeps DEF SameGroup
  <2> QED
    BY <2>1 DEF Quiet, IsRuntime
<1>2. IsRuntime(s) /\ s.goal = NoGoal
  BY <1>1, GoalValues DEF IsRuntime
<1> HIDE DEF s
<1>3. Sound(Persist(s)) /\ ~Active(Persist(s))
  BY <1>2, PersistKeeps DEF Active, NoGoal
<1> QED
  BY <1>3, ReleaseWorkflowReleases DEF Cleared, s

-----------------------------------------------------------------------------
LEMMA MovesOf ==
  ASSUME NEW r, IsRuntime(r)
  PROVE  /\ SameGroup(r, r)
         /\ \A s : SameGroup(r, s) \/ Released(s) => Moves(r, s)
         /\ \A s : Moves(r, s) => IsRuntime(s)
BY DEF SameGroup, Moves, Released, Sound

LEMMA DispatchMoves ==
  ASSUME NEW r, IsRuntime(r), NEW way
  PROVE  Moves(r, Dispatch(r, way))
<1> DEFINE sent == [r EXCEPT !.timer = FALSE, !.intent = 0, !.delivery = r.intent,
                             !.queue = Append(@, Continuation(r.intent))]
<1>1. SameGroup(r, sent)
  BY DEF SameGroup, IsRuntime
<1>2. SameGroup(r, [r EXCEPT !.timer = FALSE]) /\ SameGroup(r, [r EXCEPT !.intent = 0])
  BY FieldsKeep
<1>3. SameGroup(r, CancelContinuation(r)) /\ SameGroup(r, r)
  BY QuietKeeps, MovesOf
<1>4. Released(PauseForTools(r, TRUE)) /\ Released(SafetyPause(r, FALSE))
  BY StopsRelease
<1> QED
  BY <1>1, <1>2, <1>3, <1>4, Zenon DEF Dispatch, Moves

LEMMA DeadlineFailedKeeps ==
  ASSUME NEW r, IsRuntime(r), Active(r), NEW exhausted
  PROVE  SameGroup(r, DeadlineFailed(r, exhausted))
<1> DEFINE s == CancelContinuation(RecordUsage(r))
           t == [s EXCEPT !.goal.waiting = "timed", !.due = FALSE, !.alarm = ~exhausted,
                          !.retry = IF exhausted THEN "exhausted" ELSE "armed"]
<1>1. SameGroup(r, s) /\ s.goal.status # "none"
  BY RecordKeeps, QuietKeeps, SameGroupComposes DEF SameGroup, Active
<1>2. SameGroup(s, t)
  <2> HIDE DEF s
  <2> DEFINE alarm == ~exhausted
             retry == IF exhausted THEN "exhausted" ELSE "armed"
  <2> HIDE DEF alarm, retry
  <2>1. SameGroup(s, [s EXCEPT !.goal.waiting = "timed", !.due = FALSE, !.alarm = alarm,
                               !.retry = retry])
    BY <1>1 DEF SameGroup, IsRuntime, IsGoal
  <2> QED
    BY <2>1 DEF alarm, retry
<1>3. SameGroup(t, Persist(t))
  <2> HIDE DEF t
  <2> QED
    BY <1>2, PersistKeeps DEF SameGroup
<1> HIDE DEF s, t
<1>4. SameGroup(r, Persist(t))
  BY <1>1, <1>2, <1>3, SameGroupComposes
<1> QED
  BY <1>4 DEF DeadlineFailed, s, t

LEMMA DueWaitMoves ==
  ASSUME NEW r, IsRuntime(r), NEW way
  PROVE  Moves(r, DispatchDueGoalWait(r, way))
<1> DEFINE asking == RequestContinuation(ClearGoalWait(r))
           tried == Dispatch(asking, way)
           again == DeadlineFailed(tried, r.retry = "armed")
<1>1. SameGroup(r, asking)
  BY ClearWaitKeeps, RequestKeeps, SameGroupComposes DEF SameGroup
<1> HIDE DEF asking
<1>2. Moves(asking, tried)
  BY <1>1, DispatchMoves DEF SameGroup
<1> HIDE DEF tried
<1>3. Moves(r, tried)
  BY <1>1, <1>2, MovesCompose DEF Moves
<1>4. CASE Active(tried)
  <2> DEFINE exhausted == r.retry = "armed"
  <2> HIDE DEF exhausted
  <2>1. SameGroup(tried, DeadlineFailed(tried, exhausted))
    BY <1>3, <1>4, DeadlineFailedKeeps, MovesOf
  <2>2. Moves(r, DeadlineFailed(tried, exhausted))
    BY <1>3, <2>1, MovesCompose DEF Moves
  <2> QED
    BY <1>3, <2>2, Zenon DEF DispatchDueGoalWait, exhausted, tried, asking
<1>5. CASE ~Active(tried)
  BY <1>3, <1>5, Zenon DEF DispatchDueGoalWait, tried, asking
<1> QED
  BY <1>4, <1>5

LEMMA FinalizeMoves ==
  ASSUME NEW r, IsRuntime(r)
  PROVE  Moves(r, FinalizeSettledRecovery(r))
<1> DEFINE cleared == [r EXCEPT !.recovery = NoRecovery]
<1>1. SameGroup(r, cleared)
  BY FieldsKeep
<1> HIDE DEF cleared
<1>2. Owns(r) => SameGroup(r, EnterGoalWait(cleared, "open"))
  BY <1>1, EnterWaitKeeps, SameGroupComposes DEF SameGroup, Owns, Active
<1>3. Released(Stop(cleared, "blocked", {}))
  BY <1>1, StopReleases DEF SameGroup, Statuses
<1> QED
  BY <1>1, <1>2, <1>3, Zenon DEF FinalizeSettledRecovery, Moves, cleared

-----------------------------------------------------------------------------
LEMMA StartsKeep ==
  ASSUME NEW r, IsRuntime(r)
  PROVE  /\ \A m : SameGroup(r, MessageStart(r, m))
         /\ SameGroup(r, AgentStart(r))
         /\ SameGroup(r, StartCustomMessage(r))
<1>1. SameGroup(r, StartCustomMessage(r))
  <2> DEFINE w == ClearGoalWait(r)
             guard == IF w.guard = r.goal.id THEN 0 ELSE w.guard
             s == [w EXCEPT !.guard = guard]
  <2>1. SameGroup(r, w)
    BY ClearWaitKeeps
  <2>2. SameGroup(r, s)
    <3> HIDE DEF w, guard
    <3>1. SameGroup(w, s)
      BY <2>1 DEF SameGroup, IsRuntime
    <3> HIDE DEF s
    <3> QED
      BY <2>1, <3>1, SameGroupComposes
  <2>3. SameGroup(r, FollowUp(s, FALSE))
    <3> HIDE DEF s
    <3>1. \A b : SameGroup(s, FollowUp(s, b))
      BY <2>2, FollowUpKeeps DEF SameGroup
    <3>2. SameGroup(s, FollowUp(s, FALSE))
      BY <3>1, Zenon
    <3> QED
      BY <2>2, <3>2, SameGroupComposes
  <2> QED
    BY <2>3 DEF StartCustomMessage
<1>2. ASSUME NEW m PROVE SameGroup(r, StartGoalPrompt(r, m))
  <2> DEFINE rebased == IF r.run.id \in {Unowned, m.id} THEN r
                        ELSE [r EXCEPT !.exhausted = r.goal.spent]
             run == BeginRun(rebased, m.id, FALSE)
             goal == [run EXCEPT !.goal = IF m.reset THEN Fresh(@) ELSE @]
  <2>1. SameGroup(r, rebased)
    BY FieldsKeep, MovesOf
  <2>2. SameGroup(r, run)
    <3> HIDE DEF rebased
    <3>1. \A id, auto : SameGroup(rebased, BeginRun(rebased, id, auto))
      BY <2>1, QuietKeeps DEF SameGroup
    <3>2. SameGroup(rebased, run)
      BY <3>1, Zenon
    <3> HIDE DEF run
    <3> QED
      BY <2>1, <3>2, SameGroupComposes
  <2>3. Owns(r) => SameGroup(run, goal)
    <3> HIDE DEF run
    <3> QED
      BY <2>2 DEF Owns, Active, SameGroup, IsRuntime, IsGoal, Fresh
  <2>4. Owns(r) => SameGroup(r, Persist(goal))
    <3> HIDE DEF run, goal
    <3> QED
      BY <2>2, <2>3, PersistKeeps, SameGroupComposes DEF SameGroup
  <2> QED
    BY <2>4, MovesOf DEF StartGoalPrompt
<1>3. ASSUME NEW m PROVE SameGroup(r, StartUserMessage(r, m))
  <2> DEFINE i == TakenInput(r, m.kind, m.mark # "live")
             taken == [r EXCEPT !.inputs = RemoveAt(@, i)]
  <2>1. SameGroup(r, taken)
    BY FieldsKeep
  <2> HIDE DEF i
  <2>2. \A b : SameGroup(r, FollowUp(taken, b))
    <3> HIDE DEF taken
    <3> QED
      BY <2>1, FollowUpKeeps, SameGroupComposes DEF SameGroup
  <2> QED
    BY <2>1, <2>2, MovesOf, Zenon DEF StartUserMessage, i
<1>4. SameGroup(r, AgentStart(r))
  <2> DEFINE follow == FirstInput(r, {"follow", "ext"})
  <2> HIDE DEF follow
  <2>1. SameGroup(r, BeginRun([r EXCEPT !.inputs = RemoveAt(@, follow), !.guard = 0,
                                        !.stale = FALSE], Foreign, FALSE))
    BY DEF BeginRun, SameGroup, IsRuntime
  <2>2. \A auto : SameGroup(r, BeginRun(r, r.goal.id, auto))
    BY QuietKeeps
  <2> QED
    BY <2>1, <2>2, MovesOf, Zenon DEF AgentStart, follow
<1> QED
  BY <1>1, <1>2, <1>3, <1>4, Zenon DEF MessageStart

-----------------------------------------------------------------------------
LEMMA QuietRuntime ==
  ASSUME NEW r, IsRuntime(r)
  PROVE  SameGroup(r, Quiet(r)) /\ Quiet(r).goal = r.goal
<1> DEFINE w == CancelContinuation(ClearWaitTimer(r))
<1>1. SameGroup(r, w) /\ w.goal = r.goal
  BY QuietKeeps, SameGroupComposes DEF SameGroup
<1> HIDE DEF w
<1> QED
  BY <1>1 DEF Quiet, SameGroup, IsRuntime, w

LEMMA SendKeeps ==
  ASSUME NEW r, IsRuntime(r)
  PROVE  \A id, reset : SameGroup(r, Send(r, id, reset))
BY FieldsKeep DEF Send

LEMMA RollBackFollows ==
  ASSUME NEW r, IsRuntime(r), NEW goal, IsGoal(goal)
  PROVE  Sound(RollBack(r, goal)) /\ Follows(RollBack(r, goal))
<1> DEFINE stale == goal.status # "active"
           back == [r EXCEPT !.goal = goal, !.stale = stale]
           owned == [back EXCEPT !.owner = "goal"]
<1>1. IsRuntime(back) /\ back.goal = goal
  <2> HIDE DEF stale
  <2> QED
    BY DEF IsRuntime
<1> HIDE DEF back
<1>2. CASE goal = NoGoal
  <2>1. Released(Cleared(back))
    BY <1>1, ClearedReleases
  <2> QED
    BY <1>2, <2>1 DEF RollBack, Released, Follows, back
<1>3. CASE goal # NoGoal /\ goal.status = "active"
  <2>1. IsRuntime(owned) /\ owned.owner = "goal" /\ owned.goal = goal
    BY <1>1 DEF IsRuntime
  <2> HIDE DEF owned
  <2>2. Sound(Persist(owned)) /\ SameGroup(owned, Persist(owned))
    BY <2>1, PersistKeeps
  <2>3. SameGroup(Persist(owned), RestoreWaitTimer(Persist(owned)))
    BY <2>2, QuietKeeps DEF Sound
  <2>4. Holds(RestoreWaitTimer(Persist(owned)))
    BY <1>3, <2>1, <2>2, <2>3 DEF Holds, SameGroup, Sound, Active
  <2> QED
    BY <1>3, <2>4 DEF RollBack, Holds, Follows, back, owned
<1>4. CASE goal # NoGoal /\ goal.status # "active"
  <2>1. Sound(Persist(back)) /\ ~Active(Persist(back))
    BY <1>1, <1>4, PersistKeeps DEF Active
  <2>2. Released(ReleaseWorkflow(Persist(back)))
    BY <2>1, ReleaseWorkflowReleases
  <2> QED
    BY <1>4, <2>2 DEF RollBack, Released, Follows, back
<1> QED
  BY <1>2, <1>3, <1>4

-----------------------------------------------------------------------------
(***************************************************************************)
(* Runs.                                                                   *)
(***************************************************************************)
LEMMA AgentStartsMoves ==
  ASSUME NEW r, IsRuntime(r), NEW m
  PROVE  Moves(r, AgentStarts(r, m))
<1> DEFINE before == Before(r, m)
           stale == BeginRun(before.run, m.id, before.auto)
           run == BeginRun(before.run, r.goal.id, before.auto)
           reset == [run EXCEPT !.goal = Fresh(@)]
<1>1. SameGroup(r, before.run)
  <2> DEFINE clear == [r EXCEPT !.run = NoRun, !.guard = 0]
             settled == [clear EXCEPT !.delivery = 0]
  <2>1. SameGroup(r, clear) /\ SameGroup(r, settled)
    BY DEF SameGroup, IsRuntime, NoRun
  <2> HIDE DEF clear
  <2>2. SameGroup(r, ClearGoalWait(CancelContinuation(clear)))
    BY <2>1, QuietKeeps, ClearWaitKeeps, SameGroupComposes DEF SameGroup
  <2> DEFINE recovers == r.recovery # NoRecovery /\ r.recovery.auto
  <2> HIDE DEF recovers
  <2>3. before.run \in {clear, settled, ClearGoalWait(CancelContinuation(clear))}
    BY DEF Before, clear, recovers
  <2> HIDE DEF before, settled
  <2> QED
    BY <2>1, <2>2, <2>3
<1> HIDE DEF before
<1>2. SameGroup(r, stale) /\ SameGroup(r, run)
  <2> DEFINE auto == before.auto
             old == m.id
             id == r.goal.id
             b == before.run
  <2> HIDE DEF auto, old, id, b
  <2>1. SameGroup(b, BeginRun(b, old, auto)) /\ SameGroup(b, BeginRun(b, id, auto))
    BY <1>1, QuietKeeps DEF SameGroup, b
  <2> QED
    BY <1>1, <2>1, SameGroupComposes DEF auto, old, id, b
<1> HIDE DEF stale, run
<1>3. Released(PauseForTools(stale, FALSE)) /\ Released(PauseForTools(run, TRUE))
      /\ Released(PauseForTools(run, FALSE))
  BY <1>2, StopsRelease DEF SameGroup
<1>4. Moves(r, Abort(IF Active(stale) /\ ~tools THEN PauseForTools(stale, FALSE) ELSE stale))
  <2> DEFINE s == IF Active(stale) /\ ~tools THEN PauseForTools(stale, FALSE) ELSE stale
  <2>1. Moves(r, s)
    BY <1>2, <1>3 DEF Moves
  <2> HIDE DEF s
  <2>2. Moves(s, Abort(s))
    BY <2>1, QuietKeeps, MovesOf DEF Moves
  <2> QED
    BY <2>1, <2>2, MovesCompose DEF s
<1>5. Owns(before.run) => SameGroup(r, Persist(reset))
  <2>1. Owns(before.run) => SameGroup(run, reset)
    BY <1>1, <1>2, GoalKeeps DEF Owns, Active, SameGroup
  <2> HIDE DEF reset
  <2> QED
    BY <1>2, <2>1, PersistKeeps, SameGroupComposes DEF SameGroup
<1>6. \A b \in BOOLEAN : Moves(r, PauseForTools(run, b))
  BY <1>2, StopsRelease DEF SameGroup, Moves
<1> DEFINE owned == m.kind \in {"goal", "cont"}
<1>7. owned \in BOOLEAN
  OBVIOUS
<1>8. Moves(r, PauseForTools(run, owned))
  BY <1>6, <1>7
<1> HIDE DEF owned
<1> QED
  BY <1>1, <1>2, <1>4, <1>5, <1>8, Zenon DEF AgentStarts, Moves, before, stale, run, owned

LEMMA RecordTurnMoves ==
  ASSUME NEW r, IsRuntime(r), NEW stop
  PROVE  Moves(r, RecordTurn(r, stop))
<1> DEFINE one == [r EXCEPT !.goal.turns = @ + 1]
           counted == Persist(RecordUsage(one))
<1>1. CASE Active(r)
  <2>1. SameGroup(r, one)
    BY <1>1, GoalKeeps DEF Active
  <2> HIDE DEF one
  <2>2. SameGroup(r, counted)
    BY <2>1, RecordKeeps, PersistKeeps, SameGroupComposes DEF SameGroup
  <2> HIDE DEF counted
  <2>3. Released(SafetyPause(counted, TRUE))
    BY <2>2, StopsRelease DEF SameGroup
  <2> QED
    BY <2>2, <2>3, MovesOf, Zenon DEF RecordTurn, Moves, counted, one
<1>2. CASE ~Active(r)
  BY <1>2, MovesOf DEF RecordTurn
<1> QED
  BY <1>1, <1>2

LEMMA ToolMoves ==
  ASSUME NEW r, IsRuntime(r)
  PROVE  /\ Active(r) => Moves(r, Execute(r))
         /\ Moves(r, ToolEnds(r))
<1>1. Active(r) => Moves(r, Execute(r))
  <2>1. Released(Cleared(r)) /\ Released(Stop(r, "blocked", {"usage"}))
    BY ClearedReleases, StopReleases DEF Statuses
  <2>2. Active(r) => \A waiting : SameGroup(r, EnterGoalWait(r, waiting))
    BY EnterWaitKeeps DEF Active
  <2> QED
    BY <2>1, <2>2, Zenon DEF Execute, Moves
<1>2. Moves(r, ToolEnds(r))
  <2> DEFINE recorded == Persist(RecordUsage(r))
  <2>1. SameGroup(r, recorded)
    BY RecordKeeps, PersistKeeps, SameGroupComposes DEF SameGroup
  <2> HIDE DEF recorded
  <2>2. Released(BudgetStop(recorded)) /\ Released(PauseForTools(recorded, TRUE))
    BY <2>1, StopsRelease DEF SameGroup
  <2> QED
    BY <2>1, <2>2, MovesOf, Zenon DEF ToolEnds, Moves, recorded
<1> QED
  BY <1>1, <1>2

LEMMA ProgressedKeeps ==
  ASSUME NEW r, IsRuntime(r), r.goal.status # "none", NEW run, NEW same
  PROVE  SameGroup(r, Progressed(r, run, same))
<1> DEFINE repeats == IF run.tool THEN 0
                      ELSE IF same /\ r.goal.repeats > 0 THEN r.goal.repeats + 1 ELSE 1
           s == [r EXCEPT !.goal.repeats = repeats]
<1>1. SameGroup(r, s)
  <2> HIDE DEF repeats
  <2> QED
    BY GoalKeeps
<1>2. SameGroup(r, Persist(s))
  <2> HIDE DEF s
  <2> QED
    BY <1>1, PersistKeeps, SameGroupComposes DEF SameGroup
<1> QED
  BY <1>2, MovesOf, Zenon DEF Progressed

LEMMA LimitedMoves ==
  ASSUME NEW r, IsRuntime(r)
  PROVE  Moves(r, Limited(r))
BY StopsRelease, MovesOf, Zenon DEF Limited, Moves

LEMMA RunEndsMoves ==
  ASSUME NEW r, IsRuntime(r), NEW run, NEW same
  PROVE  Moves(r, RunEnds(r, run, same))
<1> DEFINE recorded == RecordUsage(r)
<1>1. SameGroup(r, recorded)
  BY RecordKeeps
<1> HIDE DEF recorded
<1>2. Moves(recorded, RunStopped(recorded, run, same))
  <2> DEFINE start == [recorded EXCEPT !.recovery = NoRecovery]
             limited == Limited(start)
             progressed == Progressed(limited, run, same)
  <2>1. SameGroup(recorded, start)
    BY <1>1, FieldsKeep, SameGroupIs
  <2> HIDE DEF start
  <2>2. Moves(recorded, limited)
    BY <2>1, LimitedMoves, MovesCompose DEF Moves, SameGroup
  <2> HIDE DEF limited
  <2>3. CASE Active(limited)
    <3>1. IsRuntime(limited) /\ limited.goal.status # "none"
      BY <1>1, <2>2, <2>3, MovesOf DEF Active, SameGroup
    <3>2. SameGroup(limited, progressed)
      BY <3>1, ProgressedKeeps
    <3> HIDE DEF progressed
    <3>3. Released(SafetyPause(progressed, FALSE))
      BY <3>2, StopsRelease DEF SameGroup
    <3>4. SameGroup(limited, RequestContinuation(Persist(progressed)))
      BY <3>2, PersistKeeps, RequestKeeps, SameGroupComposes DEF SameGroup
    <3>5. \A s : SameGroup(limited, s) \/ Released(s) => Moves(recorded, s)
      BY <2>2, MovesCompose DEF Moves
    <3> QED
      BY <2>3, <3>3, <3>4, <3>5, Zenon DEF RunStopped, progressed, limited, start
  <2>4. CASE ~Active(limited)
    BY <2>2, <2>4, Zenon DEF RunStopped, limited, start
  <2> QED
    BY <2>3, <2>4
<1>3. Moves(recorded, RunInterrupted(recorded, run))
  <2> DEFINE limited == Limited(recorded)
             recovery == [kind |-> IF answer.stop = "overflow" THEN "compaction" ELSE "provider",
                          auto |-> run.auto]
             s == [CancelContinuation(limited) EXCEPT !.recovery = recovery]
  <2>1. Moves(recorded, limited) /\ IsRuntime(limited)
    BY <1>1, LimitedMoves, MovesOf DEF SameGroup
  <2> HIDE DEF limited, recovery
  <2>2. SameGroup(limited, s)
    <3> DEFINE c == CancelContinuation(limited)
    <3>1. SameGroup(limited, c)
      BY <2>1, QuietKeeps
    <3> HIDE DEF c
    <3>2. SameGroup(c, [c EXCEPT !.recovery = recovery])
      BY <3>1, FieldsKeep, SameGroupIs
    <3> QED
      BY <3>1, <3>2, SameGroupComposes DEF c
  <2> HIDE DEF s
  <2>3. SameGroup(limited, Persist(s))
    BY <2>2, PersistKeeps, SameGroupComposes DEF SameGroup
  <2>4. Moves(recorded, Persist(s))
    BY <2>1, <2>3, MovesCompose DEF Moves
  <2>5. Released(SafetyPause(recorded, TRUE))
    BY <1>1, StopsRelease DEF SameGroup
  <2> QED
    BY <2>1, <2>4, <2>5, Zenon DEF RunInterrupted, Moves, s, limited, recovery
<1>4. Released(Stop(recorded, FailedStatus, {"abort"}))
  BY <1>1, StopReleases DEF SameGroup, FailedStatus, Statuses
<1>5. \A s : Moves(recorded, s) => Moves(r, s)
  BY <1>1, MovesCompose DEF Moves
<1> QED
  BY <1>2, <1>3, <1>4, <1>5, MovesOf, Zenon DEF RunEnds, Moves, recorded

-----------------------------------------------------------------------------
(***************************************************************************)
(* Compaction reads the goal from the session, which has its status; a     *)
(* restored goal is active only if the group could be acquired.            *)
(***************************************************************************)
LEMMA BeforeCompactMoves ==
  ASSUME NEW r, IsRuntime(r)
  PROVE  Moves(r, BeforeCompact(r))
<1> DEFINE recorded == Persist(RecordUsage(CancelContinuation(r)))
<1>1. SameGroup(r, recorded)
  BY QuietKeeps, RecordKeeps, PersistKeeps, SameGroupComposes DEF SameGroup
<1> HIDE DEF recorded
<1>2. Released(BudgetStop(recorded))
  BY <1>1, StopsRelease DEF SameGroup
<1> QED
  BY <1>1, <1>2, MovesOf, Zenon DEF BeforeCompact, Moves, recorded

LEMMA SessionCompactMoves ==
  ASSUME NEW r, Sound(r)
  PROVE  Moves(r, SessionCompact(r))
<1> DEFINE bare == [r EXCEPT !.goal = r.saved]
           loaded == RecordUsage(bare)
           kept == IF CanRecord(r) THEN Persist(loaded) ELSE bare
           calm == [kept EXCEPT !.recovery = NoRecovery]
           asking == [RequestContinuation(calm) EXCEPT !.timer = TRUE]
<1>1. SameGroup(r, bare)
  BY DEF Sound, SameGroup, IsRuntime
<1> HIDE DEF bare
<1>2. SameGroup(r, kept)
  BY <1>1, RecordKeeps, PersistKeeps, SameGroupComposes DEF SameGroup
<1> HIDE DEF kept
<1>3. SameGroup(r, asking)
  <2>1. SameGroup(r, calm)
    <3>1. SameGroup(kept, calm)
      BY <1>2 DEF SameGroup, IsRuntime
    <3> HIDE DEF calm
    <3> QED
      BY <1>2, <3>1, SameGroupComposes
  <2> HIDE DEF calm
  <2> DEFINE q == RequestContinuation(calm)
  <2>2. SameGroup(r, q)
    BY <2>1, RequestKeeps, SameGroupComposes DEF SameGroup
  <2> HIDE DEF q
  <2>3. SameGroup(q, [q EXCEPT !.timer = TRUE])
    BY <2>2 DEF SameGroup, IsRuntime
  <2> QED
    BY <2>2, <2>3, SameGroupComposes DEF q
<1>4. Released(BudgetStop(kept))
  BY <1>2, StopsRelease DEF SameGroup
<1>5. SameGroup(r, [r EXCEPT !.recovery = NoRecovery])
  BY FieldsKeep DEF Sound
<1> QED
  BY <1>2, <1>3, <1>4, <1>5, Zenon DEF SessionCompact, Moves, kept, bare, calm

LEMMA RestoredFollows ==
  ASSUME NEW r, IsRuntime(r)
  PROVE  Sound(Restored(r)) /\ Follows(Restored(r))
<1> DEFINE bare == [r EXCEPT
            !.goal = r.saved, !.intent = 0, !.delivery = 0, !.timer = FALSE,
            !.recovery = NoRecovery, !.run = NoRun, !.guard = 0, !.stale = FALSE,
            !.inputs = <<>>, !.retry = "none", !.alarm = FALSE, !.due = FALSE,
            !.owner = IF @ = "goal" THEN "none" ELSE @,
            !.queue = <<>>, !.aborting = FALSE]
           paused == [bare EXCEPT !.goal.status = "paused", !.goal.waiting = "no"]
           owner == [bare EXCEPT !.owner = "goal",
                                 !.goal = IF @.reset THEN Fresh(@) ELSE @]
           owned == RecordUsage(owner)
<1>1. IsRuntime(bare) /\ bare.goal = r.saved /\ bare.saved = r.saved /\ bare.owner # "goal"
  BY DEF IsRuntime, NoRun
<1>2. Sound(bare)
  BY <1>1 DEF Sound
<1> HIDE DEF bare
<1>3. CASE r.saved.status # "active"
  BY <1>1, <1>2, <1>3 DEF Restored, Follows, Active, bare
<1>4. CASE r.saved.status = "active" /\ bare.owner = "other"
  <2>1. IsRuntime(paused) /\ paused.goal.status = "paused" /\ paused.owner = "other"
    BY <1>1, <1>4 DEF IsRuntime, IsGoal, Statuses
  <2> HIDE DEF paused
  <2>2. Sound(Persist(paused)) /\ SameGroup(paused, Persist(paused))
    BY <2>1, PersistKeeps
  <2>3. Follows(Persist(paused))
    BY <2>1, <2>2 DEF Follows, SameGroup, Active
  <2>4. Restored(r) = Persist(paused)
    BY <1>4 DEF Restored, bare, paused
  <2> QED
    BY <2>2, <2>3, <2>4
<1>5. CASE r.saved.status = "active" /\ bare.owner # "other"
  <2>1. IsRuntime(owner) /\ owner.owner = "goal" /\ owner.goal.status = "active"
    BY <1>1, <1>5 DEF IsRuntime, IsGoal, Fresh
  <2> HIDE DEF owner
  <2>2. IsRuntime(owned) /\ owned.owner = "goal" /\ owned.goal.status = "active"
    BY <2>1, RecordKeeps DEF SameGroup
  <2> HIDE DEF owned
  <2>3. Released(BudgetStop(owned)) /\ Released(SafetyPause(owned, FALSE))
        /\ Released(PauseForTools(owned, FALSE))
    BY <2>2, StopsRelease
  <2>4. Holds(RestoreWaitTimer(Persist(owned)))
    <3>1. Sound(Persist(owned)) /\ SameGroup(owned, Persist(owned))
      BY <2>2, PersistKeeps
    <3>2. SameGroup(Persist(owned), RestoreWaitTimer(Persist(owned)))
      BY <3>1, QuietKeeps DEF Sound
    <3> QED
      BY <2>2, <3>1, <3>2 DEF Holds, SameGroup, Sound, Active
  <2>5. Restored(r) \in {BudgetStop(owned), SafetyPause(owned, FALSE),
                         PauseForTools(owned, FALSE), RestoreWaitTimer(Persist(owned))}
    BY <1>5, Zenon DEF Restored, bare, owner, owned
  <2>6. Released(Restored(r)) \/ Holds(Restored(r))
    BY <2>3, <2>4, <2>5
  <2> QED
    BY <2>6 DEF Released, Holds, Follows
<1> QED
  BY <1>3, <1>4, <1>5

-----------------------------------------------------------------------------
(***************************************************************************)
(* The actions.                                                            *)
(***************************************************************************)
StepIsSound == Sound(rt') /\ (Follows(rt) /\ ~KeepsWhatItTook => Follows(rt'))

LEMMA MovesAreSound ==
  ASSUME Sound(rt), Moves(rt, rt')
  PROVE  StepIsSound
BY MovesFollow DEF StepIsSound

LEMMA FollowingIsSound ==
  ASSUME Sound(rt'), Follows(rt')
  PROVE  StepIsSound
BY DEF StepIsSound

\* An activation that is refused, that succeeds or that is rolled back.
LEMMA ActivateSound ==
  ASSUME Sound(rt), NEW existing, IsGoal(existing), NEW way, Activate(existing, way),
         existing = NoGoal \/ rt.goal # NoGoal
  PROVE  StepIsSound
<1>1. CASE rt.owner = "other"
  BY <1>1, MovesAreSound, MovesOf DEF Activate, Sound
<1>2. CASE rt.owner # "other" /\ ~tools
  <2>1. rt' = Refused(existing)
    BY <1>2 DEF Activate
  <2>2. CASE existing.status = "active" /\ Active(rt)
    <3>1. Released(rt')
      BY <2>1, <2>2, StopsRelease DEF Refused, Sound
    <3> QED
      BY <3>1, MovesAreSound DEF Moves
  <2>3. CASE existing.status = "active" /\ ~Active(rt)
    <3>1. rt' = [rt EXCEPT !.owner = "goal"]
      BY <2>1, <2>3 DEF Refused
    <3>2. Stopped(rt)
      BY <2>3 DEF Sound, IsRuntime, IsGoal, Statuses, Stopped, Active, NoGoal
    <3>3. KeepsWhatItTook
      BY <1>2, <3>1, <3>2 DEF KeepsWhatItTook
    <3>4. Sound(rt')
      BY <3>1 DEF Sound, IsRuntime
    <3> QED
      BY <3>3, <3>4 DEF StepIsSound
  <2>4. CASE existing.status # "active"
    <3>1. rt' = rt
      BY <2>1, <2>4 DEF Refused
    <3> QED
      BY <3>1, MovesAreSound, MovesOf DEF Sound
  <2> QED
    BY <2>2, <2>3, <2>4
<1>3. CASE rt.owner # "other" /\ tools /\ way = "sent"
  <2> DEFINE q == Quiet(rt)
             s == [q EXCEPT !.stale = FALSE, !.goal = NewGoal(nextId), !.exhausted = FALSE,
                            !.owner = "goal"]
  <2>1. IsRuntime(q)
    BY QuietRuntime DEF Sound, SameGroup
  <2> HIDE DEF q
  <2>2. IsRuntime(s) /\ s.owner = "goal" /\ s.goal.status = "active"
    BY <2>1, GoalValues DEF IsRuntime
  <2> HIDE DEF s
  <2>3. Holds(Persist(s))
    BY <2>2, PersistKeeps DEF Holds, SameGroup, Active
  <2>4. rt' = Send(Persist(s), nextId, TRUE)
    BY <1>3 DEF Activate, s, q
  <2>5. SameGroup(Persist(s), rt')
    BY <2>3, <2>4, SendKeeps DEF Holds, Sound
  <2> QED
    BY <2>3, <2>5 DEF Holds, SameGroup, Sound, Active, Follows, StepIsSound
<1>4. CASE rt.owner # "other" /\ tools /\ way # "sent"
  <2> DEFINE s == [rt EXCEPT !.goal = existing]
             q == Quiet(s)
  <2>1. IsRuntime(s)
    BY DEF Sound, IsRuntime
  <2> HIDE DEF s
  <2>2. IsRuntime(q)
    BY <2>1, QuietRuntime DEF SameGroup
  <2> HIDE DEF q
  <2>3. IsGoal(RecordUsage(q).goal)
    BY <2>2, RecordKeeps DEF SameGroup, IsRuntime
  <2>4. rt' = RollBack(q, RecordUsage(q).goal)
    BY <1>4 DEF Activate, q, s
  <2> QED
    BY <2>2, <2>3, <2>4, RollBackFollows, FollowingIsSound
<1> QED
  BY <1>1, <1>2, <1>3, <1>4

LEMMA GoalCommandsSound ==
  ASSUME Sound(rt), StartGoal \/ ReplaceGoal \/ PauseGoal \/ ClearGoal
  PROVE  StepIsSound
<1> IsRuntime(rt) /\ IsGoal(rt.goal)
  BY DEF Sound, IsRuntime
<1>1. CASE StartGoal
  <2>1. PICK way \in SendWays : Activate(NoGoal, way)
    BY <1>1 DEF StartGoal
  <2> QED
    BY <2>1, ActivateSound, GoalValues
<1>2. CASE ReplaceGoal
  <2>1. PICK existing \in Confirmed, way \in SendWays : Activate(existing, way)
    BY <1>2 DEF ReplaceGoal
  <2>2. IsGoal(existing)
    <3>1. \A waiting, turns : IsGoal(Earlier(waiting, turns))
      BY DEF IsGoal, Statuses, Earlier
    <3> QED
      BY <3>1 DEF Confirmed
  <2>3. rt.goal # NoGoal
    BY <1>2 DEF ReplaceGoal
  <2> QED
    BY <2>1, <2>2, <2>3, ActivateSound
<1>3. CASE PauseGoal
  <2>1. Released(rt')
    BY <1>3, StopReleases DEF PauseGoal, Statuses
  <2> QED
    BY <2>1, MovesAreSound DEF Moves
<1>4. CASE ClearGoal
  <2>1. Released(rt')
    BY <1>4, ClearedReleases DEF ClearGoal
  <2> QED
    BY <2>1, MovesAreSound DEF Moves
<1> QED
  BY <1>1, <1>2, <1>3, <1>4

LEMMA ResumeSound ==
  ASSUME Sound(rt), ResumeGoal \/ ResumeWaiting
  PROVE  StepIsSound
<1> DEFINE q == Quiet(rt)
<1>1. SameGroup(rt, q)
  BY QuietRuntime DEF Sound
<1> HIDE DEF q
<1>2. CASE ResumeGoal
  <2>0. Stopped(rt) /\ ~Active(rt)
    BY <1>2 DEF ResumeGoal, CanResume, Stopped, Active
  <2>1. CASE rt' = ReleaseWorkflow(rt)
    <3>1. Released(rt')
      BY <2>0, <2>1, ReleaseWorkflowReleases
    <3> QED
      BY <3>1, MovesAreSound DEF Moves
  <2>2. CASE rt' = Send(Persist([q EXCEPT !.stale = FALSE, !.owner = "goal",
                !.goal.id = nextId, !.goal.status = "active", !.goal.reset = TRUE]), nextId, TRUE)
    <3> DEFINE s == [q EXCEPT !.stale = FALSE, !.owner = "goal",
                !.goal.id = nextId, !.goal.status = "active", !.goal.reset = TRUE]
    <3>1. IsRuntime(s) /\ s.owner = "goal" /\ s.goal.status = "active"
      BY <1>1 DEF SameGroup, IsRuntime, IsGoal, Statuses
    <3> HIDE DEF s
    <3>2. Holds(Persist(s))
      BY <3>1, PersistKeeps DEF Holds, SameGroup, Active
    <3>3. SameGroup(Persist(s), rt')
      BY <2>2, <3>2, SendKeeps DEF Holds, Sound, s
    <3> QED
      BY <3>2, <3>3 DEF Holds, SameGroup, Sound, Active, Follows, StepIsSound
  <2>3. CASE rt' = ReleaseWorkflow(Persist([q EXCEPT !.stale = TRUE]))
    <3> DEFINE s == [q EXCEPT !.stale = TRUE]
    <3>1. SameGroup(q, s)
      BY <1>1 DEF SameGroup, IsRuntime
    <3> HIDE DEF s
    <3>2. Sound(Persist(s)) /\ ~Active(Persist(s))
      BY <1>1, <2>0, <3>1, PersistKeeps DEF SameGroup, Active
    <3>3. Released(rt')
      BY <2>3, <3>2, ReleaseWorkflowReleases DEF s
    <3> QED
      BY <3>3, MovesAreSound DEF Moves
  <2> QED
    BY <1>2, <2>1, <2>2, <2>3 DEF ResumeGoal, q
<1>3. CASE ResumeWaiting
  <2> DEFINE w == ClearGoalWait(rt)
  <2>1. SameGroup(rt, w) /\ w.goal.status # "none"
    BY <1>3, ClearWaitKeeps DEF Sound, ResumeWaiting, Owns, Active, SameGroup
  <2> HIDE DEF w
  <2>2. \A id, reset : SameGroup(w, Send(w, id, reset))
    BY <2>1, SendKeeps DEF SameGroup
  <2>3. \A waiting : SameGroup(w, EnterGoalWait(w, waiting))
    BY <2>1, EnterWaitKeeps DEF SameGroup
  <2>4. SameGroup(w, rt')
    BY <1>3, <2>2, <2>3, Zenon DEF ResumeWaiting, w
  <2> QED
    BY <2>1, <2>4, SameGroupComposes, MovesAreSound DEF Moves
<1> QED
  BY <1>2, <1>3

LEMMA EditSound ==
  ASSUME Sound(rt), NEW budget, EditGoal(budget)
  PROVE  StepIsSound
<1> DEFINE e == Edited(budget)
           recorded == RecordUsage(rt)
<1>0. SameGroup(rt, recorded) /\ rt.goal # NoGoal
  BY RecordKeeps DEF Sound, EditGoal
<1>1. Sound(e) /\ (Active(e) => e.owner = "goal")
  <2> DEFINE spent == budget = "lowered" \/ (budget = "kept" /\ recorded.goal.spent)
             next == [recorded.goal EXCEPT !.id = nextId, !.waiting = "no", !.spent = spent]
             status == EditedStatus(next)
             q == Quiet(recorded)
             exhausted == IF budget = "kept" THEN q.exhausted ELSE spent
             stale == status # "active"
             reset == next.reset \/ status = "active"
             owner == IF status = "active" THEN "goal" ELSE q.owner
             goal == [next EXCEPT !.status = status, !.reset = reset]
             s == [q EXCEPT !.exhausted = exhausted, !.stale = stale, !.owner = owner,
                            !.goal = goal]
  <2>1. IsRuntime(q)
    BY <1>0, QuietRuntime DEF SameGroup
  <2> HIDE DEF q
  <2>2. status \in Statuses \ {"none"}
    BY DEF EditedStatus, Statuses
  <2>3. IsGoal(goal) /\ goal.status = status
    <3>1. IsGoal(recorded.goal)
      BY <1>0 DEF SameGroup, IsRuntime
    <3> HIDE DEF recorded, spent, status, reset
    <3>2. goal = [[recorded.goal EXCEPT !.id = nextId, !.waiting = "no", !.spent = spent]
                    EXCEPT !.status = status, !.reset = reset]
      OBVIOUS
    <3> QED
      BY <2>2, <3>1, <3>2 DEF IsGoal
  <2>4. IsRuntime(s) /\ s.owner = owner /\ s.goal = goal
    <3> HIDE DEF exhausted, stale, goal, status
    <3> QED
      BY <2>1, <2>3 DEF IsRuntime
  <2> HIDE DEF s, goal
  <2>5. Sound(Persist(s)) /\ SameGroup(s, Persist(s))
    BY <2>4, PersistKeeps
  <2>6. e = Persist(s)
    BY DEF Edited, s, q, goal
  <2>7. Active(e) => e.owner = "goal"
    <3> HIDE DEF status
    <3> QED
      BY <2>3, <2>4, <2>5, <2>6 DEF Active, SameGroup
  <2> QED
    BY <2>5, <2>6, <2>7
<1> HIDE DEF e, recorded
<1>2. CASE rt' = IF Active(rt) THEN PauseForTools(rt, TRUE) ELSE rt
  <2>1. Moves(rt, rt')
    BY <1>2, StopsRelease, MovesOf DEF Sound
  <2> QED
    BY <2>1, MovesAreSound
<1>3. CASE ~Active(e) /\ rt' = ReleaseWorkflow(e)
  <2>1. Released(rt')
    BY <1>1, <1>3, ReleaseWorkflowReleases
  <2> QED
    BY <2>1, MovesAreSound DEF Moves
<1>4. CASE Active(e) /\ rt' = Send(e, nextId, TRUE)
  <2>1. SameGroup(e, rt')
    BY <1>1, <1>4, SendKeeps DEF Sound
  <2> QED
    BY <1>1, <1>4, <2>1 DEF SameGroup, Sound, Active, Follows, StepIsSound
<1>5. CASE rt' = RollBack(Quiet(recorded), recorded.goal)
  <2>1. IsRuntime(Quiet(recorded)) /\ IsGoal(recorded.goal)
    BY <1>0, QuietRuntime DEF SameGroup, IsRuntime
  <2> QED
    BY <1>5, <2>1, RollBackFollows, FollowingIsSound
<1> QED
  BY <1>2, <1>3, <1>4, <1>5 DEF EditGoal, e, recorded

LEMMA OutsideSound ==
  ASSUME Sound(rt), Outside
  PROVE  StepIsSound
<1> IsRuntime(rt)
  BY DEF Sound
<1>1. ASSUME NEW r, SameGroup(rt, r), NEW kind, Arrives(r, kind)
      PROVE  StepIsSound
  <2>1. CASE phase = "idle"
    <3> DEFINE queue == Append(r.queue, Other(kind, "starting"))
    <3> HIDE DEF queue
    <3>1. rt' = [r EXCEPT !.queue = queue]
      BY <1>1, <2>1 DEF Arrives, queue
    <3>2. SameGroup(r, rt')
      BY <1>1, <3>1 DEF SameGroup, IsRuntime
    <3> QED
      BY <1>1, <3>2, SameGroupComposes, MovesAreSound DEF Moves
  <2>2. CASE phase # "idle"
    <3> DEFINE queue == Append(r.queue, Other(kind, "queued"))
               inputs == Append(r.inputs, kind)
    <3> HIDE DEF queue, inputs
    <3>1. rt' = [r EXCEPT !.queue = queue, !.inputs = inputs]
      BY <1>1, <2>2 DEF Arrives, queue, inputs
    <3>2. SameGroup(r, rt')
      BY <1>1, <3>1 DEF SameGroup, IsRuntime
    <3> QED
      BY <1>1, <3>2, SameGroupComposes, MovesAreSound DEF Moves
  <2> QED
    BY <2>1, <2>2
<1> DEFINE w == ClearGoalWait(rt)
<1>2. SameGroup(rt, w)
  BY ClearWaitKeeps
<1> HIDE DEF w
<1>3. CASE ExtInput
  <2>1. Arrives([w EXCEPT !.recovery = NoRecovery], "ext")
    BY <1>3 DEF ExtInput, w
  <2> DEFINE none == NoRecovery
             s == [w EXCEPT !.recovery = none]
  <2> HIDE DEF none
  <2>3. SameGroup(w, s)
    BY <1>2 DEF SameGroup, IsRuntime
  <2> HIDE DEF s
  <2>4. SameGroup(rt, s)
    BY <1>2, <2>3, SameGroupComposes
  <2>2. SameGroup(rt, [w EXCEPT !.recovery = NoRecovery])
    BY <2>4 DEF s, none
  <2> QED
    BY <1>1, <2>1, <2>2
<1>4. ASSUME NEW kind, UserInput(kind) PROVE StepIsSound
  <2> DEFINE s == [w EXCEPT !.recovery = NoRecovery, !.stale = FALSE]
  <2>1. SameGroup(w, s)
    BY <1>2 DEF SameGroup, IsRuntime
  <2> HIDE DEF s
  <2>2. SameGroup(rt, ResetEpoch(s))
    BY <1>2, <2>1, ResetKeeps, SameGroupComposes DEF SameGroup
  <2>3. Arrives(w, kind) \/ Arrives(ResetEpoch(s), kind)
    BY <1>4, Zenon DEF UserInput, w, s
  <2> QED
    BY <1>1, <1>2, <2>2, <2>3
<1>5. CASE CustomMessage
  <2>1. SameGroup(rt, StartCustomMessage(AgentStart(rt)))
    BY StartsKeep, SameGroupComposes DEF SameGroup
  <2> DEFINE queue == Append(rt.queue, Other("custom", "queued"))
  <2>2. rt' = StartCustomMessage(AgentStart(rt)) \/ rt' = [rt EXCEPT !.queue = queue]
    BY <1>5 DEF CustomMessage
  <2> HIDE DEF queue
  <2>4. SameGroup(rt, [rt EXCEPT !.queue = queue])
    BY DEF SameGroup, IsRuntime
  <2>3. SameGroup(rt, rt')
    BY <2>1, <2>2, <2>4
  <2> QED
    BY <2>3, MovesAreSound DEF Moves
<1>6. CASE UserAborts
  BY <1>6, QuietKeeps, MovesAreSound DEF UserAborts, Moves
<1>7. CASE OtherWorkflow
  BY <1>7 DEF OtherWorkflow, StepIsSound, Sound, IsRuntime, Follows, Active
<1>8. CASE ToolsChange
  BY <1>8, MovesOf, MovesAreSound DEF ToolsChange
<1> QED
  BY <1>3, <1>4, <1>5, <1>6, <1>7, <1>8 DEF Outside

LEMMA MessagesSound ==
  ASSUME Sound(rt), Input \/ PromptStarts \/ DeliverQueued \/ ContinueQueued
  PROVE  StepIsSound
<1> IsRuntime(rt)
  BY DEF Sound
<1>1. CASE Input
  <2>1. ASSUME NEW i, NEW at, rt' = [rt EXCEPT !.queue[i].at = at]
        PROVE  SameGroup(rt, rt')
    <3> DEFINE queue == [rt.queue EXCEPT ![i].at = at]
    <3>1. rt' = [rt EXCEPT !.queue = queue]
      BY <2>1
    <3> HIDE DEF queue
    <3> QED
      BY <3>1, FieldsKeep
  <2>2. \A i : SameGroup(rt, Dequeue(rt, i))
    BY QuietKeeps
  <2>3. SameGroup(rt, rt')
    BY <1>1, <2>1, <2>2, Zenon DEF Input
  <2> QED
    BY <2>3, MovesAreSound DEF Moves
<1>2. CASE PromptStarts
  <2> DEFINE i == FirstAt("starting")
             r == Dequeue(rt, i)
  <2>1. rt' = AgentStarts(r, rt.queue[i])
    BY <1>2 DEF PromptStarts
  <2>2. SameGroup(rt, r)
    BY QuietKeeps
  <2> HIDE DEF i, r
  <2>3. Moves(r, rt')
    BY <2>1, <2>2, AgentStartsMoves DEF SameGroup
  <2> QED
    BY <2>2, <2>3, MovesCompose, MovesAreSound DEF Moves
<1>3. CASE DeliverQueued
  <2>1. PICK i \in Deliverable : rt' = MessageStart(Dequeue(rt, i), rt.queue[i])
    BY <1>3 DEF DeliverQueued
  <2>2. SameGroup(rt, Dequeue(rt, i))
    BY QuietKeeps
  <2>3. SameGroup(Dequeue(rt, i), rt')
    BY <2>1, <2>2, StartsKeep DEF SameGroup
  <2> QED
    BY <2>2, <2>3, SameGroupComposes, MovesAreSound DEF Moves
<1>4. CASE ContinueQueued
  <2>1. PICK i : rt' = MessageStart(AgentStart(Dequeue(rt, i)), rt.queue[i])
    BY <1>4 DEF ContinueQueued
  <2>2. SameGroup(rt, Dequeue(rt, i))
    BY QuietKeeps
  <2>3. SameGroup(rt, AgentStart(Dequeue(rt, i)))
    BY <2>2, StartsKeep, SameGroupComposes DEF SameGroup
  <2>4. SameGroup(AgentStart(Dequeue(rt, i)), rt')
    BY <2>1, <2>3, StartsKeep DEF SameGroup
  <2> QED
    BY <2>3, <2>4, SameGroupComposes, MovesAreSound DEF Moves
<1> QED
  BY <1>1, <1>2, <1>3, <1>4

LEMMA TurnsSound ==
  ASSUME Sound(rt), Respond \/ CallTool \/ NextTurn \/ AgentEnd \/ Retry
  PROVE  StepIsSound
<1> IsRuntime(rt)
  BY DEF Sound
<1>1. ASSUME NEW r, Moves(rt, r), NEW stop, rt' = RecordTurn(r, stop)
      PROVE  StepIsSound
  <2>1. Moves(r, rt')
    BY <1>1, RecordTurnMoves, MovesOf
  <2> QED
    BY <1>1, <2>1, MovesCompose, MovesAreSound
<1>2. CASE Respond
  <2>1. ASSUME NEW spends, NEW stop \in Answers,
               rt' = RecordTurn([rt EXCEPT !.exhausted = @ \/ spends], stop)
                 \/ rt' = [rt EXCEPT !.exhausted = @ \/ spends]
        PROVE  StepIsSound
    <3> DEFINE spent == rt.exhausted \/ spends
    <3> HIDE DEF spent
    <3>1. Moves(rt, [rt EXCEPT !.exhausted = spent])
      BY FieldsKeep DEF Moves
    <3>2. rt' = RecordTurn([rt EXCEPT !.exhausted = spent], stop)
            \/ rt' = [rt EXCEPT !.exhausted = spent]
      BY <2>1 DEF spent
    <3> QED
      BY <1>1, <3>1, <3>2, MovesAreSound
  <2>2. CASE TurnEnds(rt, "aborted")
    BY <1>1, <2>2, MovesOf DEF TurnEnds
  <2> QED
    BY <1>2, <2>1, <2>2, Zenon DEF Respond, TurnEnds
<1>3. CASE CallTool
  <2> DEFINE tool == rt.run.tool \/ rt.run.auto
             attempted == [rt EXCEPT !.run.tool = tool]
             fresh == [attempted EXCEPT !.stale = FALSE]
             accepted == ~(rt.stale /\ Stopped(rt)) /\ Accepts(fresh)
             done == IF accepted THEN Execute(fresh) ELSE fresh
             s == IF rt.stale /\ Stopped(rt) THEN Abort(attempted) ELSE ToolEnds(done)
  <2>1. SameGroup(rt, attempted)
    <3> HIDE DEF tool
    <3> QED
      BY DEF SameGroup, IsRuntime
  <2>2. rt' = RecordTurn(s, "tool")
    BY <1>3 DEF CallTool, TurnEnds
  <2> HIDE DEF attempted
  <2>31. SameGroup(attempted, fresh)
    BY <2>1 DEF SameGroup, IsRuntime
  <2>3. SameGroup(rt, fresh)
    BY <2>1, <2>31, SameGroupComposes
  <2>4. accepted => Active(fresh)
    BY DEF Accepts, Owns
  <2> HIDE DEF fresh, accepted
  <2>5. Moves(fresh, done)
    BY <2>3, <2>4, ToolMoves, MovesOf DEF SameGroup
  <2> HIDE DEF done
  <2>6. Moves(rt, done)
    BY <2>3, <2>5, MovesCompose DEF Moves
  <2>7. Moves(rt, ToolEnds(done))
    BY <2>6, ToolMoves, MovesOf, MovesCompose
  <2>8. Moves(rt, Abort(attempted))
    BY <2>1, QuietKeeps, SameGroupComposes DEF SameGroup, Moves
  <2>9. Moves(rt, s)
    BY <2>7, <2>8
  <2> QED
    BY <1>1, <2>2, <2>9
<1>4. CASE NextTurn
  BY <1>4, MovesOf, MovesAreSound DEF NextTurn
<1>5. CASE AgentEnd
  <2> DEFINE bare == [rt EXCEPT !.run = NoRun]
  <2>1. PICK same \in BOOLEAN :
          rt' = [RunEnds(bare, rt.run, same) EXCEPT !.aborting = FALSE]
    BY <1>5 DEF AgentEnd
  <2>2. SameGroup(rt, bare)
    BY FieldsKeep
  <2> HIDE DEF bare
  <2> DEFINE run == rt.run
             ended == RunEnds(bare, run, same)
  <2> HIDE DEF run
  <2>3. Moves(rt, ended)
    BY <2>2, RunEndsMoves, MovesCompose DEF SameGroup, Moves
  <2>4. rt' = [ended EXCEPT !.aborting = FALSE]
    BY <2>1 DEF run
  <2> HIDE DEF ended
  <2>5. SameGroup(ended, rt')
    BY <2>3, <2>4, FieldsKeep, MovesOf
  <2> QED
    BY <2>3, <2>5, MovesCompose, MovesAreSound DEF Moves
<1>6. CASE Retry
  BY <1>6, StartsKeep, MovesAreSound DEF Retry, Moves
<1> QED
  BY <1>2, <1>3, <1>4, <1>5, <1>6

LEMMA TimersSound ==
  ASSUME Sound(rt), AgentSettled \/ DispatchTimer \/ DeadlinePasses
  PROVE  StepIsSound
<1> IsRuntime(rt)
  BY DEF Sound
<1>1. CASE AgentSettled
  <2> DEFINE final == FinalizeSettledRecovery(rt)
  <2>1. PICK way : LET done == IF WaitIsDue(final, way) THEN DispatchDueGoalWait(final, way)
                               ELSE Dispatch(final, way)
                   IN  rt' = [done EXCEPT !.guard = 0, !.inputs = <<>>, !.run = NoRun,
                                          !.aborting = FALSE]
    BY <1>1 DEF AgentSettled
  <2> DEFINE done == IF WaitIsDue(final, way) THEN DispatchDueGoalWait(final, way)
                     ELSE Dispatch(final, way)
  <2>2. Moves(rt, final)
    BY FinalizeMoves
  <2> HIDE DEF final
  <2>3. Moves(final, done)
    BY <2>2, DueWaitMoves, DispatchMoves, MovesOf
  <2> HIDE DEF done
  <2>4. Moves(rt, done) /\ IsRuntime(done)
    BY <2>2, <2>3, MovesCompose, MovesOf
  <2>5. rt' = [done EXCEPT !.guard = 0, !.inputs = <<>>, !.run = NoRun, !.aborting = FALSE]
    BY <2>1 DEF done
  <2>6. SameGroup(done, rt')
    BY <2>4, <2>5 DEF SameGroup, IsRuntime, NoRun
  <2> QED
    BY <2>4, <2>6, MovesCompose, MovesAreSound DEF Moves
<1>2. CASE DispatchTimer
  <2> DEFINE r == [rt EXCEPT !.timer = FALSE]
  <2>1. PICK way : rt' = Dispatch(r, way)
    BY <1>2 DEF DispatchTimer
  <2>2. SameGroup(rt, r)
    BY FieldsKeep
  <2> HIDE DEF r
  <2>3. Moves(rt, rt')
    BY <2>1, <2>2, DispatchMoves, MovesCompose DEF SameGroup, Moves
  <2> QED
    BY <2>3, MovesAreSound
<1>3. CASE DeadlinePasses
  <2> DEFINE late == [rt EXCEPT !.alarm = FALSE, !.due = TRUE]
  <2>1. PICK way : rt' = IF WaitIsDue(late, way) THEN DispatchDueGoalWait(late, way) ELSE late
    BY <1>3 DEF DeadlinePasses
  <2>2. SameGroup(rt, late)
    BY DEF SameGroup, IsRuntime
  <2> HIDE DEF late
  <2>3. Moves(rt, rt')
    BY <2>1, <2>2, DueWaitMoves, MovesCompose DEF SameGroup, Moves
  <2> QED
    BY <2>3, MovesAreSound
<1> QED
  BY <1>1, <1>2, <1>3

LEMMA CompactionSound ==
  ASSUME Sound(rt), (\E where \in Compacting : CompactBegins(where)) \/ CompactEnds \/ CompactFails
  PROVE  StepIsSound
<1> IsRuntime(rt)
  BY DEF Sound
<1>1. ASSUME NEW where, CompactBegins(where) PROVE StepIsSound
  BY <1>1, BeforeCompactMoves, MovesAreSound DEF CompactBegins
<1>2. CASE CompactEnds
  <2> DEFINE done == SessionCompact(rt)
  <2>1. rt' = AgentStart(done) \/ rt' = done
    BY <1>2 DEF CompactEnds
  <2>2. Moves(rt, done)
    BY SessionCompactMoves
  <2> HIDE DEF done
  <2>3. Moves(rt, rt')
    BY <2>1, <2>2, StartsKeep, MovesCompose, MovesOf DEF Moves
  <2> QED
    BY <2>3, MovesAreSound
<1>3. CASE CompactFails
  BY <1>3, MovesOf, MovesAreSound DEF CompactFails
<1> QED
  BY <1>1, <1>2, <1>3

LEMMA SessionsSound ==
  ASSUME Sound(rt), Reload \/ Crash
  PROVE  StepIsSound
<1> IsRuntime(rt)
  BY DEF Sound
<1>1. ASSUME NEW r, IsRuntime(r), SessionStart(r) PROVE StepIsSound
  <2>1. PICK owner \in {"none", "goal", "other"} :
          rt' = [Restored([r EXCEPT !.owner = owner]) EXCEPT !.aborting = FALSE]
    BY <1>1 DEF SessionStart, Starts
  <2> DEFINE old == [r EXCEPT !.owner = owner]
             new == Restored(old)
  <2>2. IsRuntime(old)
    BY <1>1 DEF IsRuntime
  <2> HIDE DEF old
  <2>3. Sound(new) /\ Follows(new)
    BY <2>2, RestoredFollows
  <2>4. rt' = [new EXCEPT !.aborting = FALSE]
    BY <2>1 DEF old
  <2> HIDE DEF new
  <2>5. SameGroup(new, rt')
    BY <2>3, <2>4, FieldsKeep DEF Sound
  <2> QED
    BY <2>3, <2>5, FollowingIsSound DEF SameGroup, Sound, Follows, Active
<1>2. \A r : IsRuntime(r) => IsRuntime(ReleaseWorkflow(r))
  BY DEF ReleaseWorkflow, IsRuntime
<1>3. CASE Reload
  <2> DEFINE r == IF Active(rt) THEN RecordUsage(rt) ELSE rt
  <2>1. IsRuntime(r)
    BY RecordKeeps DEF SameGroup
  <2>2. SessionStart(ReleaseWorkflow(Persist(r)))
    BY <1>3 DEF Reload
  <2> HIDE DEF r
  <2>3. IsRuntime(ReleaseWorkflow(Persist(r)))
    BY <1>2, <2>1, PersistKeeps DEF SameGroup
  <2> QED
    BY <1>1, <2>2, <2>3
<1>4. CASE Crash
  BY <1>1, <1>2, <1>4 DEF Crash
<1> QED
  BY <1>3, <1>4

LEMMA NextSound ==
  ASSUME Sound(rt), Next
  PROVE  StepIsSound
BY GoalCommandsSound, ResumeSound, EditSound, OutsideSound, MessagesSound, TurnsSound,
   TimersSound, CompactionSound, SessionsSound DEF Next, UserCommand, Run

(***************************************************************************)
(* The runtime is well-formed, and the status of its goal is the one in    *)
(* the session, which a reload or a compaction reads back.                 *)
(***************************************************************************)
THEOREM SessionKnowsTheStatus == Spec => []Sound(rt)
<1>1. Init => Sound(rt)
  <2> SUFFICES ASSUME Init PROVE Sound(rt)
    OBVIOUS
  <2>1. rt.run = [id |-> rt.run.id, auto |-> rt.run.auto, tool |-> rt.run.tool]
    BY DEF Init, NoRun
  <2> DEFINE goal == NoGoal
             run == NoRun
  <2>2. IsGoal(goal) /\ goal = NoGoal
    BY GoalValues
  <2>3. rt.goal = goal /\ rt.saved = goal /\ rt.owner = "none"
    BY DEF Init
  <2> HIDE DEF goal, run
  <2> QED
    BY <2>1, <2>2, <2>3 DEF Init, Sound, IsRuntime
<1>2. Sound(rt) /\ [Next]_vars => Sound(rt)'
  <2>1. CASE Sound(rt) /\ Next
    BY <2>1, NextSound DEF StepIsSound
  <2>2. CASE Sound(rt) /\ UNCHANGED vars
    BY <2>2 DEF vars
  <2> QED
    BY <2>1, <2>2
<1> QED
  BY <1>1, <1>2, PTL DEF Spec

(***************************************************************************)
(* pi-goal holds the group as long as a goal is active, and no longer: no  *)
(* way out of a command, of a run, of a compaction or of a restoration     *)
(* leaves one without the other, except the confirmed replacement of a     *)
(* goal that has stopped when the tools are gone (KeepsWhatItTook).        *)
(***************************************************************************)
THEOREM GroupCorrectOfGoal == Spec => GroupFollowsGoal
<1>1. Sound(rt) /\ [Next]_vars =>
        [GroupFollows /\ ~KeepsWhatItTook => GroupFollows']_vars
  BY NextSound DEF StepIsSound, Follows, GroupFollows, Active
<1> QED
  BY <1>1, SessionKnowsTheStatus, PTL DEF Spec, GroupFollowsGoal

-----------------------------------------------------------------------------
(***************************************************************************)
(* The work of pi-goal.  Every operator is taken apart once more, for all  *)
(* fields of the runtime: what it leaves is well-formed, requests and      *)
(* sends work of the goal that is active only, and does not disturb the    *)
(* prompt that Pi prepares.  Most of them write fields that are beside the *)
(* point (Aside), or cancel all work first (Calm).                         *)
(***************************************************************************)
Goals == [id : 0 .. MaxGoals, status : Statuses, waiting : Waitings, turns : Nat,
          repeats : Nat, spent : BOOLEAN, reset : BOOLEAN]
Mails == [kind : Kinds \cup {"goal", "cont"}, id : 0 .. MaxGoals, reset : BOOLEAN,
          mark : {"none", "pending", "live", "cancelled"}, at : {"sent", "starting", "queued"}]
Runs == [id : 0 .. Foreign, auto : BOOLEAN, tool : BOOLEAN]
Recoveries == [kind : {"none", "provider", "compaction"}, auto : BOOLEAN]

WellKept(g) ==
    /\ g \in Goals
    /\ g.status = "none" => g = NoGoal
    /\ g.status # "none" => g.id # 0
    /\ g.waiting # "no" => g.status = "active"

Typed(r) ==
    /\ r \in [goal : {r.goal}, intent : 0 .. MaxGoals, delivery : 0 .. MaxGoals,
              timer : BOOLEAN, recovery : Recoveries, run : Runs, guard : 0 .. MaxGoals,
              stale : BOOLEAN, inputs : {r.inputs}, retry : {"none", "armed", "exhausted"},
              alarm : BOOLEAN, due : BOOLEAN, exhausted : BOOLEAN,
              owner : {"none", "goal", "other"}, saved : {r.saved}, queue : {r.queue},
              aborting : BOOLEAN]
    /\ WellKept(r.goal) /\ WellKept(r.saved) /\ r.queue \in Seq(Mails)

\* An active goal holds the group; it is the one that the session has.
Held(r) == Active(r) => r.owner = "goal"
Sync(r) == r.saved = [r.goal EXCEPT !.spent = r.saved.spent]

\* No work is requested or sent; and: there is one thing at most, for the goal that is active.
Calm(r) ==
    /\ r.intent = 0 /\ r.delivery = 0 /\ ~r.timer
    /\ \A i \in DOMAIN r.queue : r.queue[i].mark # "live"
Owned(r) ==
    /\ {r.intent, r.delivery} \subseteq {0, r.goal.id}
    /\ r.intent = 0 \/ r.delivery = 0
    /\ r.intent # 0 \/ r.delivery # 0 => Active(r) /\ ~Waits(r)
    /\ r.timer => Active(r)
    /\ \A i \in DOMAIN r.queue : r.queue[i].mark = "live" => r.delivery # 0
    /\ \A i, j \in DOMAIN r.queue : {r.queue[i].mark, r.queue[j].mark} = {"live"} => i = j

Good(r) == Typed(r) /\ Held(r) /\ Owned(r) /\ Sync(r)

\* The prompt that Pi prepares, and what is left of a run between two runs.
Starting(r) == {i \in DOMAIN r.queue : r.queue[i].at = "starting"}
Rests(r) == r.guard = 0 /\ r.inputs = <<>>
Still(r, s) == Starting(s) = Starting(r) /\ (Rests(r) => Rests(s))

\* s is r but for fields that are beside the point.
Aside(r, s) ==
    /\ Typed(s) /\ s.goal = r.goal /\ s.saved = r.saved /\ s.owner = r.owner
    /\ s.intent = r.intent /\ s.delivery = r.delivery /\ s.timer = r.timer
    /\ s.queue = r.queue /\ (Rests(r) => Rests(s))

\* s is r without the work.
Calmed(r, s) ==
    /\ Typed(s) /\ Calm(s) /\ s.goal = r.goal /\ s.saved = r.saved /\ s.owner = r.owner
    /\ Still(r, s)

Keeps(r, s) == Good(s) /\ Still(r, s)

-----------------------------------------------------------------------------
LEMMA MinOf ==
  ASSUME NEW S \in SUBSET Nat, S # {}
  PROVE  Min(S) \in S /\ \A y \in S : Min(S) <= y
<1> DEFINE R == {ss \in Nat \X Nat : ss[1] < ss[2]}
<1>1. IsWellFoundedOn(R, Nat)
  BY NatLessThanWellFounded DEF OpToRel
<1>2. PICK x \in S : \A y \in S : ~(<<y, x>> \in R)
  <2> HIDE DEF R
  <2> QED
    BY <1>1, WFMin
<1>3. ASSUME NEW y \in S PROVE x <= y
  <2>1. x \in Nat /\ y \in Nat
    OBVIOUS
  <2>2. y < x => <<y, x>> \in R
    BY <2>1
  <2> QED
    BY <1>2, <2>1, <2>2
<1> QED
  BY <1>3 DEF Min

\* The first message that Pi has at a place.
LEMMA FirstIs ==
  ASSUME Typed(rt), NEW at
  PROVE  \/ FirstAt(at) = 0 /\ \A i \in DOMAIN rt.queue : rt.queue[i].at # at
         \/ FirstAt(at) \in DOMAIN rt.queue /\ rt.queue[FirstAt(at)].at = at
<1> DEFINE q == rt.queue
           I == {i \in 1 .. Len(q) : q[i].at = at}
<1>1. q \in Seq(Mails)
  BY DEF Typed
<1>2. FirstAt(at) = IF I # {} THEN Min(I) ELSE 0
  BY DEF FirstAt, SelectInSeq
<1>3. I # {} => Min(I) \in I
  <2>1. I \in SUBSET Nat
    OBVIOUS
  <2> HIDE DEF I
  <2> QED
    BY <2>1, MinOf
<1>4. 1 .. Len(q) = DOMAIN q /\ \A i \in 1 .. Len(q) : i # 0
  BY <1>1
<1>5. CASE I = {}
  BY <1>2, <1>4, <1>5
<1>6. CASE I # {}
  <2> DEFINE n == FirstAt(at)
  <2>1. n \in I
    BY <1>2, <1>3, <1>6
  <2> HIDE DEF n
  <2> QED
    BY <1>4, <2>1 DEF n
<1> QED
  BY <1>5, <1>6

LEMMA KeepsCompose ==
  ASSUME NEW r, NEW s, NEW t, Still(r, s), Keeps(s, t)
  PROVE  Keeps(r, t)
BY DEF Keeps, Still

LEMMA AsideKeeps ==
  ASSUME NEW r, NEW s, Aside(r, s)
  PROVE  /\ Still(r, s) /\ Typed(s)
         /\ Good(r) => Keeps(r, s)
         /\ Calm(r) => Calm(s)
<1>1. Still(r, s) /\ Typed(s)
  BY DEF Aside, Still, Starting
<1>2. Calm(r) => Calm(s)
  BY DEF Aside, Calm
<1>3. /\ s.goal = r.goal /\ s.saved = r.saved /\ s.owner = r.owner
      /\ s.intent = r.intent /\ s.delivery = r.delivery /\ s.timer = r.timer
      /\ s.queue = r.queue
  BY DEF Aside
<1>4. (Active(s) <=> Active(r)) /\ (Waits(s) <=> Waits(r))
  BY <1>3 DEF Active, Waits
<1>5. (Held(r) => Held(s)) /\ (Sync(r) => Sync(s))
  BY <1>3, <1>4 DEF Held, Sync
<1>6. Owned(r) => Owned(s)
  BY <1>3, <1>4 DEF Owned
<1> QED
  BY <1>1, <1>2, <1>5, <1>6 DEF Good, Keeps

LEMMA AsideComposes ==
  ASSUME NEW r, NEW s, NEW t, Aside(r, s), Aside(s, t)
  PROVE  Aside(r, t)
BY DEF Aside

LEMMA GoodIsKept ==
  ASSUME NEW r, Good(r)
  PROVE  Keeps(r, r) /\ Typed(r) /\ Held(r) /\ Owned(r)
BY DEF Keeps, Good, Still

LEMMA CalmIsOwned ==
  ASSUME NEW r, Calm(r)
  PROVE  Owned(r)
BY DEF Calm, Owned

LEMMA TypedValues ==
  /\ WellKept(NoGoal) /\ NoGoal.status = "none"
  /\ NoRecovery \in Recoveries /\ NoRun \in Runs
  /\ \A id \in 1 .. MaxGoals : WellKept(NewGoal(id)) /\ NewGoal(id).status = "active"
                              /\ NewGoal(id).id = id
<1>1. MaxGoals \in Nat
  BY GoalRunAssumption
<1>2. NoGoal \in Goals /\ NoGoal.status = "none" /\ NoGoal.waiting = "no"
  BY <1>1 DEF NoGoal, Goals, Statuses, Waitings
<1>3. WellKept(NoGoal)
  BY <1>2 DEF WellKept
<1>4. NoRecovery \in Recoveries /\ NoRun \in Runs
  BY <1>1 DEF NoRecovery, Recoveries, NoRun, Runs, Unowned, Foreign
<1>5. ASSUME NEW id \in 1 .. MaxGoals
      PROVE  WellKept(NewGoal(id)) /\ NewGoal(id).status = "active" /\ NewGoal(id).id = id
  <2> DEFINE g == NewGoal(id)
  <2>1. /\ g \in Goals /\ g.status = "active" /\ g.id = id /\ g.waiting = "no"
    <3> DEFINE none == NoGoal
    <3>1. none \in Goals /\ none.waiting = "no" /\ g = [none EXCEPT !.id = id, !.status = "active"]
      BY <1>2 DEF NewGoal
    <3>2. id \in 0 .. MaxGoals
      BY <1>1
    <3> HIDE DEF none, g
    <3> QED
      BY <3>1, <3>2 DEF Goals, Statuses
  <2> HIDE DEF g
  <2>2. WellKept(g)
    BY <2>1 DEF WellKept
  <2> QED
    BY <2>1, <2>2 DEF g
<1> QED
  BY <1>2, <1>3, <1>4, <1>5

LEMMA FreshKeeps ==
  ASSUME NEW g, WellKept(g)
  PROVE  WellKept(Fresh(g)) /\ Fresh(g).id = g.id
         /\ Fresh(g).status = g.status /\ Fresh(g).waiting = g.waiting
<1>1. /\ Fresh(g) \in Goals
      /\ Fresh(g) = [g EXCEPT !.turns = 0, !.repeats = 0, !.reset = FALSE]
  BY DEF WellKept, Goals, Fresh
<1>2. g.status # "none" => WellKept(Fresh(g))
  BY <1>1 DEF WellKept, Goals
<1>3. g.status = "none" => Fresh(g) = NoGoal
  <2>1. NoGoal \in Goals /\ NoGoal.turns = 0 /\ NoGoal.repeats = 0 /\ ~NoGoal.reset
    BY TypedValues DEF WellKept, NoGoal
  <2>2. Fresh(NoGoal) = NoGoal
    BY <2>1 DEF Fresh, Goals
  <2> QED
    BY <2>2 DEF WellKept
<1> QED
  BY <1>1, <1>2, <1>3 DEF WellKept, Goals

-----------------------------------------------------------------------------
LEMMA AsideFields ==
  ASSUME NEW r, Typed(r)
  PROVE  /\ Aside(r, Abort(r)) /\ Aside(r, ClearWaitTimer(r)) /\ Aside(r, RestoreWaitTimer(r))
         /\ Aside(r, [r EXCEPT !.recovery = NoRecovery])
         /\ Aside(r, [r EXCEPT !.run = NoRun])
         /\ \A b \in BOOLEAN : Aside(r, [r EXCEPT !.stale = b]) /\ Aside(r, [r EXCEPT !.exhausted = b])
                               /\ Aside(r, [r EXCEPT !.aborting = b])
         /\ \A id \in 0 .. Foreign, auto \in BOOLEAN : Aside(r, BeginRun(r, id, auto))
<1> USE DEF Aside, Typed, Rests
<1>1. Aside(r, Abort(r))
  BY DEF Abort
<1>2. Aside(r, ClearWaitTimer(r)) /\ Aside(r, RestoreWaitTimer(r))
  BY DEF ClearWaitTimer, RestoreWaitTimer, Owns
<1>3. Aside(r, [r EXCEPT !.recovery = NoRecovery]) /\ Aside(r, [r EXCEPT !.run = NoRun])
  BY TypedValues
<1>4. ASSUME NEW b \in BOOLEAN
      PROVE  Aside(r, [r EXCEPT !.stale = b]) /\ Aside(r, [r EXCEPT !.exhausted = b])
             /\ Aside(r, [r EXCEPT !.aborting = b])
  OBVIOUS
<1>5. ASSUME NEW id \in 0 .. Foreign, NEW auto \in BOOLEAN PROVE Aside(r, BeginRun(r, id, auto))
  BY DEF BeginRun, Runs
<1> QED
  BY <1>1, <1>2, <1>3, <1>4, <1>5

LEMMA CancelCalms ==
  ASSUME NEW r, Typed(r)
  PROVE  Calmed(r, CancelContinuation(r))
<1> DEFINE q == [i \in DOMAIN r.queue |-> IF r.queue[i].mark = "live"
                     THEN [r.queue[i] EXCEPT !.mark = "cancelled"] ELSE r.queue[i]]
           c == [r EXCEPT !.timer = FALSE, !.intent = 0, !.delivery = 0, !.queue = q]
<1>1. /\ q \in Seq(Mails) /\ DOMAIN q = DOMAIN r.queue
      /\ \A i \in DOMAIN q : q[i].mark # "live" /\ q[i].at = r.queue[i].at
  <2>1. /\ r.queue \in Seq(Mails) /\ Len(r.queue) \in Nat
        /\ DOMAIN r.queue = 1 .. Len(r.queue)
    BY DEF Typed
  <2>2. ASSUME NEW i \in DOMAIN r.queue
        PROVE  q[i] \in Mails /\ q[i].mark # "live" /\ q[i].at = r.queue[i].at
    <3>1. r.queue[i] \in Mails
      BY <2>1
    <3> QED
      BY <3>1 DEF Mails
  <2>3. q \in [1 .. Len(r.queue) -> Mails]
    BY <2>1, <2>2
  <2>4. q \in Seq(Mails)
    <3> HIDE DEF q
    <3> QED
      BY <2>1, <2>3
  <2> QED
    BY <2>2, <2>4
<1> HIDE DEF q
<1>2. /\ Typed(c) /\ c.goal = r.goal /\ c.saved = r.saved /\ c.owner = r.owner
      /\ ~c.timer /\ c.intent = 0 /\ c.delivery = 0 /\ c.queue = q
      /\ c.guard = r.guard /\ c.inputs = r.inputs
  <2>1. 0 \in 0 .. MaxGoals
    BY GoalRunAssumption
  <2> QED
    BY <1>1, <2>1 DEF Typed
<1> HIDE DEF c
<1>3. Calmed(r, c)
  BY <1>1, <1>2 DEF Calmed, Calm, Still, Starting, Rests
<1> QED
  BY <1>3 DEF CancelContinuation, q, c

LEMMA PersistGood ==
  ASSUME NEW r, Typed(r)
  PROVE  /\ Typed(Persist(r)) /\ Still(r, Persist(r)) /\ Persist(r).goal = r.goal
         /\ Sync(Persist(r)) /\ Persist(r).owner = r.owner
         /\ Calm(r) => Calm(Persist(r))
         /\ Held(r) /\ Owned(r) => Keeps(r, Persist(r))
<1> DEFINE p == Persist(r)
<1>1. /\ Typed(p) /\ p.goal = r.goal /\ p.saved = r.goal /\ p.owner = r.owner
      /\ p.queue = r.queue /\ p.intent = r.intent /\ p.delivery = r.delivery
      /\ p.timer = r.timer /\ p.guard = r.guard /\ p.inputs = r.inputs
  BY DEF Persist, Typed
<1> HIDE DEF p
<1>2. Sync(p)
  <2>1. r.goal \in Goals
    BY DEF Typed, WellKept
  <2> QED
    BY <1>1, <2>1 DEF Sync, Goals
<1>3. Still(r, p) /\ (Calm(r) => Calm(p)) /\ (Held(r) => Held(p))
  BY <1>1 DEF Still, Starting, Rests, Calm, Held, Active
<1>4. Owned(r) => Owned(p)
  <2>1. (Active(p) <=> Active(r)) /\ (Waits(p) <=> Waits(r))
    BY <1>1 DEF Active, Waits
  <2> QED
    BY <1>1, <2>1 DEF Owned
<1> QED
  BY <1>1, <1>2, <1>3, <1>4 DEF p, Keeps, Good

LEMMA RecordGood ==
  ASSUME NEW r, Typed(r)
  PROVE  /\ Typed(RecordUsage(r)) /\ Still(r, RecordUsage(r))
         /\ RecordUsage(r).owner = r.owner
         /\ RecordUsage(r).goal.id = r.goal.id /\ RecordUsage(r).goal.status = r.goal.status
         /\ RecordUsage(r).goal.waiting = r.goal.waiting
         /\ Calm(r) => Calm(RecordUsage(r))
         /\ Owned(r) => Owned(RecordUsage(r))
         /\ Good(r) => Keeps(r, RecordUsage(r))
<1> DEFINE spent == r.exhausted
           u == [r EXCEPT !.goal.spent = spent]
<1>1. r.goal # NoGoal =>
        /\ Typed(u) /\ u.owner = r.owner /\ u.saved = r.saved
        /\ u.goal = [r.goal EXCEPT !.spent = spent]
        /\ u.queue = r.queue /\ u.intent = r.intent /\ u.delivery = r.delivery
        /\ u.timer = r.timer /\ u.guard = r.guard /\ u.inputs = r.inputs
  BY DEF Typed, WellKept, Goals
<1>2. r.goal \in Goals /\ r.saved \in Goals
  BY DEF Typed, WellKept
<1>3. RecordUsage(r) = r \/ (r.goal # NoGoal /\ RecordUsage(r) = u)
  BY Zenon DEF RecordUsage
<1> HIDE DEF u, spent
<1>4. CASE RecordUsage(r) = r
  BY <1>4 DEF Still, Keeps
<1>5. CASE r.goal # NoGoal /\ RecordUsage(r) = u
  <2>1. /\ u.goal.id = r.goal.id /\ u.goal.status = r.goal.status
        /\ u.goal.waiting = r.goal.waiting
    BY <1>1, <1>2, <1>5 DEF Goals
  <2>2. Sync(r) => Sync(u)
    BY <1>1, <1>2, <1>5 DEF Sync, Goals
  <2>3. /\ Still(r, u) /\ (Calm(r) => Calm(u)) /\ (Held(r) => Held(u))
    BY <1>1, <1>5, <2>1 DEF Still, Starting, Rests, Calm, Held, Active
  <2>4. Owned(r) => Owned(u)
    BY <1>1, <1>5, <2>1 DEF Owned, Active, Waits
  <2> QED
    BY <1>1, <1>5, <2>1, <2>2, <2>3, <2>4 DEF Keeps, Good
<1> QED
  BY <1>3, <1>4, <1>5

-----------------------------------------------------------------------------
LEMMA StillComposes ==
  ASSUME NEW r, NEW s, NEW t, Still(r, s), Still(s, t)
  PROVE  Still(r, t)
BY DEF Still

LEMMA CalmedIs ==
  ASSUME NEW r, NEW s, Calmed(r, s)
  PROVE  /\ Typed(s) /\ Calm(s) /\ Owned(s) /\ Still(r, s)
         /\ s.goal = r.goal /\ s.owner = r.owner
         /\ Held(r) => Held(s)
         /\ Good(r) => Keeps(r, s)
BY CalmIsOwned DEF Calmed, Held, Active, Good, Keeps, Sync

\* A runtime without work may get another goal.
LEMMA NewGoalKeeps ==
  ASSUME NEW r, Calm(r), NEW s,
         /\ s.queue = r.queue /\ s.intent = r.intent /\ s.delivery = r.delivery
         /\ s.timer = r.timer,
         s.guard = r.guard /\ s.inputs = r.inputs
  PROVE  Calm(s) /\ Owned(s) /\ Still(r, s)
<1>1. Calm(s) /\ Still(r, s)
  BY DEF Calm, Still, Starting, Rests
<1> QED
  BY <1>1, CalmIsOwned

\* What has become of a runtime whose goal has changed only where nobody looks.
LEMMA GoalChanges ==
  ASSUME NEW r, Typed(r), Owned(r), NEW s, Typed(s),
         s.goal.id = r.goal.id, s.goal.status = r.goal.status,
         /\ s.queue = r.queue /\ s.intent = r.intent /\ s.delivery = r.delivery
         /\ s.timer = r.timer,
         s.guard = r.guard /\ s.inputs = r.inputs,
         \/ s.goal.waiting \in {"no", r.goal.waiting}
         \/ r.intent = 0 /\ r.delivery = 0
  PROVE  Owned(s) /\ Still(r, s) /\ (Active(s) <=> Active(r))
<1>1. Still(r, s) /\ (Active(s) <=> Active(r))
  BY DEF Still, Starting, Rests, Active
<1>2. r.intent # 0 \/ r.delivery # 0 => (Waits(s) => Waits(r))
  BY DEF Waits
<1>3. Owned(s)
  BY <1>1, <1>2 DEF Owned
<1> QED
  BY <1>1, <1>3

LEMMA WaitingGoal ==
  ASSUME NEW g, WellKept(g), g.status = "active", NEW waiting \in Waitings
  PROVE  LET h == [g EXCEPT !.waiting = waiting]
         IN  WellKept(h) /\ h.id = g.id /\ h.status = g.status /\ h.waiting = waiting
BY DEF WellKept, Goals

LEMMA EnterWaitGood ==
  ASSUME NEW r, Typed(r), Active(r), Held(r), NEW waiting \in Waitings
  PROVE  Keeps(r, EnterGoalWait(r, waiting)) /\ Active(EnterGoalWait(r, waiting))
<1> DEFINE a == RecordUsage(r)
           c == CancelContinuation(a)
           b == [c EXCEPT !.recovery = NoRecovery]
           t == [b EXCEPT !.goal.waiting = waiting]
           p == Persist(t)
<1>1. Typed(a) /\ Still(r, a) /\ Active(a) /\ Held(a)
  BY RecordGood DEF Active, Held
<1> HIDE DEF a
<1>2. Typed(c) /\ Calm(c) /\ Still(a, c) /\ Active(c) /\ Held(c)
  BY <1>1, CancelCalms, CalmedIs DEF Active
<1> HIDE DEF c
<1>3. Typed(b) /\ Calm(b) /\ Still(c, b) /\ Active(b) /\ Held(b)
  BY <1>2, AsideFields, AsideKeeps DEF Aside, Active, Held
<1> HIDE DEF b
<1>4. Typed(t) /\ Owned(t) /\ Still(b, t) /\ Active(t) /\ Held(t)
  <2>1. b.intent = 0 /\ b.delivery = 0 /\ Owned(b) /\ b.goal.status = "active" /\ WellKept(b.goal)
    BY <1>3, CalmIsOwned DEF Calm, Active, Typed
  <2> DEFINE goal == [b.goal EXCEPT !.waiting = waiting]
  <2>2. WellKept(goal) /\ goal.id = b.goal.id /\ goal.status = b.goal.status
    BY <2>1, WaitingGoal
  <2>3. t = [b EXCEPT !.goal = goal]
    BY <1>3 DEF Typed
  <2> HIDE DEF goal, t
  <2>4. /\ Typed(t) /\ t.goal = goal /\ t.owner = b.owner
        /\ t.queue = b.queue /\ t.intent = b.intent /\ t.delivery = b.delivery
        /\ t.timer = b.timer /\ t.guard = b.guard /\ t.inputs = b.inputs
    BY <1>3, <2>2, <2>3 DEF Typed
  <2>5. Owned(t) /\ Still(b, t) /\ (Active(t) <=> Active(b))
    BY <1>3, <2>1, <2>2, <2>4, GoalChanges
  <2> QED
    BY <1>3, <2>4, <2>5 DEF Held
<1> HIDE DEF t
<1>5. Keeps(t, p) /\ Active(p)
  BY <1>4, PersistGood DEF Active
<1> HIDE DEF p
<1>6. Keeps(p, RestoreWaitTimer(p)) /\ Active(RestoreWaitTimer(p))
  BY <1>5, AsideFields, AsideKeeps DEF Aside, Active, Keeps, Good
<1>7. Keeps(r, RestoreWaitTimer(p))
  BY <1>1, <1>2, <1>3, <1>4, <1>5, <1>6, StillComposes, KeepsCompose DEF Keeps
<1> QED
  BY <1>6, <1>7 DEF EnterGoalWait, a, b, c, t, p

LEMMA ClearWaitGood ==
  ASSUME NEW r, Good(r)
  PROVE  /\ Keeps(r, ClearGoalWait(r))
         /\ ClearGoalWait(r).goal = [r.goal EXCEPT !.waiting = ClearGoalWait(r).goal.waiting]
         /\ ClearGoalWait(r).owner = r.owner
         /\ Owns(r) => ~Waits(ClearGoalWait(r))
<1>1. CASE ~(Owns(r) /\ Waits(r))
  <2>1. ClearGoalWait(r) = r
    BY <1>1 DEF ClearGoalWait
  <2>2. r.goal \in Goals
    BY DEF Good, Typed, WellKept
  <2> QED
    BY <1>1, <2>1, <2>2, GoodIsKept DEF Goals
<1>2. CASE Owns(r) /\ Waits(r)
  <2> DEFINE w == ClearWaitTimer(r)
             s == [w EXCEPT !.goal.waiting = "no", !.due = FALSE]
  <2>1. Aside(r, w) /\ Keeps(r, w)
    BY AsideFields, AsideKeeps DEF Good
  <2>2. Typed(w) /\ Owned(w) /\ Active(w) /\ Held(w) /\ w.goal = r.goal /\ w.owner = r.owner
    BY <1>2, <2>1 DEF Aside, Keeps, Good, Active, Owns
  <2> HIDE DEF w
  <2>3. /\ Typed(s) /\ Owned(s) /\ Still(w, s) /\ Active(s) /\ Held(s) /\ s.owner = r.owner
        /\ s.goal = [r.goal EXCEPT !.waiting = "no"] /\ s.goal.waiting = "no"
    <3> DEFINE goal == [w.goal EXCEPT !.waiting = "no"]
    <3>1. WellKept(w.goal) /\ w.goal.status = "active" /\ "no" \in Waitings
      BY <2>2 DEF Typed, Active, Waitings
    <3>2. WellKept(goal) /\ goal.id = w.goal.id /\ goal.status = w.goal.status
          /\ goal.waiting = "no"
      BY <3>1, WaitingGoal
    <3>3. s = [w EXCEPT !.goal = goal, !.due = FALSE]
      BY <2>2 DEF Typed
    <3> HIDE DEF goal, s
    <3>4. /\ Typed(s) /\ s.goal = goal /\ s.owner = w.owner
          /\ s.queue = w.queue /\ s.intent = w.intent /\ s.delivery = w.delivery
          /\ s.timer = w.timer /\ s.guard = w.guard /\ s.inputs = w.inputs
      BY <2>2, <3>2, <3>3 DEF Typed
    <3>5. Owned(s) /\ Still(w, s) /\ (Active(s) <=> Active(w))
      BY <2>2, <3>2, <3>4, GoalChanges
    <3> QED
      BY <2>2, <3>2, <3>4, <3>5 DEF Held, goal
  <2> HIDE DEF s
  <2>4. Keeps(s, Persist(s)) /\ Persist(s).goal = s.goal /\ Persist(s).owner = s.owner
    BY <2>3, PersistGood
  <2>5. Keeps(r, Persist(s))
    BY <2>1, <2>3, <2>4, StillComposes, KeepsCompose DEF Keeps
  <2> QED
    BY <1>2, <2>3, <2>4, <2>5 DEF ClearGoalWait, w, s, Waits
<1> QED
  BY <1>1, <1>2

-----------------------------------------------------------------------------
LEMMA ResetGood ==
  ASSUME NEW r, Good(r)
  PROVE  Keeps(r, ResetEpoch(r))
<1> DEFINE goal == Fresh(r.goal)
           run == [r.run EXCEPT !.auto = FALSE]
           s == [r EXCEPT !.goal = goal, !.run = run]
<1>1. CASE Active(r)
  <2>1. WellKept(goal) /\ goal.id = r.goal.id /\ goal.status = r.goal.status
        /\ goal.waiting = r.goal.waiting
    BY FreshKeeps DEF Good, Typed
  <2>2. run \in Runs
    BY DEF Good, Typed, Runs
  <2>3. ResetEpoch(r) = Persist(s)
    BY <1>1 DEF ResetEpoch, Good, Typed
  <2> HIDE DEF goal, run
  <2>4. /\ Typed(s) /\ s.goal = goal /\ s.owner = r.owner
        /\ s.queue = r.queue /\ s.intent = r.intent /\ s.delivery = r.delivery
        /\ s.timer = r.timer /\ s.guard = r.guard /\ s.inputs = r.inputs
    BY <2>1, <2>2 DEF Good, Typed
  <2> HIDE DEF s
  <2>5. Owned(s) /\ Still(r, s) /\ (Active(s) <=> Active(r))
    BY <2>1, <2>4, GoalChanges DEF Good
  <2>6. Keeps(s, Persist(s))
    BY <2>4, <2>5, PersistGood DEF Good, Held
  <2> QED
    BY <2>3, <2>5, <2>6, KeepsCompose
<1>2. CASE ~Active(r)
  BY <1>2, GoodIsKept DEF ResetEpoch
<1> QED
  BY <1>1, <1>2

LEMMA FollowUpGood ==
  ASSUME NEW r, Good(r), NEW resets
  PROVE  Keeps(r, FollowUp(r, resets))
<1> DEFINE calm == [r EXCEPT !.recovery = NoRecovery]
           s == [calm EXCEPT !.stale = FALSE]
           id == IF Active(r) THEN r.goal.id ELSE Foreign
           run == BeginRun(s, id, FALSE)
<1>1. Keeps(r, calm)
  BY AsideFields, AsideKeeps DEF Good
<1> HIDE DEF calm
<1>2. Keeps(calm, s)
  BY <1>1, AsideFields, AsideKeeps DEF Good, Keeps
<1> HIDE DEF s
<1>3. id \in 0 .. Foreign
  <2>1. r.goal.id \in 0 .. MaxGoals
    BY DEF Good, Typed, WellKept, Goals
  <2>2. MaxGoals \in Nat /\ Foreign = MaxGoals + 1
    BY GoalRunAssumption DEF Foreign
  <2> QED
    BY <2>1, <2>2
<1> HIDE DEF id
<1>4. Keeps(s, run)
  BY <1>2, <1>3, AsideFields, AsideKeeps DEF Good, Keeps
<1> HIDE DEF run
<1>5. Keeps(r, run)
  BY <1>1, <1>2, <1>4, KeepsCompose DEF Keeps
<1>6. Keeps(r, ResetEpoch(run))
  BY <1>5, ResetGood, KeepsCompose DEF Keeps
<1> QED
  BY <1>5, <1>6, Zenon DEF FollowUp, calm, s, id, run

LEMMA RequestGood ==
  ASSUME NEW r, Good(r)
  PROVE  /\ Keeps(r, RequestContinuation(r))
         /\ RequestContinuation(r).goal = r.goal /\ RequestContinuation(r).owner = r.owner
<1> DEFINE id == r.goal.id
           s == [r EXCEPT !.intent = id]
<1>1. CASE Owns(r) /\ ~Waits(r) /\ r.goal.id \notin {r.intent, r.delivery}
  <2>1. RequestContinuation(r) = s
    BY <1>1 DEF RequestContinuation
  <2>2. id \in 0 .. MaxGoals
    BY DEF Good, Typed, WellKept, Goals
  <2>3. r.intent = 0 /\ r.delivery = 0
    BY <1>1 DEF Good, Owned
  <2> HIDE DEF id
  <2>4. /\ Typed(s) /\ s.goal = r.goal /\ s.owner = r.owner /\ s.saved = r.saved
        /\ s.queue = r.queue /\ s.intent = id /\ s.delivery = r.delivery
        /\ s.timer = r.timer /\ s.guard = r.guard /\ s.inputs = r.inputs
    BY <2>2 DEF Good, Typed
  <2> HIDE DEF s
  <2>5. Still(r, s) /\ Held(s) /\ Sync(s)
    BY <2>4 DEF Still, Starting, Rests, Held, Active, Good, Sync
  <2>6. Owned(s)
    BY <1>1, <2>3, <2>4 DEF Owned, Good, Active, Waits, Owns, id
  <2> QED
    BY <2>1, <2>4, <2>5, <2>6 DEF Keeps, Good
<1>2. CASE ~(Owns(r) /\ ~Waits(r) /\ r.goal.id \notin {r.intent, r.delivery})
  <2>1. RequestContinuation(r) = r
    BY <1>2 DEF RequestContinuation
  <2> QED
    BY <2>1, GoodIsKept
<1> QED
  BY <1>1, <1>2

-----------------------------------------------------------------------------
LEMMA ReleaseTyped ==
  ASSUME NEW r, Typed(r)
  PROVE  LET s == ReleaseWorkflow(r) IN
         /\ Typed(s) /\ s.goal = r.goal /\ s.saved = r.saved /\ Still(r, s)
         /\ s.owner # "goal" /\ (s.owner = r.owner \/ s.owner = "none")
         /\ s.intent = r.intent /\ s.delivery = r.delivery /\ s.timer = r.timer
         /\ s.queue = r.queue
<1> DEFINE owner == IF r.owner = "goal" THEN "none" ELSE r.owner
           s == [r EXCEPT !.owner = owner]
<1>1. owner \in {"none", "other"} /\ (owner = r.owner \/ owner = "none")
  BY DEF Typed
<1>2. ReleaseWorkflow(r) = s
  BY DEF ReleaseWorkflow
<1> HIDE DEF owner
<1>3. /\ Typed(s) /\ s.goal = r.goal /\ s.saved = r.saved /\ s.owner = owner
      /\ s.intent = r.intent /\ s.delivery = r.delivery /\ s.timer = r.timer
      /\ s.queue = r.queue /\ s.guard = r.guard /\ s.inputs = r.inputs
  BY <1>1 DEF Typed
<1> HIDE DEF s
<1>4. Still(r, s)
  BY <1>3 DEF Still, Starting, Rests
<1> QED
  BY <1>1, <1>2, <1>3, <1>4

LEMMA ReleaseGood ==
  ASSUME NEW r, Good(r), ~Active(r)
  PROVE  Keeps(r, ReleaseWorkflow(r))
<1> DEFINE s == ReleaseWorkflow(r)
<1>1. /\ Typed(s) /\ s.goal = r.goal /\ s.saved = r.saved /\ Still(r, s)
      /\ s.intent = r.intent /\ s.delivery = r.delivery /\ s.timer = r.timer
      /\ s.queue = r.queue
  BY ReleaseTyped DEF Good
<1> HIDE DEF s
<1>2. Held(s) /\ Sync(s) /\ Owned(s)
  BY <1>1 DEF Good, Held, Sync, Owned, Active, Waits
<1> QED
  BY <1>1, <1>2 DEF Keeps, Good, s

LEMMA StopGood ==
  ASSUME NEW r, Typed(r), r.goal.status # "none", NEW effects,
         NEW status \in Statuses \ {"none", "active"}
  PROVE  /\ Good(Stop(r, status, effects)) /\ ~Active(Stop(r, status, effects))
         /\ Starting(Stop(r, status, effects)) = Starting(r)
         /\ "guard" \notin effects => Keeps(r, Stop(r, status, effects))
<1> DEFINE recorded == IF "usage" \in effects THEN RecordUsage(r) ELSE r
           quiet == CancelContinuation(ClearWaitTimer(recorded))
           stale == "unblocked" \notin effects
           guard == IF "guard" \in effects THEN r.goal.id ELSE quiet.guard
           aborting == quiet.aborting \/ ("abort" \in effects /\ phase # "idle")
           goal == [quiet.goal EXCEPT !.status = status, !.waiting = "no"]
           none == NoRecovery
           stopped == [quiet EXCEPT
            !.recovery = none, !.stale = stale, !.guard = guard,
            !.aborting = aborting, !.goal = goal, !.due = FALSE]
<1>1. Typed(recorded) /\ Still(r, recorded) /\ recorded.goal.id = r.goal.id
      /\ recorded.goal.status = r.goal.status
  BY RecordGood DEF Still
<1> HIDE DEF recorded
<1>2. /\ Typed(quiet) /\ Calm(quiet) /\ Still(recorded, quiet) /\ quiet.goal = recorded.goal
  <2> DEFINE w == ClearWaitTimer(recorded)
  <2>1. Aside(recorded, w) /\ Still(recorded, w) /\ Typed(w)
    BY <1>1, AsideFields, AsideKeeps
  <2> HIDE DEF w
  <2>2. Calmed(w, CancelContinuation(w))
    BY <2>1, CancelCalms
  <2> QED
    BY <2>1, <2>2, CalmedIs, StillComposes DEF Aside, w
<1>3. Stop(r, status, effects) = ReleaseWorkflow(Persist(stopped))
  <2> DEFINE raw == [quiet EXCEPT
            !.recovery = NoRecovery, !.stale = "unblocked" \notin effects,
            !.guard = IF "guard" \in effects THEN r.goal.id ELSE @,
            !.aborting = @ \/ ("abort" \in effects /\ phase # "idle"),
            !.goal.status = status, !.goal.waiting = "no", !.due = FALSE]
  <2>1. Stop(r, status, effects) = ReleaseWorkflow(Persist(raw))
    BY DEF Stop, recorded
  <2>2. raw = stopped
    <3> HIDE DEF quiet
    <3> QED
      BY <1>2 DEF Typed
  <2> QED
    BY <2>1, <2>2
<1> HIDE DEF quiet
<1>4. WellKept(goal) /\ goal.status = status /\ goal.id = r.goal.id
  <2>1. /\ quiet.goal \in Goals /\ quiet.goal.id = r.goal.id /\ r.goal.id # 0
        /\ status \in Statuses /\ status # "none" /\ "no" \in Waitings
    BY <1>1, <1>2 DEF Typed, WellKept, Waitings
  <2>2. goal \in Goals /\ goal.status = status /\ goal.id = r.goal.id /\ goal.waiting = "no"
    BY <2>1 DEF Goals
  <2> HIDE DEF goal
  <2> QED
    BY <2>1, <2>2 DEF WellKept
<1>5. /\ stale \in BOOLEAN /\ aborting \in BOOLEAN /\ guard \in 0 .. MaxGoals
      /\ "guard" \notin effects => guard = quiet.guard
  BY <1>2 DEF Typed, WellKept, Goals
<1>6. none \in Recoveries
  BY TypedValues
<1> HIDE DEF stale, guard, aborting, goal, none
<1>7. /\ Typed(stopped) /\ stopped.goal = goal /\ stopped.queue = quiet.queue
      /\ stopped.intent = quiet.intent /\ stopped.delivery = quiet.delivery
      /\ stopped.timer = quiet.timer /\ stopped.inputs = quiet.inputs
      /\ stopped.guard = guard
  <2> DEFINE aside == [quiet EXCEPT !.recovery = none, !.stale = stale, !.aborting = aborting,
                                    !.due = FALSE]
  <2>1. /\ Typed(aside) /\ aside.queue = quiet.queue /\ aside.inputs = quiet.inputs
        /\ aside.intent = quiet.intent /\ aside.delivery = quiet.delivery
        /\ aside.timer = quiet.timer
    BY <1>2, <1>5, <1>6 DEF Typed
  <2>2. stopped = [aside EXCEPT !.guard = guard, !.goal = goal]
    BY <1>2 DEF Typed
  <2> HIDE DEF aside, stopped
  <2> QED
    BY <1>4, <1>5, <2>1, <2>2 DEF Typed
<1> HIDE DEF stopped
<1>8. /\ Calm(stopped) /\ Starting(stopped) = Starting(quiet) /\ ~Active(stopped)
      /\ "guard" \notin effects => Still(quiet, stopped)
  BY <1>2, <1>4, <1>5, <1>7 DEF Calm, Still, Starting, Rests, Active
<1>9. Keeps(stopped, Persist(stopped)) /\ ~Active(Persist(stopped))
  BY <1>7, <1>8, PersistGood, CalmIsOwned DEF Held, Active
<1>10. Keeps(Persist(stopped), ReleaseWorkflow(Persist(stopped)))
       /\ ~Active(ReleaseWorkflow(Persist(stopped)))
  BY <1>9, ReleaseGood, ReleaseTyped DEF Keeps, Good, Active
<1> QED
  BY <1>1, <1>2, <1>3, <1>8, <1>9, <1>10, StillComposes, KeepsCompose
     DEF Keeps, Still

LEMMA StopsGood ==
  ASSUME NEW r, Typed(r), r.goal.status # "none"
  PROVE  /\ Keeps(r, SafetyPause(r, FALSE)) /\ ~Active(SafetyPause(r, FALSE))
         /\ Good(SafetyPause(r, TRUE)) /\ ~Active(SafetyPause(r, TRUE))
         /\ Starting(SafetyPause(r, TRUE)) = Starting(r)
         /\ \A aborts \in BOOLEAN : Keeps(r, PauseForTools(r, aborts))
                                    /\ ~Active(PauseForTools(r, aborts))
         /\ Keeps(r, BudgetStop(r)) /\ ~Active(BudgetStop(r))
<1>1. {"paused", "budget_limited"} \subseteq Statuses \ {"none", "active"}
  BY DEF Statuses
<1>2. Keeps(r, SafetyPause(r, FALSE)) /\ ~Active(SafetyPause(r, FALSE))
  BY <1>1, StopGood DEF SafetyPause
<1>3. /\ Good(SafetyPause(r, TRUE)) /\ ~Active(SafetyPause(r, TRUE))
      /\ Starting(SafetyPause(r, TRUE)) = Starting(r)
  BY <1>1, StopGood DEF SafetyPause
<1>4. ASSUME NEW aborts \in BOOLEAN
      PROVE  Keeps(r, PauseForTools(r, aborts)) /\ ~Active(PauseForTools(r, aborts))
  <2> DEFINE effects == {"usage"} \union IF aborts THEN {"abort"} ELSE {"unblocked"}
  <2>1. "guard" \notin effects
    OBVIOUS
  <2> HIDE DEF effects
  <2>2. Keeps(r, Stop(r, "paused", effects)) /\ ~Active(Stop(r, "paused", effects))
    BY <1>1, <2>1, StopGood
  <2> QED
    BY <2>2 DEF PauseForTools, effects
<1>5. Keeps(r, BudgetStop(r)) /\ ~Active(BudgetStop(r))
  BY <1>1, StopGood DEF BudgetStop
<1> QED
  BY <1>2, <1>3, <1>4, <1>5

-----------------------------------------------------------------------------
LEMMA QuietCalms ==
  ASSUME NEW r, Typed(r)
  PROVE  Calmed(r, Quiet(r))
<1> DEFINE w == ClearWaitTimer(r)
           c == CancelContinuation(w)
           q == [c EXCEPT !.recovery = NoRecovery, !.due = FALSE]
<1>1. Aside(r, w)
  BY AsideFields
<1>2. Calmed(w, c)
  BY <1>1, CancelCalms DEF Aside
<1>3. Quiet(r) = q
  BY DEF Quiet
<1> HIDE DEF w, c
<1>4. Typed(q) /\ Aside(c, q)
  BY <1>2, TypedValues DEF Aside, Typed, Rests, Calmed
<1> HIDE DEF q
<1>5. Calmed(r, q)
  BY <1>1, <1>2, <1>4 DEF Aside, Calmed, Calm, Still, Starting
<1> QED
  BY <1>3, <1>5

LEMMA ClearedGood ==
  ASSUME NEW r, Typed(r)
  PROVE  Keeps(r, Cleared(r)) /\ ~Active(Cleared(r))
<1> DEFINE q == Quiet(r)
           none == NoGoal
           s == [q EXCEPT !.stale = FALSE, !.goal = none, !.exhausted = FALSE]
           p == Persist(s)
<1>1. Typed(q) /\ Calm(q) /\ Still(r, q)
  BY QuietCalms, CalmedIs
<1>2. Cleared(r) = ReleaseWorkflow(p)
  BY DEF Cleared
<1>3. WellKept(none) /\ none.status = "none"
  BY TypedValues
<1> HIDE DEF q, none
<1>4. Typed(s) /\ Calm(s) /\ Still(q, s) /\ ~Active(s)
  <2>1. /\ Typed(s) /\ s.goal = none
        /\ s.queue = q.queue /\ s.intent = q.intent /\ s.delivery = q.delivery
        /\ s.timer = q.timer /\ s.guard = q.guard /\ s.inputs = q.inputs
    BY <1>1, <1>3 DEF Typed
  <2> HIDE DEF s
  <2> QED
    BY <1>1, <1>3, <2>1, NewGoalKeeps DEF Active
<1> HIDE DEF s
<1>5. Keeps(s, p) /\ ~Active(p)
  BY <1>4, PersistGood, CalmIsOwned DEF Held, Active
<1> HIDE DEF p
<1>6. Keeps(p, ReleaseWorkflow(p)) /\ ~Active(ReleaseWorkflow(p))
  BY <1>5, ReleaseGood, ReleaseTyped DEF Keeps, Active, Good
<1> QED
  BY <1>1, <1>2, <1>4, <1>5, <1>6, StillComposes, KeepsCompose DEF Keeps

LEMMA RollBackGood ==
  ASSUME NEW r, Typed(r), Calm(r), NEW goal, WellKept(goal)
  PROVE  Keeps(r, RollBack(r, goal))
<1> DEFINE stale == goal.status # "active"
           back == [r EXCEPT !.goal = goal, !.stale = stale]
<1>1. stale \in BOOLEAN
  OBVIOUS
<1>2. RollBack(r, goal) =
        IF goal = NoGoal THEN Cleared(back)
        ELSE IF goal.status = "active"
        THEN RestoreWaitTimer(Persist([back EXCEPT !.owner = "goal"]))
        ELSE ReleaseWorkflow(Persist(back))
  BY DEF RollBack
<1> HIDE DEF stale
<1>3. Typed(back) /\ Calm(back) /\ Still(r, back) /\ back.goal = goal
  <2>1. /\ Typed(back) /\ back.goal = goal
        /\ back.queue = r.queue /\ back.intent = r.intent /\ back.delivery = r.delivery
        /\ back.timer = r.timer /\ back.guard = r.guard /\ back.inputs = r.inputs
    BY <1>1 DEF Typed
  <2> HIDE DEF back
  <2> QED
    BY <1>1, <2>1, NewGoalKeeps
<1>4. CASE goal = NoGoal
  <2>1. RollBack(r, goal) = Cleared(back)
    BY <1>2, <1>4
  <2> HIDE DEF back
  <2> QED
    BY <1>3, <2>1, ClearedGood, KeepsCompose
<1>5. CASE goal # NoGoal /\ goal.status = "active"
  <2> DEFINE t == [back EXCEPT !.owner = "goal"]
             p == Persist(t)
  <2>1. RollBack(r, goal) = RestoreWaitTimer(p)
    BY <1>2, <1>5
  <2>2. Typed(t) /\ Calm(t) /\ Still(r, t) /\ Held(t)
    <3>1. /\ Typed(t) /\ t.goal = goal /\ t.owner = "goal"
          /\ t.queue = r.queue /\ t.intent = r.intent /\ t.delivery = r.delivery
          /\ t.timer = r.timer /\ t.guard = r.guard /\ t.inputs = r.inputs
      BY <1>1 DEF Typed
    <3> HIDE DEF t
    <3> QED
      BY <1>1, <3>1, NewGoalKeeps DEF Held
  <2> HIDE DEF t
  <2>3. Keeps(t, p)
    BY <2>2, PersistGood, CalmIsOwned
  <2> HIDE DEF p
  <2>4. Keeps(p, RestoreWaitTimer(p))
    BY <2>3, AsideFields, AsideKeeps DEF Keeps, Good
  <2> QED
    BY <2>1, <2>2, <2>3, <2>4, KeepsCompose DEF Keeps
<1>6. CASE goal # NoGoal /\ goal.status # "active"
  <2> DEFINE p == Persist(back)
  <2>1. RollBack(r, goal) = ReleaseWorkflow(p)
    BY <1>2, <1>6
  <2>2. ~Active(back)
    BY <1>3, <1>6 DEF Active
  <2> HIDE DEF back
  <2>3. Keeps(back, p) /\ ~Active(p)
    BY <1>3, <2>2, PersistGood, CalmIsOwned DEF Held, Active
  <2> HIDE DEF p
  <2>4. Keeps(p, ReleaseWorkflow(p))
    BY <2>3, ReleaseGood DEF Keeps
  <2> QED
    BY <1>3, <2>1, <2>3, <2>4, KeepsCompose DEF Keeps
<1> QED
  BY <1>4, <1>5, <1>6

-----------------------------------------------------------------------------
\* Messages come and go.

LEMMA AppendIs ==
  ASSUME NEW q \in Seq(Mails), NEW m \in Mails
  PROVE  LET a == Append(q, m) IN
         /\ a \in Seq(Mails) /\ Len(q) \in Nat
         /\ DOMAIN a = DOMAIN q \cup {Len(q) + 1} /\ Len(q) + 1 \notin DOMAIN q
         /\ a[Len(q) + 1] = m /\ \A i \in DOMAIN q : a[i] = q[i]
OBVIOUS

LEMMA AppendGood ==
  ASSUME NEW r, Good(r), NEW m \in Mails, m.mark # "live"
  PROVE  LET s == [r EXCEPT !.queue = Append(@, m)] IN
         /\ Good(s) /\ (Rests(r) => Rests(s))
         /\ m.at # "starting" => Keeps(r, s)
         /\ m.at = "starting" => Starting(s) = Starting(r) \cup {Len(r.queue) + 1}
         /\ s.goal = r.goal /\ s.owner = r.owner
<1> DEFINE q == Append(r.queue, m)
           n == Len(r.queue) + 1
           s == [r EXCEPT !.queue = q]
<1>1. /\ q \in Seq(Mails) /\ DOMAIN q = DOMAIN r.queue \cup {n} /\ n \notin DOMAIN r.queue
      /\ q[n] = m /\ \A i \in DOMAIN r.queue : q[i] = r.queue[i]
  BY AppendIs DEF Good, Typed
<1> HIDE DEF q, n
<1>2. /\ Typed(s) /\ s.goal = r.goal /\ s.owner = r.owner /\ s.saved = r.saved
      /\ s.queue = q /\ s.intent = r.intent /\ s.delivery = r.delivery
      /\ s.timer = r.timer /\ s.guard = r.guard /\ s.inputs = r.inputs
  BY <1>1 DEF Good, Typed
<1> HIDE DEF s
<1>3. Held(s) /\ Sync(s) /\ (Rests(r) => Rests(s))
  BY <1>2 DEF Held, Active, Good, Sync, Rests
<1>4. \A i \in DOMAIN q : q[i].mark = "live" => i \in DOMAIN r.queue /\ r.queue[i].mark = "live"
  BY <1>1
<1>5. Owned(s)
  BY <1>2, <1>4 DEF Good, Owned, Active, Waits
<1>6. /\ m.at # "starting" => Starting(s) = Starting(r)
      /\ m.at = "starting" => Starting(s) = Starting(r) \cup {n}
  BY <1>1, <1>2 DEF Starting
<1> QED
  BY <1>2, <1>3, <1>5, <1>6 DEF Good, Keeps, Still, s, q, n

LEMMA RemoveIs ==
  ASSUME NEW q \in Seq(Mails), NEW i \in DOMAIN q
  PROVE  LET d == RemoveAt(q, i)
             from(j) == IF j < i THEN j ELSE j + 1
         IN  /\ d \in Seq(Mails)
             /\ \A j \in DOMAIN d : from(j) \in DOMAIN q /\ from(j) # i /\ d[j] = q[from(j)]
             /\ \A j, k \in DOMAIN d : from(j) = from(k) => j = k
<1> DEFINE n == Len(q)
           a == SubSeq(q, 1, i - 1)
           b == SubSeq(q, i + 1, n)
           d == a \o b
           from(j) == IF j < i THEN j ELSE j + 1
<1>1. n \in Nat /\ i \in 1 .. n /\ DOMAIN q = 1 .. n /\ \A j \in 1 .. n : q[j] \in Mails
  OBVIOUS
<1>2. /\ a \in Seq(Mails) /\ Len(a) = i - 1 /\ \A j \in 1 .. i - 1 : a[j] = q[j]
  BY <1>1
<1>3. /\ b \in Seq(Mails) /\ Len(b) = n - i /\ \A j \in 1 .. n - i : b[j] = q[i + j]
  <2>1. i + 1 \in Int /\ n \in Int /\ n - (i + 1) + 1 = n - i
    BY <1>1
  <2>2. b \in Seq(Mails) /\ Len(b) = n - i
    BY <1>1, <2>1
  <2>3. ASSUME NEW j \in 1 .. n - i PROVE b[j] = q[i + j]
    <3>1. j \in 1 .. Len(b) /\ (i + 1) + j - 1 = i + j
      BY <1>1, <2>2
    <3> QED
      BY <1>1, <3>1
  <2> QED
    BY <2>2, <2>3
<1> HIDE DEF a, b
<1>4. /\ d \in Seq(Mails) /\ Len(d) = n - 1
      /\ \A j \in 1 .. n - 1 : d[j] = IF j <= i - 1 THEN a[j] ELSE b[j - (i - 1)]
  <2>1. /\ d \in Seq(Mails) /\ Len(d) = Len(a) + Len(b)
        /\ \A j \in 1 .. Len(a) + Len(b) : d[j] = IF j <= Len(a) THEN a[j] ELSE b[j - Len(a)]
    <3>1. a \in Seq(Mails) /\ b \in Seq(Mails)
      BY <1>2, <1>3
    <3>2. d \in Seq(Mails)
      BY <3>1
    <3>3. Len(d) = Len(a) + Len(b)
      BY <3>1
    <3>4. ASSUME NEW j \in 1 .. Len(a) + Len(b)
          PROVE  d[j] = IF j <= Len(a) THEN a[j] ELSE b[j - Len(a)]
      BY <3>1
    <3> QED
      BY <3>2, <3>3, <3>4
  <2>2. Len(a) + Len(b) = n - 1
    BY <1>1, <1>2, <1>3
  <2> HIDE DEF d
  <2> QED
    BY <1>2, <2>1, <2>2
<1> HIDE DEF d
<1>5. ASSUME NEW j \in DOMAIN d
      PROVE  from(j) \in DOMAIN q /\ from(j) # i /\ d[j] = q[from(j)]
  <2>1. j \in 1 .. n - 1
    BY <1>1, <1>4
  <2>2. CASE j < i
    BY <1>1, <1>2, <1>4, <2>1, <2>2
  <2>3. CASE ~(j < i)
    <3>1. ~(j <= i - 1) /\ j - (i - 1) \in 1 .. n - i
      BY <1>1, <2>1, <2>3
    <3>3. d[j] = b[j - (i - 1)]
      BY <1>4, <2>1, <3>1
    <3>2. b[j - (i - 1)] = q[i + (j - (i - 1))] /\ i + (j - (i - 1)) = j + 1
      BY <1>1, <1>3, <2>1, <3>1
    <3> QED
      BY <1>1, <2>1, <2>3, <3>1, <3>2, <3>3
  <2> QED
    BY <2>2, <2>3
<1>6. \A j, k \in DOMAIN d : from(j) = from(k) => j = k
  <2>1. \A j \in DOMAIN d : j \in Nat
    BY <1>1, <1>4
  <2> QED
    BY <1>1, <2>1
<1> QED
  BY <1>4, <1>5, <1>6 DEF RemoveAt, a, b, d, n

\* The message that is taken was the one that is prepared, or none is.
LEMMA DequeueGood ==
  ASSUME NEW r, Good(r), NEW i \in DOMAIN r.queue
  PROVE  LET s == Dequeue(r, i) IN
         /\ Good(s) /\ (Rests(r) => Rests(s)) /\ s.goal = r.goal /\ s.owner = r.owner
         /\ Starting(r) \subseteq {i} => Starting(s) = {}
         /\ r.queue[i].mark = "live" => \A j \in DOMAIN s.queue : s.queue[j].mark # "live"
<1> DEFINE q == RemoveAt(r.queue, i)
           from(j) == IF j < i THEN j ELSE j + 1
           s == [r EXCEPT !.queue = q]
<1>1. r.queue \in Seq(Mails)
  BY DEF Good, Typed
<1>2. /\ q \in Seq(Mails)
      /\ \A j \in DOMAIN q : from(j) \in DOMAIN r.queue /\ from(j) # i /\ q[j] = r.queue[from(j)]
      /\ \A j, k \in DOMAIN q : from(j) = from(k) => j = k
  BY <1>1, RemoveIs
<1>3. Dequeue(r, i) = s
  BY DEF Dequeue
<1> HIDE DEF q, from
<1>4. /\ Typed(s) /\ s.goal = r.goal /\ s.owner = r.owner /\ s.saved = r.saved
      /\ s.queue = q /\ s.intent = r.intent /\ s.delivery = r.delivery
      /\ s.timer = r.timer /\ s.guard = r.guard /\ s.inputs = r.inputs
  BY <1>2 DEF Good, Typed
<1> HIDE DEF s
<1>5. Held(s) /\ Sync(s) /\ (Rests(r) => Rests(s))
  BY <1>4 DEF Held, Active, Good, Sync, Rests
<1>6. Owned(s)
  <2>1. \A j \in DOMAIN q : q[j].mark = "live" => r.delivery # 0
    BY <1>2 DEF Good, Owned
  <2>2. ASSUME NEW j \in DOMAIN q, NEW k \in DOMAIN q, {q[j].mark, q[k].mark} = {"live"}
        PROVE  j = k
    <3>1. {r.queue[from(j)].mark, r.queue[from(k)].mark} = {"live"}
          /\ from(j) \in DOMAIN r.queue /\ from(k) \in DOMAIN r.queue
      BY <1>2, <2>2
    <3>2. from(j) = from(k)
      BY <3>1 DEF Good, Owned
    <3> QED
      BY <1>2, <3>2
  <2> QED
    BY <1>4, <2>1, <2>2 DEF Good, Owned, Active, Waits
<1>7. Starting(r) \subseteq {i} => Starting(s) = {}
  BY <1>2, <1>4 DEF Starting
<1>8. r.queue[i].mark = "live" => \A j \in DOMAIN q : q[j].mark # "live"
  <2> SUFFICES ASSUME r.queue[i].mark = "live", NEW j \in DOMAIN q, q[j].mark = "live"
               PROVE  FALSE
    OBVIOUS
  <2>1. from(j) \in DOMAIN r.queue /\ from(j) # i /\ r.queue[from(j)].mark = "live"
    BY <1>2
  <2>2. {r.queue[i].mark, r.queue[from(j)].mark} = {"live"}
    BY <2>1
  <2> QED
    BY <2>1, <2>2 DEF Good, Owned
<1> QED
  BY <1>3, <1>4, <1>5, <1>6, <1>7, <1>8 DEF Good

-----------------------------------------------------------------------------
\* Work may be dropped.
LEMMA LessWork ==
  ASSUME NEW r, Good(r), NEW s, Typed(s),
         s.goal = r.goal /\ s.saved = r.saved /\ s.owner = r.owner,
         s.queue = r.queue /\ s.guard = r.guard /\ s.inputs = r.inputs,
         s.intent \in {0, r.intent}, s.timer => r.timer,
         \/ s.delivery = r.delivery
         \/ s.delivery = 0 /\ \A i \in DOMAIN r.queue : r.queue[i].mark # "live"
  PROVE  Keeps(r, s)
<1>1. Still(r, s) /\ Held(s) /\ Sync(s)
  BY DEF Still, Starting, Rests, Good, Held, Sync, Active
<1>2. (Active(s) <=> Active(r)) /\ (Waits(s) <=> Waits(r)) /\ Owned(r)
  BY DEF Active, Waits, Good
<1>3. Owned(s)
  BY <1>2 DEF Owned
<1> QED
  BY <1>1, <1>3 DEF Keeps, Good

\* One request at most is sent, for the goal that is active.
LEMMA DispatchGood ==
  ASSUME NEW r, Good(r), NEW way
  PROVE  Keeps(r, Dispatch(r, way))
<1> DEFINE d == Dispatch(r, way)
           id == r.intent
           m == Continuation(id)
           q == Append(r.queue, m)
           sent == [r EXCEPT !.timer = FALSE, !.intent = 0, !.delivery = id, !.queue = q]
           failed == [r EXCEPT !.timer = FALSE]
           dropped == [r EXCEPT !.intent = 0]
<1>1. d = CancelContinuation(r) \/ d = r
      \/ (Owns(r) /\ (d = PauseForTools(r, TRUE) \/ d = SafetyPause(r, FALSE)))
      \/ d = dropped \/ d = failed
      \/ (Owns(r) /\ id # 0 /\ id = r.goal.id /\ d = sent)
  BY Zenon DEF Dispatch
<1> SUFFICES Keeps(r, d)
  OBVIOUS
<1> HIDE DEF d
<1>2. 0 \in 0 .. MaxGoals /\ Typed(r)
  BY GoalRunAssumption DEF Good
<1>3. CASE d = CancelContinuation(r)
  BY <1>2, <1>3, CancelCalms, CalmedIs
<1>4. CASE d = r
  BY <1>4, GoodIsKept
<1>5. CASE Owns(r) /\ (d = PauseForTools(r, TRUE) \/ d = SafetyPause(r, FALSE))
  BY <1>2, <1>5, StopsGood DEF Owns, Active
<1>6. CASE d = dropped
  <2>1. /\ Typed(dropped) /\ dropped.goal = r.goal /\ dropped.owner = r.owner
        /\ dropped.saved = r.saved /\ dropped.queue = r.queue /\ dropped.intent = 0
        /\ dropped.delivery = r.delivery /\ dropped.timer = r.timer
        /\ dropped.guard = r.guard /\ dropped.inputs = r.inputs
    BY <1>2 DEF Typed
  <2> HIDE DEF dropped
  <2> QED
    BY <1>6, <2>1, LessWork
<1>7. CASE d = failed
  <2>1. /\ Typed(failed) /\ failed.goal = r.goal /\ failed.owner = r.owner
        /\ failed.saved = r.saved /\ failed.queue = r.queue /\ failed.intent = r.intent
        /\ failed.delivery = r.delivery /\ ~failed.timer
        /\ failed.guard = r.guard /\ failed.inputs = r.inputs
    BY <1>2 DEF Typed
  <2> HIDE DEF failed
  <2> QED
    BY <1>7, <2>1, LessWork
<1>8. CASE Owns(r) /\ id # 0 /\ id = r.goal.id /\ d = sent
  <2>1. id \in 0 .. MaxGoals
    BY <1>2 DEF Typed
  <2>2. m \in Mails /\ m.mark = "live" /\ m.at = "sent"
    BY <2>1 DEF Continuation, Message, Mails
  <2> HIDE DEF m
  <2>3. /\ q \in Seq(Mails) /\ DOMAIN q = DOMAIN r.queue \cup {Len(r.queue) + 1}
        /\ Len(r.queue) + 1 \notin DOMAIN r.queue
        /\ q[Len(r.queue) + 1] = m /\ \A i \in DOMAIN r.queue : q[i] = r.queue[i]
    BY <1>2, <2>2, AppendIs DEF Typed
  <2>4. r.delivery = 0 /\ \A i \in DOMAIN r.queue : r.queue[i].mark # "live"
    BY <1>8 DEF Good, Owned
  <2> HIDE DEF q
  <2>5. /\ Typed(sent) /\ sent.goal = r.goal /\ sent.owner = r.owner
        /\ sent.saved = r.saved /\ sent.queue = q /\ sent.intent = 0
        /\ sent.delivery = id /\ ~sent.timer
        /\ sent.guard = r.guard /\ sent.inputs = r.inputs
    BY <1>2, <2>1, <2>3 DEF Typed
  <2> HIDE DEF sent
  <2>6. Still(r, sent)
    BY <2>2, <2>3, <2>5 DEF Still, Starting, Rests
  <2>7. Held(sent) /\ Sync(sent)
    BY <2>5 DEF Good, Held, Active, Sync
  <2>8. \A i, j \in DOMAIN q : {q[i].mark, q[j].mark} = {"live"} => i = j
    BY <2>3, <2>4
  <2>9. Owned(sent)
    BY <1>8, <2>5, <2>8 DEF Good, Owned, Active, Waits
  <2> QED
    BY <1>8, <2>5, <2>6, <2>7, <2>9 DEF Keeps, Good
<1> QED
  BY <1>1, <1>3, <1>4, <1>5, <1>6, <1>7, <1>8

LEMMA DeadlineFailedGood ==
  ASSUME NEW r, Typed(r), Active(r), Held(r), NEW exhausted \in BOOLEAN
  PROVE  Keeps(r, DeadlineFailed(r, exhausted))
<1> DEFINE a == RecordUsage(r)
           c == CancelContinuation(a)
           goal == [c.goal EXCEPT !.waiting = "timed"]
           retry == IF exhausted THEN "exhausted" ELSE "armed"
           alarm == ~exhausted
           t == [c EXCEPT !.goal = goal, !.due = FALSE, !.alarm = alarm, !.retry = retry]
<1>1. Typed(a) /\ Still(r, a) /\ Active(a) /\ Held(a)
  BY RecordGood DEF Active, Held
<1>2. DeadlineFailed(r, exhausted) = Persist([c EXCEPT
        !.goal.waiting = "timed", !.due = FALSE, !.alarm = ~exhausted,
        !.retry = IF exhausted THEN "exhausted" ELSE "armed"])
  BY DEF DeadlineFailed
<1> HIDE DEF a
<1>3. Typed(c) /\ Calm(c) /\ Still(a, c) /\ Active(c) /\ Held(c)
  BY <1>1, CancelCalms, CalmedIs DEF Active
<1> HIDE DEF c
<1>4. DeadlineFailed(r, exhausted) = Persist(t)
  BY <1>2, <1>3 DEF Typed
<1>5. WellKept(goal) /\ retry \in {"none", "armed", "exhausted"} /\ alarm \in BOOLEAN
      /\ goal.status = "active"
  BY <1>3, WaitingGoal DEF Typed, Active, Waitings
<1> HIDE DEF goal, retry, alarm
<1>6. /\ Typed(t) /\ t.goal = goal /\ t.owner = c.owner
      /\ t.queue = c.queue /\ t.intent = c.intent /\ t.delivery = c.delivery
      /\ t.timer = c.timer /\ t.guard = c.guard /\ t.inputs = c.inputs
  BY <1>3, <1>5 DEF Typed
<1> HIDE DEF t
<1>7. Owned(t) /\ Still(c, t) /\ Held(t)
  BY <1>3, <1>6, NewGoalKeeps DEF Held
<1>8. Keeps(t, Persist(t))
  BY <1>6, <1>7, PersistGood
<1> QED
  BY <1>1, <1>3, <1>4, <1>7, <1>8, StillComposes, KeepsCompose DEF Keeps

LEMMA DueWaitGood ==
  ASSUME NEW r, Good(r), NEW way
  PROVE  Keeps(r, DispatchDueGoalWait(r, way))
<1> DEFINE a == ClearGoalWait(r)
           b == RequestContinuation(a)
           tried == Dispatch(b, way)
           exhausted == r.retry = "armed"
<1>1. Keeps(r, a)
  BY ClearWaitGood
<1>2. DispatchDueGoalWait(r, way) = IF Active(tried) /\ tried.intent = r.goal.id
        THEN DeadlineFailed(tried, exhausted) ELSE tried
  BY DEF DispatchDueGoalWait
<1> HIDE DEF a
<1>3. Keeps(a, b)
  BY <1>1, RequestGood DEF Keeps
<1> HIDE DEF b
<1>4. Keeps(b, tried)
  BY <1>3, DispatchGood DEF Keeps
<1> HIDE DEF tried
<1>5. Active(tried) => Keeps(tried, DeadlineFailed(tried, exhausted))
  <2>1. exhausted \in BOOLEAN
    OBVIOUS
  <2> HIDE DEF exhausted
  <2> QED
    BY <1>4, <2>1, DeadlineFailedGood DEF Keeps, Good
<1> HIDE DEF exhausted
<1>6. Keeps(r, tried) /\ (Active(tried) => Keeps(r, DeadlineFailed(tried, exhausted)))
  BY <1>1, <1>3, <1>4, <1>5, KeepsCompose DEF Keeps
<1> QED
  BY <1>2, <1>6

LEMMA FinalizeGood ==
  ASSUME NEW r, Good(r)
  PROVE  Keeps(r, FinalizeSettledRecovery(r))
<1> DEFINE s == [r EXCEPT !.recovery = NoRecovery]
           f == FinalizeSettledRecovery(r)
<1>1. f = s \/ (Owns(r) /\ (f = EnterGoalWait(s, "open") \/ f = Stop(s, "blocked", {})))
  BY Zenon DEF FinalizeSettledRecovery
<1> HIDE DEF f
<1>2. Aside(r, s) /\ Keeps(r, s)
  BY AsideFields, AsideKeeps DEF Good
<1> HIDE DEF s
<1>3. Owns(r) => Active(s) /\ s.goal.status # "none"
  BY <1>2 DEF Owns, Active, Aside
<1>4. "open" \in Waitings /\ "blocked" \in Statuses \ {"none", "active"} /\ "guard" \notin {}
  BY DEF Waitings, Statuses
<1>5. Owns(r) => Keeps(s, EnterGoalWait(s, "open"))
  BY <1>2, <1>3, <1>4, EnterWaitGood DEF Keeps, Good
<1>6. Owns(r) => Keeps(s, Stop(s, "blocked", {}))
  BY <1>2, <1>3, <1>4, StopGood DEF Keeps, Good
<1> QED
  BY <1>1, <1>2, <1>5, <1>6, KeepsCompose DEF Keeps, f

-----------------------------------------------------------------------------
\* There is nothing to take from an empty list of inputs.
LEMMA NoInput ==
  ASSUME NEW r, Rests(r)
  PROVE  /\ \A kinds : FirstInput(r, kinds) = 0
         /\ \A kind, fallback : TakenInput(r, kind, fallback) = 0
<1>1. ASSUME NEW kinds PROVE FirstInput(r, kinds) = 0
  <2>1. 1 .. Len(r.inputs) = {}
    BY DEF Rests
  <2> QED
    BY <2>1 DEF FirstInput, SelectInSeq
<1> QED
  BY <1>1 DEF TakenInput

\* A run begins for a message: the fields of the run, the goal and the guard.
LEMMA TakenAside ==
  ASSUME NEW r, Typed(r), NEW i, ~Rests(r), NEW guard \in {0, r.guard}, NEW stale \in BOOLEAN,
         NEW s, s = [r EXCEPT !.inputs = RemoveAt(@, i), !.guard = guard, !.stale = stale]
  PROVE  Aside(r, s)
<1>1. guard \in 0 .. MaxGoals
  BY GoalRunAssumption DEF Typed
<1> QED
  BY <1>1 DEF Aside, Typed

LEMMA GoalPromptGood ==
  ASSUME NEW r, Good(r), NEW m \in Mails
  PROVE  Keeps(r, StartGoalPrompt(r, m))
<1> DEFINE spent == r.goal.spent
           off == [r EXCEPT !.exhausted = spent]
           rebased == IF r.run.id \in {Unowned, m.id} THEN r ELSE off
           run == BeginRun(rebased, m.id, FALSE)
           goal == IF m.reset THEN Fresh(run.goal) ELSE run.goal
           s == [run EXCEPT !.goal = goal]
<1>1. StartGoalPrompt(r, m) = r \/ StartGoalPrompt(r, m) = Persist(s)
  BY Zenon DEF StartGoalPrompt
<1>2. Keeps(r, rebased)
  <2>1. spent \in BOOLEAN
    BY DEF Good, Typed, WellKept, Goals
  <2> HIDE DEF spent
  <2>2. Keeps(r, off)
    BY <2>1, AsideFields, AsideKeeps DEF Good
  <2> HIDE DEF off
  <2> QED
    BY <2>2, GoodIsKept
<1> HIDE DEF rebased
<1>3. Keeps(rebased, run)
  <2>1. m.id \in 0 .. Foreign
    BY GoalRunAssumption DEF Mails, Foreign
  <2> QED
    BY <1>2, <2>1, AsideFields, AsideKeeps DEF Keeps, Good
<1> HIDE DEF run
<1>4. WellKept(goal) /\ goal.id = run.goal.id /\ goal.status = run.goal.status
      /\ goal.waiting = run.goal.waiting
  BY <1>3, FreshKeeps DEF Keeps, Good, Typed
<1> HIDE DEF goal
<1>5. /\ Typed(s) /\ s.goal = goal /\ s.owner = run.owner
      /\ s.queue = run.queue /\ s.intent = run.intent /\ s.delivery = run.delivery
      /\ s.timer = run.timer /\ s.guard = run.guard /\ s.inputs = run.inputs
  BY <1>3, <1>4 DEF Keeps, Good, Typed
<1> HIDE DEF s
<1>6. Owned(s) /\ Still(run, s) /\ (Active(s) <=> Active(run))
  BY <1>3, <1>4, <1>5, GoalChanges DEF Keeps, Good
<1>7. Keeps(s, Persist(s))
  BY <1>3, <1>5, <1>6, PersistGood DEF Held, Keeps, Good
<1>8. Keeps(r, Persist(s))
  BY <1>2, <1>3, <1>6, <1>7, KeepsCompose, StillComposes DEF Keeps
<1> QED
  BY <1>1, <1>8, GoodIsKept

LEMMA UserMessageGood ==
  ASSUME NEW r, Good(r), NEW m
  PROVE  Keeps(r, StartUserMessage(r, m))
<1> DEFINE i == TakenInput(r, m.kind, m.mark # "live")
           taken == [r EXCEPT !.inputs = RemoveAt(@, i)]
           resets == r.inputs[i] = "follow"
<1>1. \/ StartUserMessage(r, m) = r
      \/ i # 0 /\ (StartUserMessage(r, m) = taken \/ StartUserMessage(r, m) = FollowUp(taken, resets))
  BY Zenon DEF StartUserMessage
<1>2. i # 0 => ~Rests(r)
  BY NoInput
<1> HIDE DEF i, resets
<1>3. i # 0 => Aside(r, taken)
  BY <1>2 DEF Aside, Good, Typed
<1> HIDE DEF taken
<1>4. i # 0 => Keeps(r, taken) /\ Keeps(r, FollowUp(taken, resets))
  BY <1>3, AsideKeeps, FollowUpGood, KeepsCompose DEF Keeps
<1> QED
  BY <1>1, <1>4, GoodIsKept

LEMMA CustomGood ==
  ASSUME NEW r, Good(r)
  PROVE  Keeps(r, StartCustomMessage(r))
<1> DEFINE c == ClearGoalWait(r)
           guard == IF c.guard = r.goal.id THEN 0 ELSE c.guard
           s == [c EXCEPT !.guard = guard]
<1>1. Keeps(r, c)
  BY ClearWaitGood
<1>2. StartCustomMessage(r) = FollowUp(s, FALSE)
  BY DEF StartCustomMessage
<1> HIDE DEF c
<1>3. guard \in 0 .. MaxGoals /\ guard \in {0, c.guard}
  BY <1>1, GoalRunAssumption DEF Keeps, Good, Typed
<1> HIDE DEF guard
<1>4. Aside(c, s)
  BY <1>1, <1>3 DEF Aside, Keeps, Good, Typed, Rests
<1> HIDE DEF s
<1>5. Keeps(c, s)
  BY <1>1, <1>4, AsideKeeps DEF Keeps
<1>6. Keeps(s, FollowUp(s, FALSE))
  BY <1>5, FollowUpGood DEF Keeps
<1> QED
  BY <1>1, <1>2, <1>5, <1>6, KeepsCompose DEF Keeps

LEMMA MessageGood ==
  ASSUME NEW r, Good(r), NEW m \in Mails
  PROVE  Keeps(r, MessageStart(r, m))
BY GoalPromptGood, UserMessageGood, CustomGood DEF MessageStart

LEMMA AgentStartGood ==
  ASSUME NEW r, Good(r)
  PROVE  Keeps(r, AgentStart(r))
<1> DEFINE i == FirstInput(r, {"follow", "ext"})
           taken == [r EXCEPT !.inputs = RemoveAt(@, i), !.guard = 0, !.stale = FALSE]
           id == r.goal.id
           auto == r.recovery.auto
           a == AgentStart(r)
<1>1. a = r \/ (i # 0 /\ a = BeginRun(taken, Foreign, FALSE)) \/ a = BeginRun(r, id, auto)
  BY Zenon DEF AgentStart
<1> HIDE DEF a
<1>2. i # 0 => ~Rests(r)
  BY NoInput
<1> HIDE DEF i
<1>3. i # 0 => Keeps(r, BeginRun(taken, Foreign, FALSE))
  <2>1. i # 0 => Aside(r, taken)
    <3>1. 0 \in 0 .. MaxGoals
      BY GoalRunAssumption
    <3> QED
      BY <1>2, <3>1 DEF Aside, Good, Typed
  <2> HIDE DEF taken
  <2>2. i # 0 => Keeps(r, taken)
    BY <2>1, AsideKeeps
  <2>3. Foreign \in 0 .. Foreign
    BY GoalRunAssumption DEF Foreign
  <2>4. i # 0 => Keeps(taken, BeginRun(taken, Foreign, FALSE))
    BY <2>2, <2>3, AsideFields, AsideKeeps DEF Keeps, Good
  <2> QED
    BY <2>2, <2>4, KeepsCompose DEF Keeps
<1>4. Keeps(r, BeginRun(r, id, auto))
  <2>1. id \in 0 .. Foreign /\ auto \in BOOLEAN
    BY GoalRunAssumption DEF Good, Typed, WellKept, Goals, Recoveries, Foreign
  <2> HIDE DEF id, auto
  <2> QED
    BY <2>1, AsideFields, AsideKeeps DEF Good
<1> QED
  BY <1>1, <1>3, <1>4, GoodIsKept DEF a

-----------------------------------------------------------------------------
\* A prompt that has been taken from the queue begins a run of its goal.

LEMMA BeforeGood ==
  ASSUME NEW r, Good(r), NEW m,
         m.mark = "live" => \A i \in DOMAIN r.queue : r.queue[i].mark # "live"
  PROVE  Keeps(r, Before(r, m).run) /\ Before(r, m).auto \in BOOLEAN
<1> DEFINE clear == [r EXCEPT !.run = NoRun, !.guard = 0]
           recovers == r.recovery # NoRecovery /\ r.recovery.auto
           claimed == [clear EXCEPT !.delivery = 0]
           calm == CancelContinuation(clear)
           b == Before(r, m)
<1>1. \/ b = [run |-> clear, auto |-> recovers]
      \/ m.mark = "live" /\ b = [run |-> claimed, auto |-> TRUE]
      \/ b = [run |-> clear, auto |-> TRUE]
      \/ b = [run |-> ClearGoalWait(calm), auto |-> recovers]
  BY Zenon DEF Before
<1> SUFFICES Keeps(r, b.run) /\ b.auto \in BOOLEAN
  OBVIOUS
<1> HIDE DEF b
<1>2. recovers \in BOOLEAN
  BY DEF Good, Typed, Recoveries
<1> HIDE DEF recovers
<1>3. Keeps(r, clear) /\ clear.queue = r.queue
  <2>1. NoRun \in Runs /\ 0 \in 0 .. MaxGoals
    BY TypedValues, GoalRunAssumption
  <2>2. Aside(r, clear)
    BY <2>1 DEF Aside, Good, Typed, Rests
  <2> HIDE DEF clear
  <2> QED
    BY <2>2, AsideKeeps DEF Aside
<1> HIDE DEF clear
<1>4. m.mark = "live" => Keeps(r, claimed)
  <2>1. 0 \in 0 .. MaxGoals
    BY GoalRunAssumption
  <2>2. /\ Typed(claimed) /\ claimed.goal = clear.goal /\ claimed.saved = clear.saved
        /\ claimed.owner = clear.owner /\ claimed.queue = clear.queue
        /\ claimed.guard = clear.guard /\ claimed.inputs = clear.inputs
        /\ claimed.intent = clear.intent /\ claimed.timer = clear.timer
        /\ claimed.delivery = 0
    BY <1>3, <2>1 DEF Keeps, Good, Typed
  <2> HIDE DEF claimed
  <2>3. m.mark = "live" => Keeps(clear, claimed)
    BY <1>3, <2>2, LessWork DEF Keeps
  <2> QED
    BY <1>3, <2>3, KeepsCompose DEF Keeps
<1>5. Keeps(r, ClearGoalWait(calm))
  <2>1. Keeps(clear, calm)
    BY <1>3, CancelCalms, CalmedIs DEF Keeps, Good
  <2> HIDE DEF calm
  <2>2. Keeps(calm, ClearGoalWait(calm))
    BY <2>1, ClearWaitGood DEF Keeps
  <2> QED
    BY <1>3, <2>1, <2>2, KeepsCompose DEF Keeps
<1> DEFINE cleared == ClearGoalWait(calm)
<1> HIDE DEF claimed, calm, cleared
<1>6. CASE b = [run |-> clear, auto |-> recovers]
  BY <1>2, <1>3, <1>6
<1>9. CASE b = [run |-> clear, auto |-> TRUE]
  BY <1>3, <1>9
<1>7. CASE m.mark = "live" /\ b = [run |-> claimed, auto |-> TRUE]
  BY <1>4, <1>7
<1>8. CASE b = [run |-> cleared, auto |-> recovers]
  BY <1>2, <1>5, <1>8 DEF cleared
<1> QED
  BY <1>1, <1>6, <1>7, <1>8, <1>9 DEF cleared

LEMMA AgentStartsGood ==
  ASSUME NEW r, Good(r), NEW m \in Mails,
         m.mark = "live" => \A i \in DOMAIN r.queue : r.queue[i].mark # "live"
  PROVE  Keeps(r, AgentStarts(r, m))
<1> DEFINE before == Before(r, m)
           b == before.run
           auto == before.auto
           id == r.goal.id
           stale == BeginRun(b, m.id, auto)
           run == BeginRun(b, id, auto)
           owned == m.kind \in {"goal", "cont"}
           inner == IF Active(stale) /\ ~tools THEN PauseForTools(stale, FALSE) ELSE stale
           goal == Fresh(run.goal)
           s == [run EXCEPT !.goal = goal]
           a == AgentStarts(r, m)
<1>1. a = Abort(inner) \/ a = b \/ (Owns(b) /\ a = PauseForTools(run, owned))
      \/ a = Persist(s) \/ a = run
  BY Zenon DEF AgentStarts
<1> SUFFICES Keeps(r, a)
  OBVIOUS
<1> HIDE DEF a
<1>2. Keeps(r, b) /\ auto \in BOOLEAN
  BY BeforeGood
<1> HIDE DEF before, b, auto
<1>3. m.id \in 0 .. Foreign /\ id \in 0 .. Foreign /\ owned \in BOOLEAN
  <2>1. m.id \in 0 .. MaxGoals /\ id \in 0 .. MaxGoals
    BY DEF Good, Typed, WellKept, Goals, Mails
  <2>2. MaxGoals \in Nat
    BY GoalRunAssumption
  <2> HIDE DEF id
  <2> QED
    BY <2>1, <2>2 DEF Foreign
<1> HIDE DEF id, owned
<1>4. /\ Aside(b, stale) /\ Keeps(b, stale) /\ Aside(b, run) /\ Keeps(b, run)
  BY <1>2, <1>3, AsideFields, AsideKeeps DEF Keeps, Good
<1> HIDE DEF stale, run
<1>5. Keeps(b, inner)
  <2>1. Active(stale) => Keeps(stale, PauseForTools(stale, FALSE))
    BY <1>4, StopsGood DEF Keeps, Good, Active
  <2> QED
    BY <1>4, <2>1, KeepsCompose DEF Keeps
<1> HIDE DEF inner
<1>6. Keeps(b, Abort(inner))
  <2>1. Keeps(inner, Abort(inner))
    BY <1>5, AsideFields, AsideKeeps DEF Keeps, Good
  <2> QED
    BY <1>5, <2>1, KeepsCompose DEF Keeps
<1>7. Owns(b) => Keeps(b, PauseForTools(run, owned))
  <2>1. Owns(b) => run.goal.status # "none"
    BY <1>4 DEF Aside, Owns, Active
  <2>2. Owns(b) => Keeps(run, PauseForTools(run, owned))
    BY <1>3, <1>4, <2>1, StopsGood DEF Keeps, Good
  <2> QED
    BY <1>4, <2>2, KeepsCompose DEF Keeps
<1>8. Keeps(b, Persist(s))
  <2>1. WellKept(goal) /\ goal.id = run.goal.id /\ goal.status = run.goal.status
        /\ goal.waiting = run.goal.waiting
    BY <1>4, FreshKeeps DEF Keeps, Good, Typed
  <2> HIDE DEF goal
  <2>2. /\ Typed(s) /\ s.goal = goal /\ s.owner = run.owner
        /\ s.queue = run.queue /\ s.intent = run.intent /\ s.delivery = run.delivery
        /\ s.timer = run.timer /\ s.guard = run.guard /\ s.inputs = run.inputs
    BY <1>4, <2>1 DEF Keeps, Good, Typed
  <2> HIDE DEF s
  <2>3. Owned(s) /\ Still(run, s) /\ (Active(s) <=> Active(run))
    BY <1>4, <2>1, <2>2, GoalChanges DEF Keeps, Good
  <2>4. Keeps(s, Persist(s))
    BY <1>4, <2>2, <2>3, PersistGood DEF Held, Keeps, Good
  <2> QED
    BY <1>4, <2>3, <2>4, StillComposes, KeepsCompose DEF Keeps
<1>9. Keeps(r, b) /\ Keeps(r, Abort(inner)) /\ Keeps(r, Persist(s)) /\ Keeps(r, run)
      /\ (Owns(b) => Keeps(r, PauseForTools(run, owned)))
  BY <1>2, <1>4, <1>6, <1>7, <1>8, KeepsCompose DEF Keeps
<1> QED
  BY <1>1, <1>9

-----------------------------------------------------------------------------
\* A run may be guarded at its end: then only the messages are as they were.
Moved(r, s) == Good(s) /\ Starting(s) = Starting(r)

LEMMA MovedBy ==
  ASSUME NEW r, NEW s, NEW t
  PROVE  /\ Keeps(r, s) => Moved(r, s)
         /\ Moved(r, s) /\ Moved(s, t) => Moved(r, t)
         /\ Starting(s) = Starting(r) /\ Moved(s, t) => Moved(r, t)
BY DEF Keeps, Still, Moved

\* The counters of the goal change, and nothing else.
LEMMA CountersKeep ==
  ASSUME NEW r, Good(r), NEW s, Typed(s),
         s.goal.id = r.goal.id, s.goal.status = r.goal.status, s.goal.waiting = r.goal.waiting,
         /\ s.queue = r.queue /\ s.intent = r.intent /\ s.delivery = r.delivery
         /\ s.timer = r.timer,
         s.guard = r.guard /\ s.inputs = r.inputs, s.owner = r.owner
  PROVE  /\ Owned(s) /\ Held(s) /\ Still(r, s) /\ Keeps(r, Persist(s))
         /\ Active(Persist(s)) <=> Active(r)
<1>1. Owned(s) /\ Still(r, s) /\ (Active(s) <=> Active(r))
  BY GoalChanges DEF Good
<1>2. Held(s)
  BY <1>1 DEF Held, Good
<1>3. Keeps(s, Persist(s)) /\ Persist(s).goal = s.goal
  BY <1>1, <1>2, PersistGood
<1> QED
  BY <1>1, <1>2, <1>3, KeepsCompose DEF Active

LEMMA RecordTurnGood ==
  ASSUME NEW r, Good(r), NEW stop
  PROVE  Moved(r, RecordTurn(r, stop))
<1> DEFINE t == [r EXCEPT !.goal.turns = @ + 1]
           u == RecordUsage(t)
           counted == Persist(u)
           c == RecordTurn(r, stop)
<1>1. c = r \/ (Active(r) /\ (c = SafetyPause(counted, TRUE) \/ c = counted))
  BY Zenon DEF RecordTurn
<1> SUFFICES Moved(r, c)
  OBVIOUS
<1> HIDE DEF c
<1>2. CASE c = r
  BY <1>2 DEF Moved
<1>3. CASE Active(r) /\ (c = SafetyPause(counted, TRUE) \/ c = counted)
  <2> DEFINE goal == [r.goal EXCEPT !.turns = @ + 1]
  <2>1. /\ WellKept(goal) /\ goal.id = r.goal.id /\ goal.status = "active"
        /\ goal.waiting = r.goal.waiting /\ r.goal.status = "active"
    <3>1. r.goal \in Goals /\ r.goal.status = "active" /\ WellKept(r.goal)
      BY <1>3 DEF Good, Typed, WellKept, Active
    <3>2. /\ goal \in Goals /\ goal.id = r.goal.id /\ goal.status = r.goal.status
          /\ goal.waiting = r.goal.waiting
      BY <3>1 DEF Goals
    <3> HIDE DEF goal
    <3> QED
      BY <3>1, <3>2 DEF WellKept
  <2> HIDE DEF goal
  <2>2. /\ Typed(t) /\ t.goal = goal
        /\ t.queue = r.queue /\ t.intent = r.intent /\ t.delivery = r.delivery
        /\ t.timer = r.timer /\ t.guard = r.guard /\ t.inputs = r.inputs /\ t.owner = r.owner
    <3>1. t = [r EXCEPT !.goal = goal]
      BY DEF Good, Typed, goal
    <3> HIDE DEF t
    <3> QED
      BY <2>1, <3>1 DEF Good, Typed
  <2> HIDE DEF t
  <2>3. Typed(t) /\ Owned(t) /\ Held(t) /\ Still(r, t) /\ t.goal.status = "active"
    BY <2>1, <2>2, CountersKeep
  <2>4. Typed(u) /\ Still(t, u) /\ Owned(u) /\ Held(u) /\ u.goal.status = "active"
    BY <2>3, RecordGood DEF Held, Active
  <2> HIDE DEF u
  <2>5. Keeps(u, counted) /\ counted.goal.status = "active"
    BY <2>4, PersistGood
  <2> HIDE DEF counted
  <2>6. Moved(counted, SafetyPause(counted, TRUE))
    BY <2>5, StopsGood DEF Keeps, Good, Moved
  <2>7. Keeps(r, counted)
    BY <2>3, <2>4, <2>5, StillComposes, KeepsCompose
  <2> QED
    BY <1>3, <2>6, <2>7, MovedBy
<1> QED
  BY <1>1, <1>2, <1>3

\* What a tool call leaves.
LEMMA ExecuteGood ==
  ASSUME NEW r, Good(r), Owns(r)
  PROVE  Keeps(r, Execute(r))
<1>1. Keeps(r, Cleared(r))
  BY ClearedGood DEF Good
<1>2. Keeps(r, Stop(r, "blocked", {"usage"}))
  BY StopGood DEF Good, Owns, Active, Statuses
<1>3. Keeps(r, EnterGoalWait(r, "open")) /\ Keeps(r, EnterGoalWait(r, "timed"))
  BY EnterWaitGood DEF Good, Owns, Waitings
<1> QED
  BY <1>1, <1>2, <1>3 DEF Execute

LEMMA ToolGood ==
  ASSUME NEW r, Good(r)
  PROVE  Keeps(r, ToolEnds(r))
<1> DEFINE u == RecordUsage(r)
           recorded == Persist(u)
           t == ToolEnds(r)
<1>1. t = r \/ (Owns(r) /\ (t = BudgetStop(recorded) \/ t = PauseForTools(recorded, TRUE)
                            \/ t = recorded))
  BY Zenon DEF ToolEnds
<1> SUFFICES Keeps(r, t)
  OBVIOUS
<1> HIDE DEF t
<1>2. Keeps(r, u) /\ u.goal.status = r.goal.status
  BY RecordGood DEF Good
<1> HIDE DEF u
<1>3. Keeps(u, recorded) /\ recorded.goal.status = r.goal.status
  BY <1>2, PersistGood DEF Keeps, Good
<1> HIDE DEF recorded
<1>4. Owns(r) => Keeps(recorded, BudgetStop(recorded))
                 /\ Keeps(recorded, PauseForTools(recorded, TRUE))
  BY <1>3, StopsGood DEF Owns, Active, Keeps, Good
<1> QED
  BY <1>1, <1>2, <1>3, <1>4, KeepsCompose, GoodIsKept DEF Keeps

-----------------------------------------------------------------------------
\* The end of a run.

LEMMA ProgressedGood ==
  ASSUME NEW r, Good(r), Active(r), NEW run \in Runs, NEW same
  PROVE  Keeps(r, Progressed(r, run, same)) /\ Active(Progressed(r, run, same))
<1> DEFINE repeats == IF run.tool THEN 0
                      ELSE IF same /\ r.goal.repeats > 0 THEN r.goal.repeats + 1 ELSE 1
           goal == [r.goal EXCEPT !.repeats = repeats]
           s == [r EXCEPT !.goal = goal]
<1>1. Progressed(r, run, same) = r \/ Progressed(r, run, same) = Persist(s)
  <2>1. Progressed(r, run, same) = r
        \/ Progressed(r, run, same) = Persist([r EXCEPT !.goal.repeats =
             IF run.tool THEN 0 ELSE IF same /\ @ > 0 THEN @ + 1 ELSE 1])
    BY Zenon DEF Progressed
  <2>2. [r EXCEPT !.goal.repeats = IF run.tool THEN 0 ELSE IF same /\ @ > 0 THEN @ + 1 ELSE 1] = s
    BY DEF Good, Typed
  <2> HIDE DEF s
  <2> QED
    BY <2>1, <2>2, Zenon
<1>2. repeats \in Nat
  BY DEF Good, Typed, WellKept, Goals
<1> HIDE DEF repeats
<1>3. /\ WellKept(goal) /\ goal.id = r.goal.id /\ goal.status = r.goal.status
      /\ goal.waiting = r.goal.waiting
  BY <1>2 DEF Good, Typed, WellKept, Goals, Active
<1> HIDE DEF goal
<1>4. /\ Typed(s) /\ s.goal = goal
      /\ s.queue = r.queue /\ s.intent = r.intent /\ s.delivery = r.delivery
      /\ s.timer = r.timer /\ s.guard = r.guard /\ s.inputs = r.inputs /\ s.owner = r.owner
  BY <1>3 DEF Good, Typed
<1> HIDE DEF s
<1>5. Keeps(r, Persist(s)) /\ Active(Persist(s))
  BY <1>3, <1>4, CountersKeep
<1> QED
  BY <1>1, <1>5, GoodIsKept

LEMMA LimitedGood ==
  ASSUME NEW r, Good(r), r.goal.status # "none"
  PROVE  Keeps(r, Limited(r)) /\ (Active(Limited(r)) => Limited(r) = r)
BY StopsGood, GoodIsKept DEF Limited

LEMMA RunStoppedGood ==
  ASSUME NEW r, Good(r), Owns(r), NEW run \in Runs, NEW same
  PROVE  Keeps(r, RunStopped(r, run, same))
<1> DEFINE c == [r EXCEPT !.recovery = NoRecovery]
           limited == Limited(c)
           progressed == Progressed(limited, run, same)
           saved == Persist(progressed)
           s == RunStopped(r, run, same)
<1>1. \/ s = limited
      \/ Active(limited) /\ (s = SafetyPause(progressed, FALSE) \/ s = RequestContinuation(saved))
  BY Zenon DEF RunStopped
<1> SUFFICES Keeps(r, s)
  OBVIOUS
<1> HIDE DEF s
<1>2. Keeps(r, c) /\ c.goal = r.goal
  BY AsideFields, AsideKeeps DEF Good, Aside
<1> HIDE DEF c
<1>3. Keeps(c, limited)
  BY <1>2, LimitedGood DEF Keeps, Owns, Active
<1> HIDE DEF limited
<1>4. Active(limited) => Keeps(limited, progressed) /\ Active(progressed)
  BY <1>3, ProgressedGood DEF Keeps
<1> HIDE DEF progressed
<1>5. Active(limited) => Keeps(progressed, SafetyPause(progressed, FALSE))
  BY <1>4, StopsGood DEF Keeps, Good, Active
<1>6. Active(limited) => Keeps(progressed, saved)
  BY <1>4, PersistGood DEF Keeps, Good
<1> HIDE DEF saved
<1>7. Active(limited) => Keeps(saved, RequestContinuation(saved))
  BY <1>6, RequestGood DEF Keeps
<1>8. Keeps(r, limited) /\ (Active(limited) => Keeps(r, SafetyPause(progressed, FALSE)))
  BY <1>2, <1>3, <1>4, <1>5, KeepsCompose DEF Keeps
<1>9. Active(limited) => Keeps(r, RequestContinuation(saved))
  BY <1>4, <1>6, <1>7, <1>8, KeepsCompose DEF Keeps
<1> QED
  BY <1>1, <1>8, <1>9

LEMMA RunInterruptedGood ==
  ASSUME NEW r, Good(r), Owns(r), NEW run \in Runs
  PROVE  Moved(r, RunInterrupted(r, run))
<1> DEFINE limited == Limited(r)
           c == CancelContinuation(limited)
           recovery == [kind |-> IF answer.stop = "overflow" THEN "compaction" ELSE "provider",
                        auto |-> run.auto]
           t == [c EXCEPT !.recovery = recovery]
           s == RunInterrupted(r, run)
<1>1. s = SafetyPause(r, TRUE) \/ s = limited \/ s = Persist(t)
  BY Zenon DEF RunInterrupted
<1> SUFFICES Moved(r, s)
  OBVIOUS
<1> HIDE DEF s
<1>2. recovery \in Recoveries
  BY DEF Runs, Recoveries
<1>3. Moved(r, SafetyPause(r, TRUE))
  BY StopsGood DEF Good, Owns, Active, Moved
<1>4. Keeps(r, limited)
  BY LimitedGood DEF Owns, Active
<1> HIDE DEF limited, recovery
<1>5. Keeps(limited, c)
  BY <1>4, CancelCalms, CalmedIs DEF Keeps, Good
<1> HIDE DEF c
<1>6. Keeps(c, t)
  <2>1. Aside(c, t)
    BY <1>2, <1>5 DEF Aside, Keeps, Good, Typed, Rests
  <2> HIDE DEF t
  <2> QED
    BY <1>5, <2>1, AsideKeeps DEF Keeps
<1> HIDE DEF t
<1>7. Keeps(t, Persist(t))
  BY <1>6, PersistGood DEF Keeps, Good
<1>8. Keeps(r, Persist(t))
  BY <1>4, <1>5, <1>6, <1>7, KeepsCompose DEF Keeps
<1>9. Moved(r, limited) /\ Moved(r, Persist(t))
  BY <1>4, <1>8, MovedBy
<1> QED
  BY <1>1, <1>3, <1>9

LEMMA RunEndsGood ==
  ASSUME NEW r, Good(r), NEW run \in Runs, NEW same
  PROVE  Moved(r, RunEnds(r, run, same))
<1> DEFINE recorded == RecordUsage(r)
           e == RunEnds(r, run, same)
<1>1. e = r \/ (Owns(r) /\ (e = RunInterrupted(recorded, run)
                            \/ e = Stop(recorded, FailedStatus, {"abort"})
                            \/ e = RunStopped(recorded, run, same)))
  BY Zenon DEF RunEnds
<1> SUFFICES Moved(r, e)
  OBVIOUS
<1> HIDE DEF e
<1>2. Keeps(r, recorded) /\ (Owns(r) => Owns(recorded))
  BY RecordGood DEF Good, Owns, Active
<1> HIDE DEF recorded
<1>3. Owns(r) => Moved(recorded, Stop(recorded, FailedStatus, {"abort"}))
  <2>1. FailedStatus \in Statuses \ {"none", "active"}
    BY DEF FailedStatus, Statuses
  <2> HIDE DEF FailedStatus
  <2> QED
    BY <1>2, <2>1, StopGood DEF Owns, Active, Keeps, Good, Moved
<1>4. Owns(r) => Moved(recorded, RunInterrupted(recorded, run))
                 /\ Moved(recorded, RunStopped(recorded, run, same))
  BY <1>2, RunInterruptedGood, RunStoppedGood, MovedBy DEF Keeps
<1> QED
  BY <1>1, <1>2, <1>3, <1>4, MovedBy, GoodIsKept

-----------------------------------------------------------------------------
LEMMA BeforeCompactGood ==
  ASSUME NEW r, Good(r)
  PROVE  Keeps(r, BeforeCompact(r))
<1> DEFINE c == CancelContinuation(r)
           u == RecordUsage(c)
           recorded == Persist(u)
           b == BeforeCompact(r)
<1>1. b = r \/ (Owns(r) /\ (b = BudgetStop(recorded) \/ b = recorded))
  BY Zenon DEF BeforeCompact
<1> SUFFICES Keeps(r, b)
  OBVIOUS
<1> HIDE DEF b
<1>2. Keeps(r, c) /\ c.goal = r.goal
  BY CancelCalms, CalmedIs DEF Good
<1> HIDE DEF c
<1>3. Keeps(c, u) /\ u.goal.status = c.goal.status
  BY <1>2, RecordGood DEF Keeps, Good
<1> HIDE DEF u
<1>4. Keeps(u, recorded) /\ recorded.goal.status = r.goal.status
  BY <1>2, <1>3, PersistGood DEF Keeps, Good
<1> HIDE DEF recorded
<1>5. Owns(r) => Keeps(recorded, BudgetStop(recorded))
  BY <1>4, StopsGood DEF Owns, Active, Keeps, Good
<1>6. Keeps(r, recorded) /\ (Owns(r) => Keeps(r, BudgetStop(recorded)))
  BY <1>2, <1>3, <1>4, <1>5, KeepsCompose DEF Keeps
<1> QED
  BY <1>1, <1>6, GoodIsKept

LEMMA SessionCompactGood ==
  ASSUME NEW r, Good(r)
  PROVE  Keeps(r, SessionCompact(r))
<1> DEFINE goal == r.saved
           l == [r EXCEPT !.goal = goal]
           loaded == RecordUsage(l)
           kept == IF CanRecord(r) THEN Persist(loaded) ELSE l
           calm == [kept EXCEPT !.recovery = NoRecovery]
           req == RequestContinuation(calm)
           timed == [req EXCEPT !.timer = TRUE]
           s == SessionCompact(r)
<1>1. s = [r EXCEPT !.recovery = NoRecovery]
      \/ (Owns(r) /\ (s = BudgetStop(kept) \/ s = kept \/ s = timed))
  BY Zenon DEF SessionCompact
<1> SUFFICES Keeps(r, s)
  OBVIOUS
<1> HIDE DEF s
<1>2. Keeps(r, [r EXCEPT !.recovery = NoRecovery])
  BY AsideFields, AsideKeeps DEF Good
<1>3. /\ WellKept(goal) /\ goal.id = r.goal.id /\ goal.status = r.goal.status
      /\ goal.waiting = r.goal.waiting
  <2>1. r.goal \in Goals /\ r.saved \in Goals
    BY DEF Good, Typed, WellKept
  <2> QED
    BY <2>1 DEF Good, Typed, Sync, Goals
<1>4. Keeps(r, l) /\ l.goal.status = r.goal.status
  <2>1. /\ Typed(l) /\ l.goal = goal /\ l.saved = goal
        /\ l.queue = r.queue /\ l.intent = r.intent /\ l.delivery = r.delivery
        /\ l.timer = r.timer /\ l.guard = r.guard /\ l.inputs = r.inputs /\ l.owner = r.owner
    BY <1>3 DEF Good, Typed
  <2> HIDE DEF l
  <2>2. Owned(l) /\ Held(l) /\ Still(r, l)
    BY <1>3, <2>1, CountersKeep
  <2>3. Sync(l)
    <3>1. goal \in Goals
      BY <1>3 DEF WellKept
    <3> HIDE DEF goal
    <3> QED
      BY <2>1, <3>1 DEF Sync, Goals
  <2> QED
    BY <1>3, <2>1, <2>2, <2>3 DEF Keeps, Good
<1> HIDE DEF l, goal
<1>5. Keeps(l, loaded) /\ loaded.goal.status = l.goal.status
  BY <1>4, RecordGood DEF Keeps, Good
<1> HIDE DEF loaded
<1>6. Keeps(r, kept) /\ kept.goal.status = r.goal.status
  <2>1. Keeps(loaded, Persist(loaded)) /\ Persist(loaded).goal = loaded.goal
    BY <1>5, PersistGood DEF Keeps, Good
  <2>2. Keeps(r, Persist(loaded))
    BY <1>4, <1>5, <2>1, KeepsCompose DEF Keeps
  <2> QED
    BY <1>4, <1>5, <2>1, <2>2
<1> HIDE DEF kept
<1>7. Owns(r) => Keeps(kept, BudgetStop(kept))
  BY <1>6, StopsGood DEF Owns, Active, Keeps, Good
<1>8. Keeps(kept, calm) /\ calm.goal = kept.goal
  BY <1>6, AsideFields, AsideKeeps DEF Keeps, Good, Aside
<1> HIDE DEF calm
<1>9. Keeps(calm, req) /\ req.goal = calm.goal
  BY <1>8, RequestGood DEF Keeps
<1> HIDE DEF req
<1>10. Owns(r) => Keeps(req, timed)
  <2>1. Owns(r) => Active(req)
    BY <1>6, <1>8, <1>9 DEF Owns, Active
  <2>2. /\ Typed(timed) /\ timed.goal = req.goal /\ timed.owner = req.owner
        /\ timed.saved = req.saved /\ timed.queue = req.queue /\ timed.intent = req.intent
        /\ timed.delivery = req.delivery /\ timed.guard = req.guard /\ timed.inputs = req.inputs
    BY <1>9 DEF Keeps, Good, Typed
  <2> HIDE DEF timed
  <2>3. Still(req, timed) /\ Held(timed) /\ Sync(timed)
    BY <1>9, <2>2 DEF Still, Starting, Rests, Keeps, Good, Held, Sync, Active
  <2>4. Active(req) => Owned(timed)
    <3>1. Owned(req) /\ (Active(timed) <=> Active(req)) /\ (Waits(timed) <=> Waits(req))
      BY <1>9, <2>2 DEF Keeps, Good, Active, Waits
    <3> QED
      BY <2>2, <3>1 DEF Owned
  <2> QED
    BY <2>1, <2>2, <2>3, <2>4 DEF Keeps, Good
<1>11. Owns(r) => Keeps(r, BudgetStop(kept)) /\ Keeps(r, timed)
  BY <1>6, <1>7, <1>8, <1>9, <1>10, KeepsCompose DEF Keeps
<1> QED
  BY <1>1, <1>2, <1>6, <1>11

\* A session is restored: the goal comes back, and nothing else.
LEMMA RestoredGood ==
  ASSUME NEW r, Typed(r)
  PROVE  Good(Restored(r)) /\ Starting(Restored(r)) = {} /\ Rests(Restored(r))
<1> DEFINE goal == r.saved
           owner == IF r.owner = "goal" THEN "none" ELSE r.owner
           bare == [r EXCEPT
            !.goal = goal, !.intent = 0, !.delivery = 0, !.timer = FALSE,
            !.recovery = NoRecovery, !.run = NoRun, !.guard = 0, !.stale = FALSE,
            !.inputs = <<>>, !.retry = "none", !.alarm = FALSE, !.due = FALSE,
            !.owner = owner, !.queue = <<>>, !.aborting = FALSE]
           paused == [bare EXCEPT !.goal.status = "paused", !.goal.waiting = "no"]
           had == [bare EXCEPT !.owner = "goal", !.goal = IF @.reset THEN Fresh(@) ELSE @]
           owned == RecordUsage(had)
           s == Restored(r)
<1>1. \/ s = bare /\ goal.status # "active"
      \/ goal.status = "active" /\ s = Persist(paused)
      \/ /\ goal.status = "active"
         /\ \/ s = BudgetStop(owned) \/ s = SafetyPause(owned, FALSE)
            \/ s = PauseForTools(owned, FALSE) \/ s = RestoreWaitTimer(Persist(owned))
  BY Zenon DEF Restored
<1> SUFFICES Good(s) /\ Starting(s) = {} /\ Rests(s)
  OBVIOUS
<1> HIDE DEF s
<1>2. WellKept(goal) /\ owner \in {"none", "goal", "other"} /\ 0 \in 0 .. MaxGoals
      /\ NoRecovery \in Recoveries /\ NoRun \in Runs /\ <<>> \in Seq(Mails)
  BY TypedValues, GoalRunAssumption DEF Typed
<1>3. /\ Typed(bare) /\ bare.goal = goal /\ bare.saved = goal
      /\ bare.intent = 0 /\ bare.delivery = 0 /\ ~bare.timer
      /\ bare.guard = 0 /\ bare.inputs = <<>> /\ bare.queue = <<>>
  <2> HIDE DEF owner
  <2> QED
    BY <1>2 DEF Typed
<1> HIDE DEF bare, owner
<1>4. Calm(bare) /\ Starting(bare) = {} /\ Rests(bare)
  BY <1>3 DEF Calm, Starting, Rests
<1>5. goal.status # "active" => Good(bare)
  <2>1. goal \in Goals
    BY <1>2 DEF WellKept
  <2> HIDE DEF goal
  <2>2. Sync(bare)
    BY <1>3, <2>1 DEF Sync, Goals
  <2> QED
    BY <1>3, <1>4, <2>2, CalmIsOwned DEF Good, Held, Active
<1>6. goal.status = "active" => Keeps(bare, Persist(paused))
  <2> DEFINE stopped == [goal EXCEPT !.status = "paused", !.waiting = "no"]
  <2>1. goal.status = "active" => WellKept(stopped) /\ stopped.status = "paused"
    <3>1. stopped \in Goals /\ stopped.status = "paused" /\ stopped.id = goal.id
          /\ stopped.waiting = "no"
      BY <1>2 DEF WellKept, Goals, Statuses, Waitings
    <3> HIDE DEF stopped
    <3> QED
      BY <1>2, <3>1 DEF WellKept
  <2>2. paused = [bare EXCEPT !.goal = stopped]
    BY <1>3 DEF Typed
  <2> HIDE DEF stopped, paused
  <2>3. goal.status = "active" =>
        /\ Typed(paused) /\ paused.goal = stopped
        /\ paused.queue = bare.queue /\ paused.intent = bare.intent
        /\ paused.delivery = bare.delivery /\ paused.timer = bare.timer
        /\ paused.guard = bare.guard /\ paused.inputs = bare.inputs
    BY <1>3, <2>1, <2>2 DEF Typed
  <2>4. goal.status = "active" => Owned(paused) /\ Still(bare, paused) /\ Held(paused)
    BY <1>4, <2>1, <2>3, NewGoalKeeps DEF Held, Active
  <2> QED
    BY <2>3, <2>4, PersistGood, KeepsCompose
<1>7. goal.status = "active" =>
        /\ Typed(had) /\ Owned(had) /\ Still(bare, had) /\ Held(had)
        /\ had.goal.status = "active"
  <2> DEFINE new == IF goal.reset THEN Fresh(goal) ELSE goal
  <2>1. WellKept(new) /\ new.status = goal.status
    BY <1>2, FreshKeeps
  <2>2. had = [bare EXCEPT !.owner = "goal", !.goal = new]
    BY <1>3 DEF Typed
  <2> HIDE DEF new, had
  <2>3. /\ Typed(had) /\ had.goal = new /\ had.owner = "goal"
        /\ had.queue = bare.queue /\ had.intent = bare.intent
        /\ had.delivery = bare.delivery /\ had.timer = bare.timer
        /\ had.guard = bare.guard /\ had.inputs = bare.inputs
    BY <1>3, <2>1, <2>2 DEF Typed
  <2> QED
    BY <1>4, <2>1, <2>3, NewGoalKeeps DEF Held
<1> HIDE DEF had, paused
<1>8. goal.status = "active" =>
        /\ Typed(owned) /\ Owned(owned) /\ Still(had, owned) /\ Held(owned)
        /\ owned.goal.status = "active"
  BY <1>7, RecordGood DEF Held, Active
<1> HIDE DEF owned
<1>9. goal.status = "active" =>
        /\ Keeps(owned, BudgetStop(owned)) /\ Keeps(owned, SafetyPause(owned, FALSE))
        /\ Keeps(owned, PauseForTools(owned, FALSE))
  BY <1>8, StopsGood
<1>10. goal.status = "active" => Keeps(owned, RestoreWaitTimer(Persist(owned)))
  <2>1. goal.status = "active" => Keeps(owned, Persist(owned))
    BY <1>8, PersistGood
  <2>2. goal.status = "active" => Keeps(Persist(owned), RestoreWaitTimer(Persist(owned)))
    BY <2>1, AsideFields, AsideKeeps DEF Keeps, Good
  <2> QED
    BY <2>1, <2>2, KeepsCompose DEF Keeps
<1>11. goal.status = "active" => Still(bare, owned)
  BY <1>7, <1>8, StillComposes
<1>12. goal.status = "active" => (s = Persist(paused) => Keeps(bare, s))
  BY <1>6
<1>13. goal.status = "active" /\ s # Persist(paused) => Keeps(bare, s)
  BY <1>1, <1>9, <1>10, <1>11, KeepsCompose
<1> QED
  BY <1>1, <1>4, <1>5, <1>12, <1>13 DEF Keeps, Still

-----------------------------------------------------------------------------
\* Nothing of a run is left between two runs, and Pi prepares one prompt at most.
Between(p) == p \in {"idle", "starting", "compact_manual"}
WorkInv ==
    /\ Good(rt)
    /\ Between(phase) => Rests(rt)
    /\ (phase = "starting") <=> (Starting(rt) # {})
    /\ \A i, j \in Starting(rt) : i = j

\* A step that keeps the runtime well keeps the invariant, in the same phase ...
LEMMA KeepsWork ==
  ASSUME WorkInv, Keeps(rt, rt'), phase' = phase
  PROVE  WorkInv'
BY DEF WorkInv, Keeps, Still

\* ... and when a run begins, goes on or ends.
LEMMA MovesWork ==
  ASSUME WorkInv, Moved(rt, rt'), phase # "starting", ~Between(phase')
  PROVE  WorkInv'
BY DEF WorkInv, Moved, Between

LEMMA SendGood ==
  ASSUME NEW r, Good(r), NEW id \in 0 .. MaxGoals, NEW reset \in BOOLEAN
  PROVE  Keeps(r, Send(r, id, reset))
<1> DEFINE m == GoalPrompt(id, reset)
<1>1. m \in Mails /\ m.mark = "pending" /\ m.at = "sent"
  BY DEF GoalPrompt, Message, Mails
<1> HIDE DEF m
<1>2. Keeps(r, [r EXCEPT !.queue = Append(@, m)])
  BY <1>1, AppendGood
<1> QED
  BY <1>2 DEF Send, m

\* A goal takes over: all work is cancelled before.
LEMMA TakeOverGood ==
  ASSUME NEW r, Typed(r), Calm(r), NEW s, Typed(s), Held(s),
         /\ s.queue = r.queue /\ s.intent = r.intent /\ s.delivery = r.delivery
         /\ s.timer = r.timer,
         s.guard = r.guard /\ s.inputs = r.inputs
  PROVE  Keeps(r, Persist(s)) /\ Persist(s).goal = s.goal
BY NewGoalKeeps, PersistGood, KeepsCompose

LEMMA OwnerKeeps ==
  ASSUME NEW r, Good(r), NEW owner \in {"none", "goal", "other"},
         owner = "goal" \/ ~Active(r),
         NEW s, s = [r EXCEPT !.owner = owner]
  PROVE  Keeps(r, s)
<1>1. /\ Typed(s) /\ s.goal = r.goal /\ s.saved = r.saved /\ s.owner = owner
      /\ s.queue = r.queue /\ s.intent = r.intent /\ s.delivery = r.delivery
      /\ s.timer = r.timer /\ s.guard = r.guard /\ s.inputs = r.inputs
  BY DEF Good, Typed
<1>2. Still(r, s) /\ Held(s) /\ Sync(s)
  BY <1>1 DEF Still, Starting, Rests, Good, Held, Sync, Active
<1>3. Owned(s)
  BY <1>1, GoalChanges DEF Good
<1> QED
  BY <1>1, <1>2, <1>3 DEF Keeps, Good

LEMMA ActivateKeeps ==
  ASSUME Good(rt), nextId \in 1 .. MaxGoals, NEW existing, WellKept(existing), NEW way,
         Activate(existing, way)
  PROVE  Keeps(rt, rt')
<1> DEFINE quiet == Quiet(rt)
           new == NewGoal(nextId)
           s == [quiet EXCEPT !.stale = FALSE, !.goal = new, !.exhausted = FALSE, !.owner = "goal"]
           p == Persist(s)
           had == [rt EXCEPT !.goal = existing]
           back == Quiet(had)
           recorded == RecordUsage(back)
<1>1. \/ rt' = rt \/ rt' = Refused(existing)
      \/ rt' = Send(p, nextId, TRUE)
      \/ rt' = RollBack(back, recorded.goal)
  BY DEF Activate
<1>2. Keeps(rt, Refused(existing))
  <2>1. Active(rt) => Keeps(rt, PauseForTools(rt, TRUE))
    BY StopsGood DEF Good, Active
  <2>2. Keeps(rt, [rt EXCEPT !.owner = "goal"])
    BY OwnerKeeps
  <2> QED
    BY <2>1, <2>2, GoodIsKept DEF Refused
<1>3. Keeps(rt, Send(p, nextId, TRUE))
  <2>1. Typed(quiet) /\ Calm(quiet) /\ Still(rt, quiet)
    BY QuietCalms, CalmedIs DEF Good
  <2>2. WellKept(new)
    BY TypedValues
  <2> HIDE DEF quiet, new
  <2>3. /\ Typed(s) /\ s.owner = "goal"
        /\ s.queue = quiet.queue /\ s.intent = quiet.intent /\ s.delivery = quiet.delivery
        /\ s.timer = quiet.timer /\ s.guard = quiet.guard /\ s.inputs = quiet.inputs
    BY <2>1, <2>2 DEF Typed
  <2> HIDE DEF s
  <2>4. Keeps(quiet, p)
    BY <2>1, <2>3, TakeOverGood DEF Held
  <2> HIDE DEF p
  <2>5. nextId \in 0 .. MaxGoals
    BY GoalRunAssumption
  <2>6. Keeps(p, Send(p, nextId, TRUE))
    BY <2>4, <2>5, SendGood DEF Keeps
  <2> QED
    BY <2>1, <2>4, <2>6, KeepsCompose DEF Keeps
<1>4. Keeps(rt, RollBack(back, recorded.goal))
  <2>1. Typed(had) /\ Still(rt, had)
    BY DEF Good, Typed, Still, Starting, Rests
  <2> HIDE DEF had
  <2>2. Typed(back) /\ Calm(back) /\ Still(had, back)
    BY <2>1, QuietCalms, CalmedIs
  <2> HIDE DEF back
  <2>3. WellKept(recorded.goal)
    BY <2>2, RecordGood DEF Typed
  <2> HIDE DEF recorded
  <2>4. Keeps(back, RollBack(back, recorded.goal))
    BY <2>2, <2>3, RollBackGood
  <2> QED
    BY <2>1, <2>2, <2>4, StillComposes, KeepsCompose
<1> HIDE DEF p, back, recorded
<1> QED
  BY <1>1, <1>2, <1>3, <1>4, GoodIsKept

LEMMA ConfirmedIsKept ==
  ASSUME WellKept(rt.goal), rt.goal # NoGoal, NEW existing \in Confirmed
  PROVE  WellKept(existing)
<1>1. CASE existing = rt.goal
  BY <1>1
<1>2. CASE existing # rt.goal
  <2>1. PICK waiting \in Waitings, turns \in 0 .. AutomaticTurns :
          existing = Earlier(waiting, turns)
    BY <1>2 DEF Confirmed
  <2>2. turns \in Nat /\ rt.goal \in Goals /\ rt.goal.id # 0
    BY GoalRunAssumption DEF WellKept
  <2>3. existing \in Goals /\ existing.status = "active" /\ existing.id = rt.goal.id
    BY <2>1, <2>2 DEF Earlier, Goals, Statuses
  <2> QED
    BY <2>2, <2>3 DEF WellKept
<1> QED
  BY <1>1, <1>2

LEMMA CommandsWork ==
  ASSUME WorkInv, nextId \in Nat \ {0},
         StartGoal \/ ReplaceGoal \/ PauseGoal \/ ClearGoal \/ ResumeWaiting
  PROVE  WorkInv'
<1> SUFFICES Keeps(rt, rt') /\ phase' = phase
  BY KeepsWork
<1>1. Good(rt) /\ Typed(rt) /\ WellKept(rt.goal) /\ Held(rt)
  BY DEF WorkInv, Good, Typed
<1>2. CASE StartGoal
  BY <1>1, <1>2, TypedValues, ActivateKeeps, GoalRunAssumption DEF StartGoal
<1>3. CASE ReplaceGoal
  BY <1>1, <1>3, ConfirmedIsKept, ActivateKeeps, GoalRunAssumption DEF ReplaceGoal
<1>4. CASE PauseGoal
  BY <1>1, <1>4, StopGood DEF PauseGoal, Active, Statuses
<1>5. CASE ClearGoal
  BY <1>1, <1>5, ClearedGood DEF ClearGoal
<1>6. CASE ResumeWaiting
  <2> DEFINE c == ClearGoalWait(rt)
  <2>1. Keeps(rt, c) /\ c.goal = [rt.goal EXCEPT !.waiting = c.goal.waiting]
    BY <1>1, ClearWaitGood
  <2> HIDE DEF c
  <2>2. rt.goal.id \in 0 .. MaxGoals /\ rt.goal.waiting \in Waitings
    BY <1>1 DEF WellKept, Goals
  <2>3. Keeps(c, Send(c, rt.goal.id, FALSE))
    BY <2>1, <2>2, SendGood DEF Keeps
  <2>4. Keeps(c, EnterGoalWait(c, rt.goal.waiting))
    <3>1. Active(c)
      BY <1>1, <1>6, <2>1 DEF ResumeWaiting, Owns, Active, WellKept, Goals
    <3> QED
      BY <2>1, <2>2, <3>1, EnterWaitGood DEF Keeps, Good
  <2>5. rt' = Send(c, rt.goal.id, FALSE) \/ rt' = EnterGoalWait(c, rt.goal.waiting)
    BY <1>6 DEF ResumeWaiting, c
  <2>6. Keeps(rt, Send(c, rt.goal.id, FALSE)) /\ Keeps(rt, EnterGoalWait(c, rt.goal.waiting))
    BY <2>1, <2>3, <2>4, KeepsCompose DEF Keeps
  <2>7. phase' = phase
    BY <1>6 DEF ResumeWaiting
  <2> QED
    BY <2>5, <2>6, <2>7
<1> QED
  BY <1>2, <1>3, <1>4, <1>5, <1>6

LEMMA ResumeWorks ==
  ASSUME WorkInv, nextId \in Nat \ {0}, ResumeGoal
  PROVE  WorkInv'
<1> DEFINE quiet == Quiet(rt)
           goal == [quiet.goal EXCEPT !.id = nextId, !.status = "active", !.reset = TRUE]
           s == [quiet EXCEPT !.stale = FALSE, !.owner = "goal", !.goal = goal]
           t == [quiet EXCEPT !.stale = TRUE]
<1> SUFFICES Keeps(rt, rt') /\ phase' = phase
  BY KeepsWork
<1>1. Good(rt) /\ Typed(rt) /\ WellKept(rt.goal) /\ ~Active(rt) /\ nextId \in 1 .. MaxGoals
  BY GoalRunAssumption DEF WorkInv, Good, Typed, ResumeGoal, CanResume, Stopped, Active
<1>7. nextId \in 0 .. MaxGoals /\ nextId # 0
  BY <1>1, GoalRunAssumption
<1>2. Typed(quiet) /\ Calm(quiet) /\ Still(rt, quiet) /\ quiet.goal = rt.goal
  BY <1>1, QuietCalms, CalmedIs
<1>3. /\ phase' = phase
      /\ \/ rt' = ReleaseWorkflow(rt)
         \/ rt' = Send(Persist([quiet EXCEPT
                       !.stale = FALSE, !.owner = "goal", !.goal.id = nextId,
                       !.goal.status = "active", !.goal.reset = TRUE]), nextId, TRUE)
         \/ rt' = ReleaseWorkflow(Persist(t))
  BY DEF ResumeGoal
<1> HIDE DEF quiet
<1>4. CASE rt' = ReleaseWorkflow(rt)
  BY <1>1, <1>3, <1>4, ReleaseGood
<1>5. CASE rt' = Send(Persist([quiet EXCEPT
                       !.stale = FALSE, !.owner = "goal", !.goal.id = nextId,
                       !.goal.status = "active", !.goal.reset = TRUE]), nextId, TRUE)
  <2>1. WellKept(goal)
    <3>1. /\ goal \in Goals /\ goal.id = nextId /\ goal.status = "active" /\ nextId # 0
      <4>1. quiet.goal \in Goals
        BY <1>1, <1>2 DEF WellKept
      <4> QED
        BY <1>7, <4>1 DEF Goals, Statuses
    <3> HIDE DEF goal
    <3> QED
      BY <3>1 DEF WellKept
  <2>2. rt' = Send(Persist(s), nextId, TRUE)
    <3>1. s = [quiet EXCEPT
                       !.stale = FALSE, !.owner = "goal", !.goal.id = nextId,
                       !.goal.status = "active", !.goal.reset = TRUE]
      BY <1>2 DEF Typed
    <3> QED
      BY <1>5, <3>1
  <2> HIDE DEF goal
  <2>3. /\ Typed(s) /\ s.owner = "goal"
        /\ s.queue = quiet.queue /\ s.intent = quiet.intent /\ s.delivery = quiet.delivery
        /\ s.timer = quiet.timer /\ s.guard = quiet.guard /\ s.inputs = quiet.inputs
    BY <1>2, <2>1 DEF Typed
  <2> HIDE DEF s
  <2>4. Keeps(quiet, Persist(s))
    BY <1>2, <2>3, TakeOverGood DEF Held
  <2>5. Keeps(Persist(s), Send(Persist(s), nextId, TRUE))
    BY <1>7, <2>4, SendGood DEF Keeps
  <2> QED
    BY <1>2, <1>3, <2>2, <2>4, <2>5, KeepsCompose DEF Keeps
<1>6. CASE rt' = ReleaseWorkflow(Persist(t))
  <2>1. /\ Typed(t) /\ t.goal = rt.goal
        /\ t.queue = quiet.queue /\ t.intent = quiet.intent /\ t.delivery = quiet.delivery
        /\ t.timer = quiet.timer /\ t.guard = quiet.guard /\ t.inputs = quiet.inputs
    BY <1>2 DEF Typed
  <2> HIDE DEF t
  <2>2. Keeps(quiet, Persist(t)) /\ ~Active(Persist(t))
    BY <1>1, <1>2, <2>1, TakeOverGood DEF Held, Active
  <2>3. Keeps(Persist(t), ReleaseWorkflow(Persist(t)))
    BY <2>2, ReleaseGood DEF Keeps
  <2> QED
    BY <1>2, <1>3, <1>6, <2>2, <2>3, KeepsCompose DEF Keeps
<1> QED
  BY <1>3, <1>4, <1>5, <1>6

-----------------------------------------------------------------------------
LEMMA EditedGood ==
  ASSUME Good(rt), rt.goal # NoGoal, nextId \in 0 .. MaxGoals, nextId # 0, NEW budget
  PROVE  Keeps(rt, Edited(budget))
<1> DEFINE recorded == RecordUsage(rt)
           quiet == Quiet(recorded)
           spent == budget = "lowered" \/ (budget = "kept" /\ recorded.goal.spent)
           next == [recorded.goal EXCEPT !.id = nextId, !.waiting = "no", !.spent = spent]
           status == EditedStatus(next)
           exhausted == IF budget = "kept" THEN quiet.exhausted ELSE spent
           stale == status # "active"
           owner == IF status = "active" THEN "goal" ELSE quiet.owner
           reset == next.reset \/ status = "active"
           goal == [next EXCEPT !.status = status, !.reset = reset]
           s == [quiet EXCEPT !.exhausted = exhausted, !.stale = stale, !.owner = owner,
                              !.goal = goal]
<1>1. Edited(budget) = Persist([quiet EXCEPT
            !.exhausted = IF budget = "kept" THEN @ ELSE spent,
            !.stale = status # "active",
            !.owner = IF status = "active" THEN "goal" ELSE @,
            !.goal = [next EXCEPT !.status = status, !.reset = @ \/ status = "active"]])
  BY DEF Edited
<1>2. Typed(recorded) /\ Still(rt, recorded) /\ recorded.goal \in Goals
      /\ recorded.goal.status # "none"
  BY RecordGood DEF Good, Typed, WellKept
<1> HIDE DEF recorded
<1>3. Typed(quiet) /\ Calm(quiet) /\ Still(recorded, quiet)
  BY <1>2, QuietCalms, CalmedIs
<1> HIDE DEF quiet
<1>4. spent \in BOOLEAN
  BY <1>2 DEF Goals
<1> HIDE DEF spent
<1>5. next \in Goals /\ next.id = nextId /\ next.waiting = "no" /\ next.status # "none"
  BY <1>2, <1>4 DEF Goals, Waitings
<1> HIDE DEF next
<1>6. status \in Statuses \ {"none"}
  BY <1>5 DEF EditedStatus, Goals, Statuses
<1> HIDE DEF status
<1>7. /\ exhausted \in BOOLEAN /\ stale \in BOOLEAN /\ owner \in {"none", "goal", "other"}
      /\ reset \in BOOLEAN /\ (status = "active" => owner = "goal")
  BY <1>3, <1>4, <1>5 DEF Typed, Goals
<1>8. Edited(budget) = Persist(s)
  <2>1. next.reset \/ status = "active" <=> reset
    OBVIOUS
  <2>2. [next EXCEPT !.status = status, !.reset = @ \/ status = "active"] = goal
    BY <1>5 DEF Goals
  <2> HIDE DEF goal
  <2> QED
    BY <1>1, <1>3, <2>2 DEF Typed
<1> HIDE DEF exhausted, stale, owner, reset
<1>9. WellKept(goal) /\ goal.status = status
  <2>1. goal \in Goals /\ goal.id = nextId /\ goal.waiting = "no" /\ goal.status = status
    BY <1>5, <1>6, <1>7 DEF Goals
  <2> HIDE DEF goal
  <2> QED
    BY <1>6, <2>1 DEF WellKept
<1> HIDE DEF goal
<1>10. /\ Typed(s) /\ s.owner = owner /\ s.goal = goal
       /\ s.queue = quiet.queue /\ s.intent = quiet.intent /\ s.delivery = quiet.delivery
       /\ s.timer = quiet.timer /\ s.guard = quiet.guard /\ s.inputs = quiet.inputs
  BY <1>3, <1>7, <1>9 DEF Typed
<1> HIDE DEF s
<1>11. Held(s)
  BY <1>7, <1>9, <1>10 DEF Held, Active
<1>12. Keeps(quiet, Persist(s))
  BY <1>3, <1>10, <1>11, TakeOverGood
<1> QED
  BY <1>2, <1>3, <1>8, <1>12, StillComposes, KeepsCompose

LEMMA EditWorks ==
  ASSUME WorkInv, nextId \in Nat \ {0}, NEW budget, EditGoal(budget)
  PROVE  WorkInv'
<1> DEFINE e == Edited(budget)
           recorded == RecordUsage(rt)
           quiet == Quiet(recorded)
<1> SUFFICES Keeps(rt, rt') /\ phase' = phase
  BY KeepsWork
<1>1. Good(rt) /\ Typed(rt) /\ WellKept(rt.goal) /\ rt.goal # NoGoal
  BY DEF WorkInv, Good, Typed, EditGoal
<1>2. nextId \in 0 .. MaxGoals /\ nextId # 0
  BY GoalRunAssumption DEF EditGoal
<1>3. Keeps(rt, e)
  BY <1>1, <1>2, EditedGood
<1>4. /\ phase' = phase
      /\ \/ Active(rt) /\ rt' = PauseForTools(rt, TRUE)
         \/ rt' = rt
         \/ ~Active(e) /\ rt' = ReleaseWorkflow(e)
         \/ rt' = Send(e, nextId, TRUE)
         \/ rt' = RollBack(quiet, recorded.goal)
  BY DEF EditGoal
<1> HIDE DEF e
<1>5. Active(rt) => Keeps(rt, PauseForTools(rt, TRUE))
  BY <1>1, StopsGood DEF Active
<1>6. ~Active(e) => Keeps(rt, ReleaseWorkflow(e))
  BY <1>3, ReleaseGood, KeepsCompose DEF Keeps
<1>7. Keeps(rt, Send(e, nextId, TRUE))
  <2>1. Keeps(e, Send(e, nextId, TRUE))
    BY <1>2, <1>3, SendGood DEF Keeps
  <2> QED
    BY <1>3, <2>1, KeepsCompose DEF Keeps
<1>8. Keeps(rt, RollBack(quiet, recorded.goal))
  <2>1. Typed(recorded) /\ Still(rt, recorded) /\ WellKept(recorded.goal)
    BY <1>1, RecordGood DEF Typed
  <2> HIDE DEF recorded
  <2>2. Typed(quiet) /\ Calm(quiet) /\ Still(recorded, quiet)
    BY <2>1, QuietCalms, CalmedIs
  <2> HIDE DEF quiet
  <2>3. Keeps(quiet, RollBack(quiet, recorded.goal))
    BY <2>1, <2>2, RollBackGood
  <2> QED
    BY <2>1, <2>2, <2>3, StillComposes, KeepsCompose
<1> HIDE DEF quiet, recorded
<1> QED
  BY <1>1, <1>4, <1>5, <1>6, <1>7, <1>8, GoodIsKept

-----------------------------------------------------------------------------
\* Messages arrive and are moved.

\* Where the messages are says nothing of what is owned.
LEMMA SameMarksOwned ==
  ASSUME NEW r, NEW s, Owned(r), s.goal = r.goal, s.intent = r.intent,
         s.delivery = r.delivery, s.timer = r.timer, DOMAIN s.queue = DOMAIN r.queue,
         \A j \in DOMAIN s.queue : s.queue[j].mark = r.queue[j].mark
  PROVE  Owned(s)
<1>1. (Active(s) <=> Active(r)) /\ (Waits(s) <=> Waits(r))
  BY DEF Active, Waits
<1>2. /\ {s.intent, s.delivery} \subseteq {0, s.goal.id}
      /\ s.intent = 0 \/ s.delivery = 0
      /\ s.intent # 0 \/ s.delivery # 0 => Active(s) /\ ~Waits(s)
      /\ s.timer => Active(s)
  BY <1>1 DEF Owned
<1>3. \A j \in DOMAIN s.queue : s.queue[j].mark = "live" => s.delivery # 0
  BY DEF Owned
<1>4. \A j, k \in DOMAIN s.queue : {s.queue[j].mark, s.queue[k].mark} = {"live"} => j = k
  BY DEF Owned
<1> QED
  BY <1>2, <1>3, <1>4 DEF Owned

LEMMA PlacedGood ==
  ASSUME NEW r, Good(r), NEW i \in DOMAIN r.queue, NEW at \in {"sent", "starting", "queued"},
         NEW s, s = [r EXCEPT !.queue[i].at = at]
  PROVE  /\ Good(s) /\ (Rests(r) => Rests(s))
         /\ at # "starting" => Starting(s) = Starting(r) \ {i}
         /\ at = "starting" => Starting(s) = Starting(r) \cup {i}
<1> DEFINE m == [r.queue[i] EXCEPT !.at = at]
           q == [r.queue EXCEPT ![i] = m]
<1>1. r.queue \in Seq(Mails) /\ r.queue[i] \in Mails
  BY DEF Good, Typed
<1>2. m \in Mails /\ m.at = at /\ m.mark = r.queue[i].mark
  BY <1>1 DEF Mails
<1> HIDE DEF m
<1>3. /\ q \in Seq(Mails) /\ DOMAIN q = DOMAIN r.queue
      /\ q[i] = m /\ \A j \in DOMAIN r.queue : j # i => q[j] = r.queue[j]
  BY <1>1, <1>2
<1>4. s = [r EXCEPT !.queue = q]
  BY DEF Good, Typed, m
<1> HIDE DEF q
<1>5. /\ Typed(s) /\ s.goal = r.goal /\ s.owner = r.owner /\ s.saved = r.saved
      /\ s.queue = q /\ s.intent = r.intent /\ s.delivery = r.delivery
      /\ s.timer = r.timer /\ s.guard = r.guard /\ s.inputs = r.inputs
  BY <1>3, <1>4 DEF Good, Typed
<1>6. Held(s) /\ Sync(s) /\ (Rests(r) => Rests(s))
  BY <1>5 DEF Held, Active, Good, Sync, Rests
<1>7. \A j \in DOMAIN q : q[j].mark = r.queue[j].mark
  BY <1>2, <1>3
<1>8. Owned(s)
  <2>1. Owned(r)
    BY DEF Good
  <2> QED
    <3>1. DOMAIN s.queue = DOMAIN r.queue
      BY <1>3, <1>5
    <3>2. \A j \in DOMAIN s.queue : s.queue[j].mark = r.queue[j].mark
      <4> SUFFICES ASSUME NEW j \in DOMAIN s.queue
                   PROVE  s.queue[j].mark = r.queue[j].mark
        OBVIOUS
      <4>1. s.queue[j].mark = q[j].mark /\ j \in DOMAIN q
        BY <1>5
      <4> QED
        BY <1>7, <4>1
    <3>3. /\ s.goal = r.goal /\ s.intent = r.intent
          /\ s.delivery = r.delivery /\ s.timer = r.timer
      BY <1>5
    <3> QED
      BY ONLY <2>1, <3>1, <3>2, <3>3, SameMarksOwned
<1>9. /\ at # "starting" => Starting(s) = Starting(r) \ {i}
      /\ at = "starting" => Starting(s) = Starting(r) \cup {i}
  BY <1>2, <1>3, <1>5 DEF Starting
<1> QED
  BY <1>5, <1>6, <1>8, <1>9 DEF Good

LEMMA InputWorks ==
  ASSUME WorkInv, Input
  PROVE  WorkInv'
<1> DEFINE i == FirstAt("sent")
<1>1. Good(rt) /\ i \in DOMAIN rt.queue /\ phase # "starting"
  BY FirstIs DEF WorkInv, Good, Input
<1>2. Starting(rt) = {}
  BY <1>1 DEF WorkInv
<1>3. \/ rt' = Dequeue(rt, i) /\ phase' = phase
      \/ rt' = [rt EXCEPT !.queue[i].at = "starting"] /\ phase = "idle" /\ phase' = "starting"
      \/ rt' = [rt EXCEPT !.queue[i].at = "queued"] /\ phase' = phase
  BY DEF Input
<1> HIDE DEF i
<1>4. CASE rt' = Dequeue(rt, i) /\ phase' = phase
  <2>1. Keeps(rt, rt')
    BY <1>1, <1>2, <1>4, DequeueGood DEF Keeps, Still
  <2> QED
    BY <1>4, <2>1, KeepsWork
<1>5. CASE rt' = [rt EXCEPT !.queue[i].at = "starting"] /\ phase = "idle" /\ phase' = "starting"
  <2>1. Good(rt') /\ (Rests(rt) => Rests(rt')) /\ Starting(rt') = {i}
    BY <1>1, <1>2, <1>5, PlacedGood
  <2> QED
    BY <1>5, <2>1 DEF WorkInv, Between
<1>6. CASE rt' = [rt EXCEPT !.queue[i].at = "queued"] /\ phase' = phase
  <2>1. Good(rt') /\ (Rests(rt) => Rests(rt')) /\ Starting(rt') = {}
    BY <1>1, <1>2, <1>6, PlacedGood
  <2>2. Keeps(rt, rt')
    BY <1>2, <2>1 DEF Keeps, Still
  <2> QED
    BY <1>6, <2>2, KeepsWork
<1> QED
  BY <1>3, <1>4, <1>5, <1>6

LEMMA OtherMail ==
  ASSUME NEW kind \in Kinds, NEW at \in {"sent", "starting", "queued"}
  PROVE  Other(kind, at) \in Mails /\ Other(kind, at).mark # "live" /\ Other(kind, at).at = at
BY GoalRunAssumption DEF Other, Message, Mails

LEMMA ArrivesWork ==
  ASSUME WorkInv, phase = "idle" \/ Running, NEW r, Keeps(rt, r), NEW kind \in Kinds,
         Arrives(r, kind)
  PROVE  WorkInv'
<1>1. CASE phase = "idle"
  <2> DEFINE m == Other(kind, "starting")
  <2>1. m \in Mails /\ m.mark # "live" /\ m.at = "starting"
    BY OtherMail
  <2>2. rt' = [r EXCEPT !.queue = Append(@, m)] /\ phase' = "starting"
    BY <1>1 DEF Arrives
  <2> HIDE DEF m
  <2>3. Good(rt') /\ (Rests(r) => Rests(rt')) /\ Starting(rt') = Starting(r) \cup {Len(r.queue) + 1}
    BY <2>1, <2>2, AppendGood DEF Keeps
  <2>4. Starting(r) = {} /\ Rests(r)
    BY <1>1 DEF WorkInv, Between, Keeps, Still
  <2> QED
    BY <2>2, <2>3, <2>4 DEF WorkInv
<1>2. CASE phase # "idle"
  <2> DEFINE m == Other(kind, "queued")
             s == [r EXCEPT !.queue = Append(@, m)]
             inputs == Append(r.inputs, kind)
  <2>1. m \in Mails /\ m.mark # "live" /\ m.at = "queued"
    BY OtherMail
  <2>2. rt' = [r EXCEPT !.queue = Append(@, m), !.inputs = Append(@, kind)] /\ phase' = phase
    BY <1>2 DEF Arrives
  <2>3. rt' = [s EXCEPT !.inputs = inputs]
    BY <2>2 DEF Keeps, Good, Typed
  <2> HIDE DEF m
  <2>4. Keeps(r, s)
    BY <2>1, AppendGood DEF Keeps
  <2> HIDE DEF s, inputs
  <2>5. Moved(s, rt')
    <3>1. /\ Typed(rt') /\ rt'.goal = s.goal /\ rt'.saved = s.saved /\ rt'.owner = s.owner
          /\ rt'.intent = s.intent /\ rt'.delivery = s.delivery /\ rt'.timer = s.timer
          /\ rt'.queue = s.queue
      BY <2>3, <2>4 DEF Keeps, Good, Typed
    <3>2. Good(s) /\ (Active(rt') <=> Active(s)) /\ (Waits(rt') <=> Waits(s))
      BY <2>4, <3>1 DEF Keeps, Active, Waits
    <3>3. Owned(rt') /\ Held(rt') /\ Sync(rt') /\ Starting(rt') = Starting(s)
      BY <3>1, <3>2 DEF Good, Owned, Held, Sync, Starting
    <3> QED
      BY <3>1, <3>3 DEF Moved, Good
  <2>6. Moved(rt, rt')
    BY <2>4, <2>5, MovedBy
  <2> QED
    BY <1>2, <2>2, <2>6, MovesWork DEF Running, Between
<1> QED
  BY <1>1, <1>2

LEMMA OutsideWorks ==
  ASSUME WorkInv, Outside
  PROVE  WorkInv'
<1>1. Good(rt) /\ Typed(rt)
  BY DEF WorkInv, Good
<1>2. Messages \subseteq Kinds /\ "ext" \in Kinds /\ "custom" \in Kinds
  BY GoalRunAssumption DEF Kinds
<1> DEFINE c == ClearGoalWait(rt)
           d == [c EXCEPT !.recovery = NoRecovery]
           e == [d EXCEPT !.stale = FALSE]
           x == [c EXCEPT !.recovery = NoRecovery, !.stale = FALSE]
<1>3. Keeps(rt, c) /\ Keeps(rt, d) /\ Keeps(rt, ResetEpoch(x))
  <2>1. Keeps(rt, c)
    BY <1>1, ClearWaitGood
  <2> HIDE DEF c
  <2>2. Keeps(c, d)
    BY <2>1, AsideFields, AsideKeeps DEF Keeps, Good
  <2>3. x = e
    BY <2>1 DEF Keeps, Good, Typed
  <2> HIDE DEF d
  <2>4. Keeps(d, e)
    BY <2>2, AsideFields, AsideKeeps DEF Keeps, Good
  <2> HIDE DEF e, x
  <2>5. Keeps(e, ResetEpoch(e))
    BY <2>4, ResetGood DEF Keeps
  <2> QED
    BY <2>1, <2>2, <2>3, <2>4, <2>5, KeepsCompose DEF Keeps
<1>4. CASE ExtInput
  <2>1. Arrives(d, "ext") /\ (phase = "idle" \/ Running)
    BY <1>4 DEF ExtInput
  <2> HIDE DEF d
  <2> QED
    BY <1>2, <1>3, <2>1, ArrivesWork
<1>5. ASSUME NEW kind \in {"user", "steer", "follow"}, UserInput(kind) PROVE WorkInv'
  <2>1. kind \in Kinds /\ (phase = "idle" \/ Running)
        /\ (Arrives(c, kind) \/ Arrives(ResetEpoch(x), kind))
    BY <1>2, <1>5 DEF UserInput
  <2> HIDE DEF c, x
  <2> QED
    BY <1>3, <2>1, ArrivesWork
<1>6. CASE CustomMessage
  <2>1. CASE phase = "idle" /\ phase' = "model" /\ rt' = StartCustomMessage(AgentStart(rt))
    <3>1. Keeps(rt, rt')
      BY <1>1, <2>1, AgentStartGood, CustomGood, KeepsCompose DEF Keeps
    <3> QED
      BY <2>1, <3>1, MovedBy, MovesWork DEF Between
  <2>2. CASE rt' = [rt EXCEPT !.queue = Append(@, Other("custom", "queued"))] /\ phase' = phase
    <3> DEFINE m == Other("custom", "queued")
    <3>1. m \in Mails /\ m.mark # "live" /\ m.at # "starting"
      BY <1>2, OtherMail
    <3> HIDE DEF m
    <3>2. Keeps(rt, [rt EXCEPT !.queue = Append(@, m)])
      BY <1>1, <3>1, AppendGood
    <3> QED
      BY <2>2, <3>2, KeepsWork DEF m
  <2> QED
    BY <1>6, <2>1, <2>2 DEF CustomMessage
<1>7. CASE UserAborts
  BY <1>1, <1>7, AsideFields, AsideKeeps, KeepsWork DEF UserAborts
<1>8. CASE OtherWorkflow
  <2> DEFINE owner == IF rt.owner = "none" THEN "other" ELSE "none"
  <2>1. rt' = [rt EXCEPT !.owner = owner] /\ ~Active(rt)
    BY <1>1, <1>8 DEF OtherWorkflow, Typed, Good, Held
  <2>2. owner \in {"none", "goal", "other"}
    OBVIOUS
  <2> HIDE DEF owner
  <2>3. Keeps(rt, rt')
    BY <1>1, <2>1, <2>2, OwnerKeeps
  <2> QED
    BY <1>8, <2>3, KeepsWork DEF OtherWorkflow
<1>9. CASE ToolsChange
  BY <1>1, <1>9, GoodIsKept, KeepsWork DEF ToolsChange
<1> QED
  BY <1>4, <1>5, <1>6, <1>7, <1>8, <1>9 DEF Outside

-----------------------------------------------------------------------------
LEMMA PromptWorks ==
  ASSUME WorkInv, PromptStarts
  PROVE  WorkInv'
<1> DEFINE i == FirstAt("starting")
           m == rt.queue[i]
           d == Dequeue(rt, i)
<1>1. Good(rt) /\ phase = "starting" /\ phase' = "model" /\ rt' = AgentStarts(d, m)
  BY DEF WorkInv, PromptStarts
<1>2. i \in DOMAIN rt.queue /\ rt.queue[i].at = "starting"
  BY <1>1, FirstIs DEF WorkInv, Starting, Good
<1> HIDE DEF i
<1>3. Starting(rt) \subseteq {i} /\ m \in Mails
  BY <1>1, <1>2 DEF WorkInv, Starting, Good, Typed
<1>4. /\ Good(d) /\ Starting(d) = {}
      /\ m.mark = "live" => \A j \in DOMAIN d.queue : d.queue[j].mark # "live"
  BY <1>1, <1>2, <1>3, DequeueGood
<1> HIDE DEF d, m
<1>5. Keeps(d, rt')
  BY <1>1, <1>3, <1>4, AgentStartsGood
<1> QED
  BY <1>1, <1>4, <1>5 DEF WorkInv, Between, Keeps, Still

\* The end of a turn.
LEMMA TurnEndsWork ==
  ASSUME WorkInv, phase # "starting", NEW r, Moved(rt, r), NEW stop, TurnEnds(r, stop)
  PROVE  WorkInv'
<1>1. Moved(r, rt')
  BY RecordTurnGood DEF TurnEnds, Moved
<1>2. Moved(rt, rt') /\ phase' = "boundary"
  BY <1>1, MovedBy DEF TurnEnds
<1> QED
  BY <1>2, MovesWork DEF Between

LEMMA RespondWorks ==
  ASSUME WorkInv, Respond
  PROVE  WorkInv'
<1>1. Good(rt) /\ Moved(rt, rt) /\ phase = "model"
  BY DEF WorkInv, Moved, Respond
<1>2. CASE TurnEnds(rt, "aborted")
  BY <1>1, <1>2, TurnEndsWork
<1>3. ASSUME NEW stop \in Answers, NEW spends \in BOOLEAN, NEW r,
             r = [rt EXCEPT !.exhausted = @ \/ spends],
             \/ rt' = r /\ phase' = "tool"
             \/ TurnEnds(r, stop)
      PROVE  WorkInv'
  <2> DEFINE b == rt.exhausted \/ spends
  <2>1. b \in BOOLEAN /\ r = [rt EXCEPT !.exhausted = b]
    BY <1>3
  <2> HIDE DEF b
  <2>2. Moved(rt, r)
    BY <1>1, <2>1, AsideFields, AsideKeeps, MovedBy DEF Good
  <2>3. CASE rt' = r /\ phase' = "tool"
    BY <1>1, <2>2, <2>3, MovesWork DEF Between
  <2>4. CASE TurnEnds(r, stop)
    BY <1>1, <2>2, <2>4, TurnEndsWork
  <2> QED
    BY <1>3, <2>3, <2>4
<1>4. CASE ~TurnEnds(rt, "aborted")
  <2>1. PICK stop \in Answers, spends \in BOOLEAN :
          LET r == [rt EXCEPT !.exhausted = @ \/ spends] IN
          (rt' = r /\ phase' = "tool") \/ TurnEnds(r, stop)
    BY <1>4 DEF Respond
  <2> DEFINE r == [rt EXCEPT !.exhausted = @ \/ spends]
  <2>2. (rt' = r /\ phase' = "tool") \/ TurnEnds(r, stop)
    BY <2>1
  <2>3. r = [rt EXCEPT !.exhausted = @ \/ spends]
    OBVIOUS
  <2> HIDE DEF r
  <2> QED
    BY <2>2, <2>3, <1>3
<1> QED
  BY <1>2, <1>4

LEMMA CallWorks ==
  ASSUME WorkInv, CallTool
  PROVE  WorkInv'
<1> DEFINE called == rt.run.tool \/ rt.run.auto
           run == [rt.run EXCEPT !.tool = called]
           attempted == [rt EXCEPT !.run = run]
           fresh == [attempted EXCEPT !.stale = FALSE]
           raw == [rt EXCEPT !.run.tool = @ \/ rt.run.auto]
           r == IF rt.stale /\ Stopped(rt) THEN Abort(attempted)
                ELSE ToolEnds(IF ~(rt.stale /\ Stopped(rt)) /\ Accepts(fresh)
                              THEN Execute(fresh) ELSE fresh)
<1>1. Good(rt) /\ phase # "starting"
  BY DEF WorkInv, CallTool
<1>2. run \in Runs
  BY <1>1 DEF Good, Typed, Runs
<1>3. TurnEnds(r, "tool")
  <2>1. raw = attempted
    BY <1>1 DEF Good, Typed
  <2> DEFINE tf == [raw EXCEPT !.stale = FALSE]
  <2>2. TurnEnds(IF rt.stale /\ Stopped(rt) THEN Abort(raw)
                 ELSE ToolEnds(IF ~(rt.stale /\ Stopped(rt)) /\ Accepts(tf)
                               THEN Execute(tf) ELSE tf), "tool")
    BY DEF CallTool
  <2> HIDE DEF raw, attempted
  <2> QED
    BY <2>1, <2>2
<1> HIDE DEF run
<1>4. Keeps(rt, attempted)
  <2>1. Aside(rt, attempted)
    BY <1>1, <1>2 DEF Aside, Good, Typed, Rests
  <2> HIDE DEF attempted
  <2> QED
    BY <1>1, <2>1, AsideKeeps
<1>5. Keeps(attempted, Abort(attempted)) /\ Keeps(attempted, fresh)
  BY <1>4, AsideFields, AsideKeeps DEF Keeps, Good
<1> HIDE DEF attempted, fresh
<1>6. Accepts(fresh) => Keeps(fresh, Execute(fresh))
  BY <1>5, ExecuteGood DEF Accepts, Keeps
<1>7. Keeps(rt, r)
  <2>1. Keeps(fresh, ToolEnds(fresh))
    BY <1>5, ToolGood DEF Keeps
  <2>2. Accepts(fresh) => Keeps(Execute(fresh), ToolEnds(Execute(fresh)))
    BY <1>6, ToolGood DEF Keeps
  <2>3. Keeps(rt, Abort(attempted)) /\ Keeps(rt, ToolEnds(fresh))
        /\ (Accepts(fresh) => Keeps(rt, ToolEnds(Execute(fresh))))
    BY <1>4, <1>5, <1>6, <2>1, <2>2, KeepsCompose DEF Keeps
  <2> QED
    BY <2>3, Zenon
<1> HIDE DEF r
<1> QED
  BY <1>1, <1>3, <1>7, MovedBy, TurnEndsWork

\* A message that Pi has queued is delivered to a run, and may begin it.
LEMMA DeliveryWorks ==
  ASSUME WorkInv, DeliverQueued \/ ContinueQueued
  PROVE  WorkInv'
<1>1. Good(rt) /\ phase # "starting" /\ phase' = "model" /\ Starting(rt) = {}
  BY DEF WorkInv, DeliverQueued, ContinueQueued
<1>2. PICK i \in DOMAIN rt.queue :
        \/ rt' = MessageStart(Dequeue(rt, i), rt.queue[i])
        \/ rt' = MessageStart(AgentStart(Dequeue(rt, i)), rt.queue[i])
  BY DEF DeliverQueued, ContinueQueued, Deliverable, Steers, FollowUps
<1> DEFINE d == Dequeue(rt, i)
           m == rt.queue[i]
<1>3. m \in Mails
  BY <1>1 DEF Good, Typed
<1>4. Good(d) /\ Starting(d) = {}
  BY <1>1, DequeueGood
<1> HIDE DEF m, d
<1>5. Keeps(d, MessageStart(d, m))
  BY <1>3, <1>4, MessageGood
<1>6. Keeps(d, MessageStart(AgentStart(d), m))
  BY <1>3, <1>4, MessageGood, AgentStartGood, KeepsCompose DEF Keeps
<1>7. Keeps(d, rt')
  BY <1>2, <1>5, <1>6 DEF d, m
<1> QED
  BY <1>1, <1>4, <1>7 DEF WorkInv, Between, Keeps, Still

LEMMA EndWorks ==
  ASSUME WorkInv, AgentEnd
  PROVE  WorkInv'
<1>1. Good(rt) /\ phase # "starting" /\ phase' = "ended" /\ rt.run \in Runs
  BY DEF WorkInv, AgentEnd, Good, Typed
<1>2. PICK same \in BOOLEAN :
        rt' = [RunEnds([rt EXCEPT !.run = NoRun], rt.run, same) EXCEPT !.aborting = FALSE]
  BY DEF AgentEnd
<1> DEFINE r == [rt EXCEPT !.run = NoRun]
           e == RunEnds(r, rt.run, same)
<1>3. Keeps(rt, r)
  BY <1>1, AsideFields, AsideKeeps DEF Good
<1> HIDE DEF r
<1>4. Moved(r, e)
  BY <1>1, <1>3, RunEndsGood DEF Keeps
<1> HIDE DEF e
<1>5. Keeps(e, [e EXCEPT !.aborting = FALSE])
  BY <1>4, AsideFields, AsideKeeps DEF Moved, Good
<1>6. Moved(rt, rt')
  BY <1>2, <1>3, <1>4, <1>5, MovedBy DEF r, e
<1> QED
  BY <1>1, <1>6, MovesWork DEF Between

LEMMA SettledWorks ==
  ASSUME WorkInv, AgentSettled
  PROVE  WorkInv'
<1>1. Good(rt) /\ phase = "ended" /\ phase' = "idle" /\ Starting(rt) = {}
  BY DEF WorkInv, AgentSettled
<1> DEFINE final == FinalizeSettledRecovery(rt)
<1>2. PICK way \in Ways("idle") :
        \E done \in {DispatchDueGoalWait(final, way), Dispatch(final, way)} :
          rt' = [done EXCEPT !.guard = 0, !.inputs = <<>>, !.run = NoRun, !.aborting = FALSE]
  BY DEF AgentSettled
<1>9. PICK done \in {DispatchDueGoalWait(final, way), Dispatch(final, way)} :
        rt' = [done EXCEPT !.guard = 0, !.inputs = <<>>, !.run = NoRun, !.aborting = FALSE]
  BY <1>2
<1>3. Keeps(rt, final)
  BY <1>1, FinalizeGood
<1> HIDE DEF final
<1>4. Keeps(final, done)
  BY <1>9, <1>3, DueWaitGood, DispatchGood DEF Keeps
<1>5. Good(done) /\ Starting(done) = {}
  BY <1>1, <1>3, <1>4 DEF Keeps, Still
<1>6. 0 \in 0 .. MaxGoals /\ NoRun \in Runs
  BY GoalRunAssumption, TypedValues
<1>7. Aside(done, rt') /\ Rests(rt')
  BY <1>9, <1>5, <1>6 DEF Aside, Good, Typed, Rests
<1>8. Keeps(done, rt')
  BY <1>5, <1>7, AsideKeeps
<1> QED
  BY <1>1, <1>5, <1>7, <1>8 DEF WorkInv, Keeps, Still

LEMMA TimersWork ==
  ASSUME WorkInv, DispatchTimer \/ DeadlinePasses
  PROVE  WorkInv'
<1> SUFFICES Keeps(rt, rt') /\ phase' = phase
  BY KeepsWork
<1>1. Good(rt) /\ Typed(rt)
  BY DEF WorkInv, Good
<1>2. CASE DispatchTimer
  <2> DEFINE off == [rt EXCEPT !.timer = FALSE]
  <2>1. PICK way : rt' = Dispatch(off, way)
    BY <1>2 DEF DispatchTimer
  <2>2. Keeps(rt, off)
    <3>1. /\ Typed(off) /\ off.goal = rt.goal /\ off.saved = rt.saved /\ off.owner = rt.owner
          /\ off.queue = rt.queue /\ off.guard = rt.guard /\ off.inputs = rt.inputs
          /\ off.intent = rt.intent /\ off.delivery = rt.delivery /\ ~off.timer
      BY <1>1 DEF Typed
    <3> HIDE DEF off
    <3> QED
      BY <1>1, <3>1, LessWork
  <2> HIDE DEF off
  <2>3. Keeps(off, Dispatch(off, way))
    BY <2>2, DispatchGood DEF Keeps
  <2> QED
    BY <1>2, <2>1, <2>2, <2>3, KeepsCompose DEF Keeps, DispatchTimer
<1>3. CASE DeadlinePasses
  <2> DEFINE late == [rt EXCEPT !.alarm = FALSE, !.due = TRUE]
  <2>1. PICK way : rt' = DispatchDueGoalWait(late, way) \/ rt' = late
    BY <1>3 DEF DeadlinePasses
  <2>2. Keeps(rt, late)
    <3>1. Aside(rt, late)
      BY <1>1 DEF Aside, Typed, Rests
    <3> HIDE DEF late
    <3> QED
      BY <1>1, <3>1, AsideKeeps
  <2> HIDE DEF late
  <2>3. Keeps(late, DispatchDueGoalWait(late, way))
    BY <2>2, DueWaitGood DEF Keeps
  <2> QED
    BY <1>3, <2>1, <2>2, <2>3, KeepsCompose DEF Keeps, DeadlinePasses
<1> QED
  BY <1>2, <1>3

LEMMA CompactionWorks ==
  ASSUME WorkInv, NEW where \in Compacting,
         CompactBegins(where) \/ CompactEnds \/ CompactFails
  PROVE  WorkInv'
<1>1. Good(rt)
  BY DEF WorkInv
<1>2. CASE CompactBegins(where)
  <2>1. Keeps(rt, rt')
    BY <1>1, <1>2, BeforeCompactGood DEF CompactBegins
  <2>2. /\ phase' = phase \/ phase' = where
        /\ phase \in {"idle", "ended"} /\ (Between(where) => phase = "idle")
    BY <1>2 DEF CompactBegins, Compacting, Between
  <2>3. CASE phase' = phase
    BY <2>1, <2>3, KeepsWork
  <2>4. CASE phase' = where
    BY <2>1, <2>2, <2>4 DEF WorkInv, Keeps, Still, Between, Compacting
  <2> QED
    BY <2>2, <2>3, <2>4
<1>3. CASE CompactEnds
  <2> DEFINE done == SessionCompact(rt)
  <2>1. Keeps(rt, done)
    BY <1>1, SessionCompactGood
  <2>2. rt' = done \/ rt' = AgentStart(done)
    BY <1>3 DEF CompactEnds
  <2> HIDE DEF done
  <2>3. Keeps(done, AgentStart(done))
    BY <2>1, AgentStartGood DEF Keeps
  <2>4. Keeps(rt, rt')
    BY <2>1, <2>2, <2>3, KeepsCompose DEF Keeps
  <2>5. /\ phase \in Compacting /\ phase' \in {"model", "ended", "idle"}
        /\ phase' = "idle" => phase = "compact_manual"
    BY <1>3 DEF CompactEnds, Compacting
  <2> QED
    BY <2>4, <2>5 DEF WorkInv, Keeps, Still, Between, Compacting
<1>4. CASE CompactFails
  <2>1. /\ rt' = rt /\ phase \in Compacting /\ phase' \in {"ended", "idle"}
        /\ phase' = "idle" => phase = "compact_manual"
    BY <1>4 DEF CompactFails, Compacting
  <2> QED
    BY <2>1 DEF WorkInv, Between, Compacting
<1> QED
  BY <1>2, <1>3, <1>4

LEMMA SessionsWork ==
  ASSUME WorkInv, Reload \/ Crash
  PROVE  WorkInv'
<1>1. Good(rt) /\ Typed(rt)
  BY DEF WorkInv, Good
<1>2. ASSUME NEW r, Typed(r), SessionStart(r) PROVE WorkInv'
  <2>1. PICK owner \in {"none", "goal", "other"} :
          rt' = [Restored([r EXCEPT !.owner = owner]) EXCEPT !.aborting = FALSE]
    BY <1>2 DEF SessionStart, Starts
  <2> DEFINE o == [r EXCEPT !.owner = owner]
             s == Restored(o)
  <2>2. Typed(o)
    BY <1>2 DEF Typed
  <2> HIDE DEF o
  <2>3. Good(s) /\ Starting(s) = {} /\ Rests(s)
    BY <2>2, RestoredGood
  <2> HIDE DEF s
  <2>4. Keeps(s, [s EXCEPT !.aborting = FALSE])
    BY <2>3, AsideFields, AsideKeeps DEF Good
  <2>5. Keeps(s, rt') /\ phase' = "idle"
    BY <1>2, <2>1, <2>4 DEF s, o, SessionStart
  <2> QED
    BY <2>3, <2>5 DEF WorkInv, Keeps, Still
<1>3. CASE Reload
  <2> DEFINE r == IF Active(rt) THEN RecordUsage(rt) ELSE rt
             p == Persist(r)
  <2>1. Typed(r)
    BY <1>1, RecordGood
  <2>2. SessionStart(ReleaseWorkflow(p))
    BY <1>3 DEF Reload
  <2> HIDE DEF r
  <2>3. Typed(p)
    BY <2>1, PersistGood
  <2> HIDE DEF p
  <2> QED
    BY <1>2, <2>2, <2>3, ReleaseTyped
<1>4. CASE Crash
  BY <1>1, <1>2, <1>4, ReleaseTyped DEF Crash
<1> QED
  BY <1>3, <1>4

LEMMA RunWorks ==
  ASSUME WorkInv, Run
  PROVE  WorkInv'
<1>1. CASE NextTurn
  BY <1>1 DEF NextTurn, WorkInv, Between
<1>2. CASE Retry
  <2>1. Keeps(rt, rt') /\ phase = "ended" /\ phase' = "model"
    BY <1>2, AgentStartGood DEF WorkInv, Retry
  <2> QED
    BY <2>1, MovedBy, MovesWork DEF Between
<1>3. CASE CompactEnds \/ CompactFails
  <2>1. "compact_auto" \in Compacting
    BY DEF Compacting
  <2> QED
    BY <1>3, <2>1, CompactionWorks
<1>4. CASE \E where \in Compacting : CompactBegins(where)
  BY <1>4, CompactionWorks
<1> QED
  BY <1>1, <1>2, <1>3, <1>4, InputWorks, PromptWorks, RespondWorks, CallWorks, DeliveryWorks,
     EndWorks, SettledWorks, TimersWork DEF Run

-----------------------------------------------------------------------------
\* What is beside the runtime has its types.
BesideInv ==
    /\ phase \in {"idle", "starting", "model", "tool", "boundary", "ended"} \cup Compacting
    /\ nextId \in 1 .. MaxGoals + 1 /\ solo \in 0 .. AutomaticTurns + 1
    /\ asked \in BOOLEAN /\ lull \in BOOLEAN /\ tools \in BOOLEAN

GoalInv == WorkInv /\ BesideInv

LEMMA GoalInvInit == Init => GoalInv
<1> SUFFICES ASSUME Init PROVE GoalInv
  OBVIOUS
<1>1. 0 \in 0 .. MaxGoals /\ WellKept(NoGoal) /\ NoRecovery \in Recoveries /\ NoRun \in Runs
      /\ NoGoal \in Goals
  BY TypedValues, GoalRunAssumption DEF WellKept
<1>2. /\ Typed(rt) /\ rt.goal = NoGoal /\ rt.saved = NoGoal /\ rt.queue = <<>>
      /\ rt.intent = 0 /\ rt.delivery = 0 /\ ~rt.timer /\ rt.guard = 0 /\ rt.inputs = <<>>
  <2> DEFINE none == NoGoal
             calm == NoRecovery
             still == NoRun
             r == [goal |-> none, intent |-> 0, delivery |-> 0, timer |-> FALSE,
                   recovery |-> calm, run |-> still, guard |-> 0, stale |-> FALSE,
                   inputs |-> <<>>, retry |-> "none", alarm |-> FALSE, due |-> FALSE,
                   exhausted |-> FALSE, owner |-> "none", saved |-> none,
                   queue |-> <<>>, aborting |-> FALSE]
  <2>1. rt = r
    BY DEF Init
  <2>2. WellKept(none) /\ calm \in Recoveries /\ still \in Runs
    BY <1>1
  <2> HIDE DEF none, calm, still
  <2>3. /\ Typed(r) /\ r.goal = none /\ r.saved = none /\ r.queue = <<>>
        /\ r.intent = 0 /\ r.delivery = 0 /\ ~r.timer /\ r.guard = 0 /\ r.inputs = <<>>
    BY <1>1, <2>2 DEF Typed
  <2> QED
    BY <2>1, <2>3 DEF none
<1>3. ~Active(rt) /\ Sync(rt)
  <2>1. NoGoal.status = "none"
    BY TypedValues
  <2> QED
    BY <1>1, <1>2, <2>1 DEF Active, Sync, Goals
<1>4. Calm(rt) /\ Starting(rt) = {} /\ Rests(rt)
  BY <1>2 DEF Calm, Starting, Rests
<1>5. WorkInv
  BY <1>2, <1>3, <1>4, CalmIsOwned DEF WorkInv, Good, Held, Init
<1>6. BesideInv
  <2>1. AutomaticTurns \in Nat /\ MaxGoals \in Nat \ {0}
    BY GoalRunAssumption
  <2>2. phase = "idle" /\ nextId = 1 /\ solo = 0 /\ asked = TRUE /\ lull = FALSE /\ tools = TRUE
    BY DEF Init
  <2>3. 1 \in 1 .. MaxGoals + 1 /\ 0 \in 0 .. AutomaticTurns + 1
    BY <2>1
  <2> QED
    BY <2>2, <2>3 DEF BesideInv
<1> QED
  BY <1>5, <1>6 DEF GoalInv

LEMMA BesideStep ==
  ASSUME BesideInv, [Next]_vars
  PROVE  BesideInv'
<1>1. {AutomaticTurns, MaxGoals} \subseteq Nat
  BY GoalRunAssumption
<1> DEFINE Phases == {"idle", "starting", "model", "tool", "boundary", "ended"} \cup Compacting
<1>2. ASSUME NEW leaves \in BOOLEAN, Asks(leaves)
      PROVE  asked' \in BOOLEAN /\ lull' \in BOOLEAN /\ solo' \in 0 .. AutomaticTurns + 1
  BY <1>1, <1>2 DEF Asks
<1>3. CASE UserCommand
  <2>1. /\ phase' = phase /\ tools' = tools
        /\ nextId' = nextId \/ (nextId' = nextId + 1 /\ nextId <= MaxGoals)
    <3>1. CASE StartGoal \/ ReplaceGoal
      BY <3>1, Zenon DEF StartGoal, ReplaceGoal, Activate
    <3>2. CASE PauseGoal \/ ClearGoal \/ ResumeWaiting
      BY <3>2 DEF PauseGoal, ClearGoal, ResumeWaiting
    <3>3. CASE ResumeGoal
      BY <3>3, Zenon DEF ResumeGoal
    <3>4. ASSUME NEW budget, EditGoal(budget)
          PROVE  /\ phase' = phase /\ tools' = tools
                 /\ nextId' = nextId \/ (nextId' = nextId + 1 /\ nextId <= MaxGoals)
      BY <3>4, Zenon DEF EditGoal
    <3> QED
      BY <1>3, <3>1, <3>2, <3>3, <3>4 DEF UserCommand
  <2>2. ASSUME NEW existing, NEW way, Activate(existing, way)
        PROVE  asked' \in BOOLEAN /\ lull' \in BOOLEAN /\ solo' \in 0 .. AutomaticTurns + 1
    BY <1>2, <2>2 DEF Activate, BesideInv
  <2>3. asked' \in BOOLEAN /\ lull' \in BOOLEAN /\ solo' \in 0 .. AutomaticTurns + 1
    <3>1. CASE StartGoal \/ ReplaceGoal
      BY <2>2, <3>1 DEF StartGoal, ReplaceGoal
    <3>2. CASE PauseGoal \/ ClearGoal \/ ResumeGoal \/ ResumeWaiting
      BY <1>2, <3>2 DEF PauseGoal, ClearGoal, ResumeGoal, ResumeWaiting, BesideInv
    <3>3. ASSUME NEW budget, EditGoal(budget)
          PROVE  asked' \in BOOLEAN /\ lull' \in BOOLEAN /\ solo' \in 0 .. AutomaticTurns + 1
      BY <1>2, <3>3 DEF EditGoal, BesideInv
    <3> QED
      BY <1>3, <3>1, <3>2, <3>3 DEF UserCommand
  <2>4. nextId' \in 1 .. MaxGoals + 1
    BY <1>1, <2>1 DEF BesideInv
  <2> QED
    BY <2>1, <2>3, <2>4 DEF BesideInv
<1>4. CASE Outside
  <2>1. nextId' = nextId /\ phase' \in {phase, "starting", "model"} /\ tools' \in BOOLEAN
    BY <1>4 DEF BesideInv, Outside, ExtInput, UserInput, CustomMessage, UserAborts, OtherWorkflow,
                ToolsChange, Arrives
  <2>2. asked' \in BOOLEAN /\ lull' \in BOOLEAN /\ solo' \in 0 .. AutomaticTurns + 1
    BY <1>2, <1>4 DEF BesideInv, Outside, ExtInput, UserInput, CustomMessage, UserAborts,
                      OtherWorkflow, ToolsChange, history
  <2> QED
    BY <2>1, <2>2 DEF BesideInv
<1>5. CASE Run
  <2>1. nextId' = nextId /\ tools' = tools
    BY <1>5 DEF Run, Input, PromptStarts, Respond, CallTool, DeliverQueued, NextTurn, AgentEnd,
                Retry, ContinueQueued, AgentSettled, DispatchTimer, DeadlinePasses,
                CompactBegins, CompactEnds, CompactFails
  <2>2. phase' \in Phases
    BY <1>5 DEF Run, Input, PromptStarts, Respond, TurnEnds, CallTool, DeliverQueued, NextTurn,
                AgentEnd, Retry, ContinueQueued, AgentSettled, DispatchTimer, DeadlinePasses,
                CompactBegins, CompactEnds, CompactFails, BesideInv, Compacting
  <2>3. ASSUME NEW r, NEW stop, TurnEnds(r, stop)
        PROVE  lull' \in BOOLEAN /\ solo' \in 0 .. AutomaticTurns + 1
    BY <1>1, <2>3 DEF TurnEnds, IsSolo, BesideInv
  <2>4. ASSUME NEW m, NEW asks, Delivered(m, asks)
        PROVE  asked' \in BOOLEAN /\ solo' \in 0 .. AutomaticTurns + 1
    BY <1>1, <2>4 DEF Delivered, BesideInv
  <2>5. asked' \in BOOLEAN /\ lull' \in BOOLEAN
    BY <1>5, <2>3, <2>4 DEF Run, Input, PromptStarts, Respond, CallTool, DeliverQueued, NextTurn,
                AgentEnd, Retry, ContinueQueued, AgentSettled, DispatchTimer, DeadlinePasses,
                CompactBegins, CompactEnds, CompactFails, BesideInv, history
  <2>6. solo' \in 0 .. AutomaticTurns + 1
    <3>1. solo \in 0 .. AutomaticTurns + 1 /\ 0 \in 0 .. AutomaticTurns + 1
      BY <1>1 DEF BesideInv
    <3>2. CASE Respond \/ CallTool
      BY <2>3, <3>1, <3>2 DEF Respond, CallTool
    <3>3. CASE DeliverQueued \/ ContinueQueued
      BY <2>4, <3>3 DEF DeliverQueued, ContinueQueued
    <3>4. CASE PromptStarts
      BY <3>1, <3>4 DEF PromptStarts
    <3>5. CASE ~(Respond \/ CallTool \/ DeliverQueued \/ ContinueQueued \/ PromptStarts)
      <4>1. solo' = solo
        BY <1>5, <3>5 DEF Run, Input, NextTurn, AgentEnd, Retry, AgentSettled, DispatchTimer,
                          DeadlinePasses, CompactBegins, CompactEnds, CompactFails, history
      <4> QED
        BY <3>1, <4>1
    <3> QED
      BY <3>2, <3>3, <3>4, <3>5
  <2> QED
    BY <2>1, <2>2, <2>5, <2>6 DEF BesideInv
<1>6. CASE Reload \/ Crash
  <2>1. PICK r : SessionStart(r)
    BY <1>6 DEF Reload, Crash
  <2> QED
    BY <1>1, <2>1 DEF SessionStart, BesideInv, Owns
<1>7. CASE UNCHANGED vars
  BY <1>7 DEF vars, BesideInv
<1> QED
  BY <1>3, <1>4, <1>5, <1>6, <1>7 DEF Next

LEMMA GoalInvStep == GoalInv /\ [Next]_vars => GoalInv'
<1> SUFFICES ASSUME GoalInv, [Next]_vars PROVE GoalInv'
  OBVIOUS
<1>1. WorkInv /\ BesideInv /\ nextId \in Nat \ {0}
  BY GoalRunAssumption DEF GoalInv, BesideInv
<1>2. WorkInv'
  <2>1. CASE UserCommand
    <3>1. ASSUME NEW budget, EditGoal(budget) PROVE WorkInv'
      BY <1>1, <3>1, EditWorks
    <3> QED
      BY <1>1, <2>1, <3>1, CommandsWork, ResumeWorks DEF UserCommand
  <2>2. CASE UNCHANGED vars
    <3>1. Keeps(rt, rt') /\ phase' = phase
      BY <1>1, <2>2, GoodIsKept DEF vars, WorkInv
    <3> QED
      BY <1>1, <3>1, KeepsWork
  <2> QED
    BY <1>1, <2>1, <2>2, OutsideWorks, RunWorks, SessionsWork DEF Next
<1> QED
  BY <1>1, <1>2, BesideStep DEF GoalInv

\* What the runs check of the goal runtime, GoalIsSound: the state is well-formed, nothing
\* of a run outlives it, Pi prepares one prompt at most, and what pi-goal has requested or
\* sent is one thing, for the goal that is active now and does not wait.
THEOREM GoalCorrect == Spec => []GoalIsSound
<1>1. GoalInv => GoalIsSound
  <2> SUFFICES ASSUME GoalInv PROVE GoalIsSound
    OBVIOUS
  <2>1. Good(rt) /\ Typed(rt) /\ Held(rt) /\ Owned(rt) /\ WellKept(rt.goal)
    BY DEF GoalInv, WorkInv, Good, Typed
  <2>2. (phase = "starting") <=> (FirstAt("starting") # 0)
    <3>1. Starting(rt) # {} <=> FirstAt("starting") # 0
      <4>1. 0 \notin DOMAIN rt.queue
        BY <2>1 DEF Typed
      <4> QED
        BY <2>1, <4>1, FirstIs DEF Starting
    <3> QED
      BY <3>1 DEF GoalInv, WorkInv
  <2>3. phase \in {"idle", "starting"} => rt.inputs = <<>> /\ rt.guard = 0
    BY DEF GoalInv, WorkInv, Between, Rests
  <2>4. /\ rt.goal.id \in 0 .. MaxGoals /\ rt.goal.status \in Statuses
        /\ {rt.goal.turns, rt.goal.repeats} \subseteq Nat
        /\ rt.goal.waiting \in Waitings /\ (Waits(rt) => Active(rt))
    BY <2>1 DEF WellKept, Goals, Waits, Active
  <2>5. /\ rt.run.id \in 0 .. Foreign /\ {rt.intent, rt.delivery, rt.guard} \subseteq 0 .. MaxGoals
        /\ rt.retry \in {"none", "armed", "exhausted"} /\ rt.owner \in {"none", "goal", "other"}
    BY <2>1 DEF Typed, Runs
  <2>6. TypeOK
    BY <2>2, <2>3, <2>4, <2>5 DEF TypeOK, GoalInv, BesideInv
  <2>7. OwnedWorkIsCurrent
    BY <2>1 DEF OwnedWorkIsCurrent, Owned, Held, Owns
  <2> QED
    BY <2>6, <2>7 DEF GoalIsSound
<1> QED
  BY <1>1, GoalInvInit, GoalInvStep, PTL DEF Spec

-----------------------------------------------------------------------------
(***************************************************************************)
(* An active goal goes on.  Every operator is taken apart a third time:    *)
(* what a runtime had to go on with is there afterwards (Sticks and        *)
(* Carries), and also what it had planned (Keen).                          *)
(***************************************************************************)
\* The marks of continuations, and whose a live one is.
WellMarked(r) ==
    \A i \in DOMAIN r.queue : (r.queue[i].kind = "cont") <=> (r.queue[i].mark \in {"live", "cancelled"})
Mailed(r) == WellMarked(r) /\ \A i \in DOMAIN r.queue : r.queue[i].mark = "live" => r.queue[i].id = r.goal.id

\* What there is to go on with: a prompt of the goal that Pi has yet to take, one that it
\* prepares, a run of the goal or one whose end looks after it, a request or a wait.
Live(r) == \E i \in DOMAIN r.queue : r.queue[i].mark = "live"
Pending(r) == \E i \in DOMAIN r.queue : r.queue[i].kind = "goal" /\ r.queue[i].id = r.goal.id
                                        /\ r.queue[i].at # "starting"
Prepared(r) == \E i \in DOMAIN r.queue : r.queue[i].at = "starting"
                   /\ (r.queue[i].kind \in {"goal", "cont"} => r.queue[i].id = r.goal.id)
Stays(r) == r.run.id \in {Unowned, r.goal.id, Foreign}
Plans(r) == Waits(r) \/ r.intent # 0 \/ r.delivery # 0
Recovers(r) == r.recovery # NoRecovery

\* A delivery is under way; a wait is watched, or its deadline has passed.
Delivers(r) == r.delivery # 0 => Live(r)
Watched(r) == r.goal.waiting = "timed" => r.alarm \/ r.retry = "exhausted"
Timely(r) == r.goal.waiting = "timed" => r.alarm \/ r.retry = "exhausted" \/ r.due

Working(p) == p \in {"model", "tool", "boundary"}
Ending(p) == p \in {"ended", "compact_auto", "compact_retry"}
MovesAt(r, p, l) ==
    /\ Mailed(r)
    /\ Between(p) => ~Queued(r)
    /\ ~Working(p) => r.run.id = Unowned
    /\ Active(r) =>
         /\ Delivers(r) \/ l
         /\ Timely(r) /\ (Between(p) => Watched(r))
         /\ \/ l \/ Pending(r)
            \/ p \in {"idle", "compact_manual"} /\ Plans(r)
            \/ p = "starting" /\ Prepared(r)
            \/ Working(p) /\ Stays(r)
            \/ Ending(p) /\ (Plans(r) \/ Recovers(r) \/ Queued(r))

\* How a runtime may change, but for its run; with the run; and with its plans.
Sticks(r, s) ==
    /\ Mailed(r) => Mailed(s)
    /\ Queued(s) <=> Queued(r)
    /\ Active(s) =>
         /\ Active(r) /\ s.goal.id = r.goal.id
         /\ (Prepared(r) => Prepared(s)) /\ (Pending(r) => Pending(s))
         /\ (Delivers(r) => Delivers(s))
         /\ (Watched(r) => Watched(s)) /\ (Timely(r) => Timely(s))
Carries(r, s) == Sticks(r, s) /\ s.run.id = r.run.id
Keen(r, s) ==
    Active(s) => /\ Plans(r) => Plans(s)
                 /\ Recovers(r) => Recovers(s) \/ Plans(s)
Goes(r, s) == Carries(r, s) /\ Keen(r, s)

\* s is r but for what does not matter here.
Alike(r, s) ==
    /\ s.goal.id = r.goal.id /\ s.goal.status = r.goal.status /\ s.goal.waiting = r.goal.waiting
    /\ s.intent = r.intent /\ s.delivery = r.delivery /\ s.queue = r.queue
    /\ s.recovery = r.recovery /\ s.run.id = r.run.id
    /\ s.alarm = r.alarm /\ s.retry = r.retry /\ s.due = r.due

\* s has what r has in the queue, but that live prompts may be cancelled.
Marked(r, s) ==
    /\ DOMAIN s.queue = DOMAIN r.queue
    /\ \A i \in DOMAIN r.queue :
         /\ s.queue[i].kind = r.queue[i].kind /\ s.queue[i].id = r.queue[i].id
         /\ s.queue[i].at = r.queue[i].at
         /\ \/ s.queue[i].mark = r.queue[i].mark
            \/ s.queue[i].mark = "cancelled" /\ r.queue[i].mark = "live"

-----------------------------------------------------------------------------
LEMMA AlikeGoes ==
  ASSUME NEW r, NEW s, Alike(r, s)
  PROVE  Goes(r, s) /\ (Active(s) <=> Active(r)) /\ (Waits(s) <=> Waits(r)) /\ Marked(r, s)
         /\ (Stays(r) => Stays(s)) /\ (Prepared(s) <=> Prepared(r)) /\ (Pending(s) <=> Pending(r))
<1>1. (Active(s) <=> Active(r)) /\ (Waits(s) <=> Waits(r)) /\ (Stays(r) => Stays(s))
  BY DEF Alike, Active, Waits, Stays
<1>2. (Mailed(r) => Mailed(s)) /\ (Queued(s) <=> Queued(r)) /\ (Delivers(r) => Delivers(s))
  BY DEF Alike, Mailed, WellMarked, Queued, Delivers, Live
<1>3. (Prepared(r) <=> Prepared(s)) /\ (Pending(r) <=> Pending(s))
  BY DEF Alike, Prepared, Pending
<1>4. (Watched(r) => Watched(s)) /\ (Timely(r) => Timely(s))
  BY DEF Alike, Watched, Timely
<1>5. (Plans(r) => Plans(s)) /\ (Recovers(r) => Recovers(s))
  BY <1>1 DEF Alike, Plans, Recovers
<1>6. s.goal.id = r.goal.id /\ s.run.id = r.run.id /\ Marked(r, s)
  BY DEF Alike, Marked
<1> QED
  BY <1>1, <1>2, <1>3, <1>4, <1>5, <1>6 DEF Goes, Carries, Sticks, Keen

LEMMA AlikeComposes ==
  ASSUME NEW r, NEW s, NEW t, Alike(r, s), Alike(s, t)
  PROVE  Alike(r, t)
BY DEF Alike

LEMMA GoesCompose ==
  ASSUME NEW r, NEW s, NEW t
  PROVE  /\ Sticks(r, s) /\ Sticks(s, t) => Sticks(r, t)
         /\ Carries(r, s) /\ Carries(s, t) => Carries(r, t)
         /\ Goes(r, s) /\ Goes(s, t) => Goes(r, t)
         /\ Goes(r, s) => Carries(r, s)
         /\ Carries(r, s) => Sticks(r, s)
<1>1. Sticks(r, s) /\ Sticks(s, t) => Sticks(r, t)
  BY DEF Sticks
<1>2. Carries(r, s) /\ Carries(s, t) => Carries(r, t)
  BY <1>1 DEF Carries
<1>3. Keen(r, s) /\ Keen(s, t) /\ Sticks(s, t) => Keen(r, t)
  BY DEF Keen, Sticks
<1> QED
  BY <1>1, <1>2, <1>3 DEF Goes, Carries

\* What these say of the invariant in a phase.
LEMMA GoesOn ==
  ASSUME NEW r, NEW s, NEW p, NEW l, MovesAt(r, p, l)
  PROVE  /\ Goes(r, s) => MovesAt(s, p, l)
         /\ Carries(r, s) /\ (Working(p) \/ p = "starting") => MovesAt(s, p, l)
         /\ Carries(r, s) /\ l => MovesAt(s, p, l)
<1>1. Stays(r) /\ Carries(r, s) /\ Active(s) => Stays(s)
  BY DEF Stays, Carries, Sticks
<1>2. Carries(r, s) =>
        /\ Mailed(s) /\ (Between(p) => ~Queued(s)) /\ (~Working(p) => s.run.id = Unowned)
        /\ Active(s) => /\ Delivers(s) \/ l
                        /\ Timely(s) /\ (Between(p) => Watched(s))
  BY DEF MovesAt, Carries, Sticks
<1>3. Goes(r, s) => MovesAt(s, p, l)
  BY <1>1, <1>2 DEF MovesAt, Goes, Keen, Carries, Sticks
<1>4. Carries(r, s) /\ (Working(p) \/ p = "starting") => MovesAt(s, p, l)
  BY <1>1, <1>2 DEF MovesAt, Carries, Sticks, Working, Ending
<1>5. Carries(r, s) /\ l => MovesAt(s, p, l)
  BY <1>2 DEF MovesAt
<1> QED
  BY <1>3, <1>4, <1>5

-----------------------------------------------------------------------------
\* s has the messages of r and its run, and sends no work.
Quieted(r, s) ==
    /\ Marked(r, s) /\ s.run.id = r.run.id
    /\ \A i \in DOMAIN s.queue : s.queue[i].mark # "live"

LEMMA AlikeFields ==
  ASSUME NEW r, Typed(r)
  PROVE  /\ Alike(r, r) /\ Alike(r, Persist(r)) /\ Alike(r, RecordUsage(r)) /\ Alike(r, Abort(r))
         /\ Alike(r, ReleaseWorkflow(r))
         /\ \A x : /\ Alike(r, [r EXCEPT !.stale = x]) /\ Alike(r, [r EXCEPT !.exhausted = x])
                   /\ Alike(r, [r EXCEPT !.aborting = x]) /\ Alike(r, [r EXCEPT !.guard = x])
                   /\ Alike(r, [r EXCEPT !.inputs = x]) /\ Alike(r, [r EXCEPT !.timer = x])
                   /\ Alike(r, [r EXCEPT !.owner = x])
<1>1. Alike(r, r) /\ Alike(r, Persist(r)) /\ Alike(r, Abort(r)) /\ Alike(r, ReleaseWorkflow(r))
  BY DEF Typed, Alike, Persist, Abort, ReleaseWorkflow
<1>2. Alike(r, RecordUsage(r))
  <2> DEFINE spent == r.exhausted
             u == [r EXCEPT !.goal.spent = spent]
  <2>1. RecordUsage(r) = r \/ (r.goal # NoGoal /\ RecordUsage(r) = u)
    BY Zenon DEF RecordUsage
  <2>2. r.goal \in Goals
    BY DEF Typed, WellKept
  <2> HIDE DEF spent
  <2>3. Alike(r, u)
    BY <2>2 DEF Typed, Goals, Alike
  <2> QED
    BY <1>1, <2>1, <2>3
<1>3. ASSUME NEW x
      PROVE  /\ Alike(r, [r EXCEPT !.stale = x]) /\ Alike(r, [r EXCEPT !.exhausted = x])
             /\ Alike(r, [r EXCEPT !.aborting = x]) /\ Alike(r, [r EXCEPT !.guard = x])
             /\ Alike(r, [r EXCEPT !.inputs = x]) /\ Alike(r, [r EXCEPT !.timer = x])
             /\ Alike(r, [r EXCEPT !.owner = x])
  BY DEF Typed, Alike
<1> QED
  BY <1>1, <1>2, <1>3

LEMMA CancelQuiets ==
  ASSUME NEW r, Typed(r)
  PROVE  LET c == CancelContinuation(r) IN
         /\ Quieted(r, c) /\ c.goal = r.goal /\ c.recovery = r.recovery /\ c.run = r.run
         /\ c.alarm = r.alarm /\ c.retry = r.retry /\ c.due = r.due
         /\ c.intent = 0 /\ c.delivery = 0
<1> DEFINE q == [i \in DOMAIN r.queue |-> IF r.queue[i].mark = "live"
                     THEN [r.queue[i] EXCEPT !.mark = "cancelled"] ELSE r.queue[i]]
           c == [r EXCEPT !.timer = FALSE, !.intent = 0, !.delivery = 0, !.queue = q]
<1>1. /\ DOMAIN q = DOMAIN r.queue
      /\ \A i \in DOMAIN r.queue :
           /\ q[i].mark # "live"
           /\ q[i].kind = r.queue[i].kind /\ q[i].id = r.queue[i].id /\ q[i].at = r.queue[i].at
           /\ q[i].mark = r.queue[i].mark \/ (q[i].mark = "cancelled" /\ r.queue[i].mark = "live")
  <2>1. ASSUME NEW i \in DOMAIN r.queue
        PROVE  /\ q[i].mark # "live"
               /\ q[i].kind = r.queue[i].kind /\ q[i].id = r.queue[i].id /\ q[i].at = r.queue[i].at
               /\ q[i].mark = r.queue[i].mark \/ (q[i].mark = "cancelled" /\ r.queue[i].mark = "live")
    <3>1. r.queue[i] \in Mails
      BY DEF Typed
    <3> QED
      BY <3>1 DEF Mails
  <2> QED
    BY <2>1
<1> HIDE DEF q
<1>2. /\ c.goal = r.goal /\ c.recovery = r.recovery /\ c.run = r.run
      /\ c.alarm = r.alarm /\ c.retry = r.retry /\ c.due = r.due
      /\ c.intent = 0 /\ c.delivery = 0 /\ c.queue = q
  BY DEF Typed
<1>3. CancelContinuation(r) = c
  BY DEF CancelContinuation, q, c
<1> HIDE DEF c
<1>4. Quieted(r, c)
  BY <1>1, <1>2 DEF Quieted, Marked
<1> QED
  BY <1>2, <1>3, <1>4

LEMMA QuietedBy ==
  ASSUME NEW r, NEW s, NEW t, Quieted(r, s)
  PROVE  /\ t.queue = s.queue /\ t.run.id = s.run.id => Quieted(r, t)
         /\ t.queue = r.queue /\ t.run.id = r.run.id => Quieted(t, s)
BY DEF Quieted, Marked

\* What follows from it for a goal that is left, and for one that goes on.
LEMMA QuietedGoes ==
  ASSUME NEW r, NEW s, Quieted(r, s)
  PROVE  /\ Mailed(s) \/ ~WellMarked(r)
         /\ Queued(s) <=> Queued(r)
         /\ ~Active(s) => Goes(r, s)
         /\ Active(r) /\ s.goal.id = r.goal.id /\ s.delivery = 0 /\ Watched(s) =>
              Carries(r, s) /\ (Plans(s) => Goes(r, s))
<1>1. (Mailed(r) => Mailed(s)) /\ (Mailed(s) \/ ~WellMarked(r))
  BY DEF Quieted, Marked, Mailed, WellMarked
<1>2. Queued(s) <=> Queued(r)
  BY DEF Quieted, Marked, Queued
<1>3. s.goal.id = r.goal.id => (Prepared(r) => Prepared(s)) /\ (Pending(r) => Pending(s))
  BY DEF Quieted, Marked, Prepared, Pending
<1>4. s.delivery = 0 => Delivers(s)
  BY DEF Delivers
<1>5. Watched(s) => Timely(s)
  BY DEF Watched, Timely
<1>6. s.run.id = r.run.id
  BY DEF Quieted
<1>7. ~Active(s) => Goes(r, s)
  BY <1>1, <1>2, <1>6 DEF Goes, Carries, Sticks, Keen
<1>8. Active(r) /\ s.goal.id = r.goal.id /\ s.delivery = 0 /\ Watched(s) => Carries(r, s)
  BY <1>1, <1>2, <1>3, <1>4, <1>5, <1>6 DEF Carries, Sticks
<1> QED
  BY <1>1, <1>2, <1>7, <1>8 DEF Goes, Keen

LEMMA StopQuiets ==
  ASSUME NEW r, Typed(r), r.goal.status # "none", NEW effects,
         NEW status \in Statuses \ {"none", "active"}
  PROVE  LET s == Stop(r, status, effects) IN Quieted(r, s) /\ ~Active(s) /\ Goes(r, s)
<1> DEFINE recorded == IF "usage" \in effects THEN RecordUsage(r) ELSE r
           waitless == ClearWaitTimer(recorded)
           quiet == CancelContinuation(waitless)
           stopped == [quiet EXCEPT
            !.recovery = NoRecovery, !.stale = "unblocked" \notin effects,
            !.guard = IF "guard" \in effects THEN r.goal.id ELSE @,
            !.aborting = @ \/ ("abort" \in effects /\ phase # "idle"),
            !.goal.status = status, !.goal.waiting = "no", !.due = FALSE]
           p == Persist(stopped)
           s == ReleaseWorkflow(p)
<1>1. Typed(recorded) /\ recorded.queue = r.queue /\ recorded.run.id = r.run.id
  BY RecordGood, AlikeFields DEF Alike
<1>2. Stop(r, status, effects) = s
  BY DEF Stop
<1> HIDE DEF recorded
<1>3. Typed(waitless) /\ waitless.queue = r.queue /\ waitless.run.id = r.run.id
  BY <1>1 DEF ClearWaitTimer, Typed
<1> HIDE DEF waitless
<1>4. Quieted(r, quiet) /\ Typed(quiet)
  BY <1>3, CancelQuiets, CancelCalms, CalmedIs, QuietedBy
<1> HIDE DEF quiet
<1>5. stopped.queue = quiet.queue /\ stopped.run = quiet.run /\ DOMAIN stopped = DOMAIN quiet
  BY <1>4 DEF Typed
<1> HIDE DEF stopped
<1>6. p.queue = quiet.queue /\ p.run = quiet.run /\ DOMAIN p = DOMAIN quiet
  BY <1>4, <1>5 DEF Persist, Typed
<1> HIDE DEF p
<1>7. s.queue = quiet.queue /\ s.run = quiet.run
  BY <1>4, <1>6 DEF ReleaseWorkflow, Typed
<1>8. ~Active(s)
  BY <1>2, StopGood
<1> HIDE DEF s
<1>9. Quieted(r, s) /\ Goes(r, s)
  BY <1>4, <1>7, <1>8, QuietedBy, QuietedGoes
<1> QED
  BY <1>2, <1>8, <1>9

LEMMA StopsQuiet ==
  ASSUME NEW r, Typed(r), r.goal.status # "none"
  PROVE  /\ \A aborts \in BOOLEAN : Goes(r, SafetyPause(r, aborts)) /\ Goes(r, PauseForTools(r, aborts))
                                    /\ ~Active(SafetyPause(r, aborts)) /\ ~Active(PauseForTools(r, aborts))
         /\ Goes(r, BudgetStop(r)) /\ ~Active(BudgetStop(r))
<1>1. {"paused", "budget_limited"} \subseteq Statuses \ {"none", "active"}
  BY DEF Statuses
<1>2. \A effects : /\ Goes(r, Stop(r, "paused", effects)) /\ ~Active(Stop(r, "paused", effects))
                   /\ Goes(r, Stop(r, "budget_limited", effects))
                   /\ ~Active(Stop(r, "budget_limited", effects))
  BY <1>1, StopQuiets
<1> QED
  BY <1>2, Zenon DEF SafetyPause, PauseForTools, BudgetStop

LEMMA QuietQuiets ==
  ASSUME NEW r, Typed(r)
  PROVE  LET q == Quiet(r) IN
         /\ Quieted(r, q) /\ q.goal = r.goal /\ q.delivery = 0 /\ q.intent = 0
         /\ q.run = r.run /\ q.alarm = FALSE /\ q.retry = "none"
<1> DEFINE w == ClearWaitTimer(r)
           c == CancelContinuation(w)
           q == [c EXCEPT !.recovery = NoRecovery, !.due = FALSE]
<1>1. /\ Typed(w) /\ w.queue = r.queue /\ w.run = r.run /\ w.goal = r.goal
      /\ w.alarm = FALSE /\ w.retry = "none"
  BY DEF ClearWaitTimer, Typed
<1>2. Quiet(r) = q
  BY DEF Quiet
<1> HIDE DEF w
<1>3. /\ Quieted(r, c) /\ Typed(c) /\ c.goal = r.goal /\ c.delivery = 0 /\ c.intent = 0
      /\ c.run = r.run /\ c.alarm = FALSE /\ c.retry = "none"
  BY <1>1, CancelQuiets, CancelCalms, CalmedIs, QuietedBy
<1> HIDE DEF c
<1>4. /\ q.queue = c.queue /\ q.goal = r.goal /\ q.delivery = 0 /\ q.intent = 0
      /\ q.run = r.run /\ q.alarm = FALSE /\ q.retry = "none"
  BY <1>3 DEF Typed
<1> HIDE DEF q
<1> QED
  BY <1>2, <1>3, <1>4, QuietedBy

LEMMA ClearedQuiets ==
  ASSUME NEW r, Typed(r)
  PROVE  Quieted(r, Cleared(r)) /\ ~Active(Cleared(r)) /\ Goes(r, Cleared(r))
<1> DEFINE q == Quiet(r)
           s == [q EXCEPT !.stale = FALSE, !.goal = NoGoal, !.exhausted = FALSE]
           p == Persist(s)
           c == ReleaseWorkflow(p)
<1>1. Typed(q) /\ Quieted(r, q)
  BY QuietCalms, CalmedIs, QuietQuiets
<1>2. Cleared(r) = c
  BY DEF Cleared
<1> HIDE DEF q
<1>3. /\ c.queue = q.queue /\ c.run = q.run
  <2>1. s.queue = q.queue /\ s.run = q.run /\ DOMAIN s = DOMAIN q
    BY <1>1 DEF Typed
  <2> HIDE DEF s
  <2>2. p.queue = q.queue /\ p.run = q.run /\ DOMAIN p = DOMAIN q
    BY <1>1, <2>1 DEF Persist, Typed
  <2> HIDE DEF p
  <2> QED
    BY <1>1, <2>2 DEF ReleaseWorkflow, Typed
<1>4. ~Active(c)
  BY <1>2, ClearedGood
<1> HIDE DEF c
<1> QED
  BY <1>1, <1>2, <1>3, <1>4, QuietedBy, QuietedGoes

-----------------------------------------------------------------------------
LEMMA RestoreWatches ==
  ASSUME NEW r, Typed(r), Held(r)
  PROVE  LET s == RestoreWaitTimer(r) IN
         /\ s.queue = r.queue /\ s.run = r.run /\ s.goal = r.goal /\ s.recovery = r.recovery
         /\ s.intent = r.intent /\ s.delivery = r.delivery /\ s.owner = r.owner
         /\ Active(s) => Watched(s)
BY DEF RestoreWaitTimer, ClearWaitTimer, Typed, Held, Active, Owns, Watched

LEMMA EnterWaitGoes ==
  ASSUME NEW r, Typed(r), Active(r), Held(r), NEW waiting \in Waitings
  PROVE  LET e == EnterGoalWait(r, waiting) IN
         /\ Quieted(r, e) /\ Carries(r, e) /\ Active(e) /\ Watched(e)
         /\ e.goal.id = r.goal.id /\ e.goal.waiting = waiting /\ ~Recovers(e)
         /\ waiting # "no" => Goes(r, e) /\ Plans(e)
<1> DEFINE a == RecordUsage(r)
           c == CancelContinuation(a)
           b == [c EXCEPT !.recovery = NoRecovery]
           t == [b EXCEPT !.goal.waiting = waiting]
           p == Persist(t)
           e == RestoreWaitTimer(p)
<1>1. /\ Typed(a) /\ Active(a) /\ Held(a) /\ a.queue = r.queue /\ a.run.id = r.run.id
      /\ a.goal.id = r.goal.id
  BY RecordGood, AlikeFields DEF Active, Held, Alike
<1>e. EnterGoalWait(r, waiting) = e
  BY DEF EnterGoalWait
<1> HIDE DEF a
<1>2. /\ Typed(c) /\ Active(c) /\ Held(c) /\ Quieted(r, c) /\ c.goal.id = r.goal.id
      /\ c.delivery = 0
  BY <1>1, CancelCalms, CancelQuiets, CalmedIs, QuietedBy DEF Active
<1> HIDE DEF c
<1>3. /\ Typed(b) /\ Active(b) /\ Held(b) /\ b.queue = c.queue /\ b.run = c.run /\ b.goal = c.goal
      /\ b.delivery = 0 /\ b.recovery = NoRecovery
  BY <1>2, TypedValues DEF Typed, Active, Held
<1> HIDE DEF b
<1>4. /\ Typed(t) /\ Active(t) /\ Held(t) /\ t.queue = c.queue /\ t.run = c.run
      /\ t.goal.id = r.goal.id /\ t.goal.waiting = waiting
      /\ t.delivery = 0 /\ t.recovery = NoRecovery
  <2>1. b.goal.status = "active" /\ WellKept(b.goal)
    BY <1>3 DEF Active, Typed
  <2> DEFINE goal == [b.goal EXCEPT !.waiting = waiting]
  <2>2. /\ WellKept(goal) /\ goal.id = b.goal.id /\ goal.status = b.goal.status
        /\ goal.waiting = waiting
    BY <2>1, WaitingGoal
  <2>3. t = [b EXCEPT !.goal = goal]
    BY <1>3 DEF Typed
  <2> HIDE DEF goal, t
  <2>4. /\ Typed(t) /\ t.goal = goal /\ t.owner = b.owner /\ t.queue = b.queue /\ t.run = b.run
        /\ t.delivery = b.delivery /\ t.recovery = b.recovery
    BY <1>3, <2>2, <2>3 DEF Typed
  <2> QED
    BY <1>2, <1>3, <2>2, <2>4 DEF Held, Active
<1> HIDE DEF t
<1>5. /\ Typed(p) /\ Active(p) /\ Held(p) /\ p.queue = c.queue /\ p.run = c.run
      /\ p.goal.id = r.goal.id /\ p.goal.waiting = waiting
      /\ p.delivery = 0 /\ p.recovery = NoRecovery
  <2>1. /\ Typed(p) /\ p.goal = t.goal /\ p.owner = t.owner /\ p.queue = t.queue /\ p.run = t.run
        /\ p.delivery = t.delivery /\ p.recovery = t.recovery
    BY <1>4 DEF Persist, Typed
  <2> HIDE DEF p
  <2> QED
    BY <1>4, <2>1 DEF Held, Active
<1> HIDE DEF p
<1>6. /\ e.queue = c.queue /\ e.run = c.run /\ e.goal = p.goal /\ e.delivery = 0
      /\ e.recovery = NoRecovery /\ Watched(e) /\ Active(e)
  BY <1>5, RestoreWatches DEF Active
<1> HIDE DEF e
<1>7. Quieted(r, e) /\ Carries(r, e) /\ (Plans(e) => Goes(r, e))
  BY <1>2, <1>5, <1>6, QuietedBy, QuietedGoes
<1>8. waiting # "no" => Plans(e)
  BY <1>5, <1>6 DEF Plans, Waits
<1> QED
  BY <1>e, <1>5, <1>6, <1>7, <1>8 DEF Recovers

LEMMA ClearWaitFollows ==
  ASSUME NEW r, Good(r)
  PROVE  LET s == ClearGoalWait(r) IN
         /\ Carries(r, s) /\ (Active(s) <=> Active(r)) /\ s.goal.id = r.goal.id
         /\ s.queue = r.queue /\ s.intent = r.intent /\ s.delivery = r.delivery
         /\ s.recovery = r.recovery /\ s.run = r.run
<1>1. CASE ~(Owns(r) /\ Waits(r))
  <2>1. ClearGoalWait(r) = r
    BY <1>1 DEF ClearGoalWait
  <2> QED
    BY <2>1 DEF Carries, Sticks
<1>2. CASE Owns(r) /\ Waits(r)
  <2> DEFINE s == ClearGoalWait(r)
             w == ClearWaitTimer(r)
             goal == [w.goal EXCEPT !.waiting = "no"]
             t == [w EXCEPT !.goal = goal, !.due = FALSE]
  <2>1. Typed(r) /\ r.goal \in Goals
    BY DEF Good, Typed, WellKept
  <2>2. /\ Typed(w) /\ w.goal = r.goal /\ w.queue = r.queue /\ w.intent = r.intent
        /\ w.delivery = r.delivery /\ w.recovery = r.recovery /\ w.run = r.run
    BY <2>1 DEF ClearWaitTimer, Typed
  <2>3. s = Persist(t)
    <3>1. s = Persist([w EXCEPT !.goal.waiting = "no", !.due = FALSE])
      BY <1>2 DEF ClearGoalWait
    <3>2. [w EXCEPT !.goal.waiting = "no", !.due = FALSE] = t
      <4> HIDE DEF w
      <4> QED
        BY <2>2 DEF Typed
    <3> QED
      BY <3>1, <3>2
  <2>4. goal.id = r.goal.id /\ goal.status = r.goal.status /\ goal.waiting = "no"
    BY <2>1, <2>2 DEF Goals
  <2> HIDE DEF w, goal
  <2>5. /\ t.goal = goal /\ t.queue = r.queue /\ t.intent = r.intent
        /\ t.delivery = r.delivery /\ t.recovery = r.recovery /\ t.run = r.run
        /\ DOMAIN t = DOMAIN r /\ "saved" \in DOMAIN t
    BY <2>1, <2>2 DEF Typed
  <2> HIDE DEF t, s
  <2>6. /\ s.goal = goal /\ s.queue = r.queue /\ s.intent = r.intent
        /\ s.delivery = r.delivery /\ s.recovery = r.recovery /\ s.run = r.run
    BY <2>1, <2>3, <2>5 DEF Persist, Typed
  <2>7. (Active(s) <=> Active(r)) /\ s.goal.id = r.goal.id
    BY <2>4, <2>6 DEF Active
  <2>8. Carries(r, s)
    BY <2>4, <2>6, <2>7 DEF Carries, Sticks, Mailed, WellMarked, Queued, Prepared, Pending,
       Delivers, Live, Watched, Timely
  <2> SUFFICES /\ Carries(r, s) /\ (Active(s) <=> Active(r)) /\ s.goal.id = r.goal.id
               /\ s.queue = r.queue /\ s.intent = r.intent /\ s.delivery = r.delivery
               /\ s.recovery = r.recovery /\ s.run = r.run
    BY DEF s
  <2> QED
    BY <2>6, <2>7, <2>8
<1> QED
  BY <1>1, <1>2

LEMMA RequestGoes ==
  ASSUME NEW r, Good(r)
  PROVE  LET s == RequestContinuation(r) IN
         /\ Goes(r, s) /\ s.goal = r.goal /\ s.queue = r.queue /\ s.delivery = r.delivery
         /\ s.run = r.run /\ s.recovery = r.recovery /\ (Active(s) <=> Active(r))
         /\ Active(r) => Plans(s)
<1> DEFINE s == RequestContinuation(r)
           asks == [r EXCEPT !.intent = r.goal.id]
           now == Owns(r) /\ ~Waits(r) /\ r.goal.id \notin {r.intent, r.delivery}
<1>1. (now /\ s = asks) \/ (~now /\ s = r)
  BY Zenon DEF RequestContinuation
<1>2. Active(r) => r.goal.id # 0 /\ Owns(r)
  BY DEF Good, Typed, WellKept, Active, Owns, Held
<1> SUFFICES /\ Goes(r, s) /\ s.goal = r.goal /\ s.queue = r.queue /\ s.delivery = r.delivery
             /\ s.run = r.run /\ s.recovery = r.recovery /\ (Active(s) <=> Active(r))
             /\ Active(r) => Plans(s)
  OBVIOUS
<1> HIDE DEF s
<1>3. CASE now /\ s = asks
  <2>1. /\ asks.goal = r.goal /\ asks.queue = r.queue /\ asks.delivery = r.delivery
        /\ asks.run = r.run /\ asks.recovery = r.recovery /\ asks.intent = r.goal.id
        /\ asks.alarm = r.alarm /\ asks.retry = r.retry /\ asks.due = r.due
    BY DEF Good, Typed
  <2> HIDE DEF asks
  <2>2. (Active(s) <=> Active(r)) /\ (Active(r) => Plans(s))
    BY <1>2, <1>3, <2>1 DEF Active, Plans
  <2>3. Carries(r, s)
    BY <1>3, <2>1, <2>2 DEF Carries, Sticks, Mailed, WellMarked, Queued, Prepared, Pending,
       Delivers, Live, Watched, Timely
  <2> QED
    BY <1>3, <2>1, <2>2, <2>3 DEF Goes, Keen
<1>4. CASE ~now /\ s = r
  <2>1. Active(r) => Plans(r)
    BY <1>2, <1>4 DEF Plans
  <2> QED
    BY <1>4, <2>1 DEF Goes, Carries, Sticks, Keen
<1> QED
  BY <1>1, <1>3, <1>4

-----------------------------------------------------------------------------
\* A message more.
LEMMA AppendGrows ==
  ASSUME NEW r, r.queue \in Seq(Mails), NEW s, NEW m \in Mails, s.queue = Append(r.queue, m),
         s.goal.id = r.goal.id /\ s.goal.status = r.goal.status /\ s.goal.waiting = r.goal.waiting,
         s.alarm = r.alarm /\ s.retry = r.retry /\ s.due = r.due,
         (m.kind = "cont") <=> (m.mark \in {"live", "cancelled"}),
         m.mark = "live" => m.id = r.goal.id
  PROVE  /\ Mailed(r) => Mailed(s)
         /\ Active(s) <=> Active(r)
         /\ (Prepared(r) => Prepared(s)) /\ (Pending(r) => Pending(s)) /\ (Live(r) => Live(s))
         /\ (Watched(r) => Watched(s)) /\ (Timely(r) => Timely(s))
         /\ m.mark = "live" => Live(s)
         /\ Queued(s) <=> (Queued(r) \/ m.at = "queued")
         /\ m.kind = "goal" /\ m.id = r.goal.id /\ m.at # "starting" => Pending(s)
         /\ m.at = "starting" /\ m.kind \notin {"goal", "cont"} => Prepared(s)
<1> DEFINE n == Len(r.queue) + 1
<1>1. /\ DOMAIN s.queue = DOMAIN r.queue \cup {n}
      /\ s.queue[n] = m /\ \A i \in DOMAIN r.queue : s.queue[i] = r.queue[i]
  BY AppendIs
<1> HIDE DEF n
<1>2. (Mailed(r) => Mailed(s)) /\ (Active(s) <=> Active(r))
  BY <1>1 DEF Mailed, WellMarked, Active
<1>3. (Prepared(r) => Prepared(s)) /\ (Pending(r) => Pending(s)) /\ (Live(r) => Live(s))
  BY <1>1 DEF Prepared, Pending, Live
<1>4. (Watched(r) => Watched(s)) /\ (Timely(r) => Timely(s))
  BY DEF Watched, Timely
<1>5. /\ m.mark = "live" => Live(s)
      /\ m.kind = "goal" /\ m.id = r.goal.id /\ m.at # "starting" => Pending(s)
      /\ m.at = "starting" /\ m.kind \notin {"goal", "cont"} => Prepared(s)
  BY <1>1 DEF Live, Pending, Prepared
<1>6. Queued(s) <=> (Queued(r) \/ m.at = "queued")
  BY <1>1 DEF Queued
<1> QED
  BY <1>2, <1>3, <1>4, <1>5, <1>6

LEMMA DispatchGoes ==
  ASSUME NEW r, Good(r), NEW way
  PROVE  LET d == Dispatch(r, way) IN
         /\ Goes(r, d)
         /\ Active(d) => d.goal = r.goal /\ (Plans(r) => Plans(d))
<1> DEFINE d == Dispatch(r, way)
           id == r.intent
           m == Continuation(id)
           q == Append(r.queue, m)
           sent == [r EXCEPT !.timer = FALSE, !.intent = 0, !.delivery = id, !.queue = q]
           failed == [r EXCEPT !.timer = FALSE]
           dropped == [r EXCEPT !.intent = 0]
<1>1. (~Owns(r) /\ d = CancelContinuation(r)) \/ d = r
      \/ (Owns(r) /\ (d = PauseForTools(r, TRUE) \/ d = SafetyPause(r, FALSE)))
      \/ (id # 0 /\ (id # r.goal.id \/ Waits(r)) /\ d = dropped) \/ d = failed
      \/ (Owns(r) /\ id # 0 /\ id = r.goal.id /\ d = sent)
  BY Zenon DEF Dispatch
<1> SUFFICES Goes(r, d) /\ (Active(d) => d.goal = r.goal /\ (Plans(r) => Plans(d)))
  OBVIOUS
<1> HIDE DEF d
<1>2. Typed(r) /\ Held(r) /\ Owned(r)
  BY DEF Good
<1>3. CASE ~Owns(r) /\ d = CancelContinuation(r)
  <2>1. Quieted(r, d) /\ d.goal = r.goal
    BY <1>2, <1>3, CancelQuiets
  <2>2. ~Active(d)
    BY <1>2, <1>3, <2>1 DEF Held, Owns, Active
  <2> QED
    BY <2>1, <2>2, QuietedGoes
<1>4. CASE d = r
  BY <1>4 DEF Goes, Carries, Sticks, Keen
<1>5. CASE Owns(r) /\ (d = PauseForTools(r, TRUE) \/ d = SafetyPause(r, FALSE))
  BY <1>2, <1>5, StopsQuiet DEF Owns, Active
<1>6. CASE id # 0 /\ (id # r.goal.id \/ Waits(r)) /\ d = dropped
  BY <1>2, <1>6 DEF Owned
<1>7. CASE d = failed
  <2>1. Alike(r, failed) /\ failed.goal = r.goal
    BY <1>2, AlikeFields DEF Typed
  <2> HIDE DEF failed
  <2> QED
    BY <1>7, <2>1, AlikeGoes DEF Goes, Keen
<1>8. CASE Owns(r) /\ id # 0 /\ id = r.goal.id /\ d = sent
  <2>1. m \in Mails /\ m.mark = "live" /\ m.kind = "cont" /\ m.id = r.goal.id /\ m.at = "sent"
    BY <1>2, <1>8 DEF Continuation, Message, Mails, Typed
  <2> HIDE DEF m
  <2>2. /\ sent.goal = r.goal /\ sent.queue = q /\ sent.delivery # 0
        /\ sent.run = r.run /\ sent.recovery = r.recovery
        /\ sent.alarm = r.alarm /\ sent.retry = r.retry /\ sent.due = r.due
    BY <1>2, <1>8 DEF Typed
  <2> HIDE DEF sent
  <2>3. r.queue \in Seq(Mails)
    BY <1>2 DEF Typed
  <2>4. /\ Mailed(r) => Mailed(sent)
        /\ Active(sent) <=> Active(r)
        /\ (Prepared(r) => Prepared(sent)) /\ (Pending(r) => Pending(sent)) /\ Live(sent)
        /\ (Watched(r) => Watched(sent)) /\ (Timely(r) => Timely(sent))
        /\ Queued(sent) <=> Queued(r)
    BY <2>1, <2>2, <2>3, AppendGrows
  <2>5. Carries(r, sent)
    BY <2>2, <2>4 DEF Carries, Sticks, Delivers
  <2>6. Plans(sent)
    BY <2>2 DEF Plans
  <2> QED
    BY <1>8, <2>2, <2>5, <2>6 DEF Goes, Keen
<1> QED
  BY <1>1, <1>3, <1>4, <1>5, <1>6, <1>7, <1>8

LEMMA DeadlineGoes ==
  ASSUME NEW r, Typed(r), Active(r), Held(r), NEW exhausted \in BOOLEAN
  PROVE  LET s == DeadlineFailed(r, exhausted) IN Goes(r, s) /\ Plans(s) /\ Watched(s)
<1> DEFINE a == RecordUsage(r)
           c == CancelContinuation(a)
           goal == [c.goal EXCEPT !.waiting = "timed"]
           retry == IF exhausted THEN "exhausted" ELSE "armed"
           alarm == ~exhausted
           t == [c EXCEPT !.goal = goal, !.due = FALSE, !.alarm = alarm, !.retry = retry]
           p == Persist(t)
<1>1. Typed(a) /\ Active(a) /\ a.queue = r.queue /\ a.run.id = r.run.id /\ a.goal.id = r.goal.id
  BY RecordGood, AlikeFields DEF Active, Alike
<1>2. DeadlineFailed(r, exhausted) = Persist([c EXCEPT
        !.goal.waiting = "timed", !.due = FALSE, !.alarm = ~exhausted,
        !.retry = IF exhausted THEN "exhausted" ELSE "armed"])
  BY DEF DeadlineFailed
<1> HIDE DEF a
<1>3. Typed(c) /\ Active(c) /\ Quieted(r, c) /\ c.goal.id = r.goal.id /\ c.delivery = 0
  BY <1>1, CancelCalms, CancelQuiets, CalmedIs, QuietedBy DEF Active
<1> HIDE DEF c
<1>4. DeadlineFailed(r, exhausted) = p
  BY <1>2, <1>3 DEF Typed
<1>5. /\ goal.waiting = "timed" /\ goal.id = r.goal.id
      /\ alarm \/ retry = "exhausted"
  BY <1>3, WaitingGoal DEF Typed, Active, Waitings
<1> HIDE DEF goal, retry, alarm
<1>6. /\ t.goal = goal /\ t.queue = c.queue /\ t.run = c.run /\ t.delivery = 0
      /\ t.alarm = alarm /\ t.retry = retry /\ DOMAIN t = DOMAIN c
  BY <1>3 DEF Typed
<1> HIDE DEF t
<1>7. /\ p.goal = goal /\ p.queue = c.queue /\ p.run = c.run /\ p.delivery = 0
      /\ p.alarm = alarm /\ p.retry = retry
  BY <1>3, <1>6 DEF Persist, Typed
<1> HIDE DEF p
<1>8. Plans(p) /\ Watched(p)
  BY <1>5, <1>7 DEF Plans, Waits, Watched
<1> QED
  BY <1>3, <1>4, <1>5, <1>7, <1>8, QuietedBy, QuietedGoes

LEMMA DueWaitGoes ==
  ASSUME NEW r, Good(r), Owns(r), NEW way
  PROVE  LET s == DispatchDueGoalWait(r, way) IN
         Goes(r, s) /\ (Active(s) => Plans(s) /\ Watched(s))
<1> DEFINE a == ClearGoalWait(r)
           b == RequestContinuation(a)
           tried == Dispatch(b, way)
           exhausted == r.retry = "armed"
           f == DeadlineFailed(tried, exhausted)
           s == DispatchDueGoalWait(r, way)
<1>1. Good(a) /\ Carries(r, a) /\ (Active(a) <=> Active(r)) /\ ~Waits(a)
  BY ClearWaitGood, ClearWaitFollows DEF Keeps
<1>2. s = IF Active(tried) /\ tried.intent = r.goal.id THEN f ELSE tried
  BY DEF DispatchDueGoalWait
<1> SUFFICES Goes(r, s) /\ (Active(s) => Plans(s) /\ Watched(s))
  OBVIOUS
<1> HIDE DEF a, s
<1>3. Good(b) /\ Goes(a, b) /\ b.goal = a.goal /\ Active(b) /\ Plans(b)
  BY <1>1, RequestGood, RequestGoes DEF Keeps, Owns
<1> HIDE DEF b
<1>4. Good(tried) /\ Goes(b, tried) /\ (Active(tried) => tried.goal = b.goal /\ Plans(tried))
  BY <1>3, DispatchGood, DispatchGoes DEF Keeps
<1> HIDE DEF tried
<1>5. Active(tried) => Plans(tried) /\ Watched(tried)
  BY <1>1, <1>3, <1>4 DEF Watched, Waits
<1>6. Carries(r, tried)
  BY <1>1, <1>3, <1>4, GoesCompose
<1>7. Active(tried) => Goes(tried, f) /\ Plans(f) /\ Watched(f)
  <2>1. exhausted \in BOOLEAN
    OBVIOUS
  <2> HIDE DEF exhausted
  <2> QED
    BY <1>4, <2>1, DeadlineGoes DEF Good
<1> HIDE DEF f
<1>8. Carries(r, s) /\ (Active(s) => Plans(s) /\ Watched(s))
  BY <1>2, <1>5, <1>6, <1>7, GoesCompose
<1> QED
  BY <1>8 DEF Goes, Keen

LEMMA FinalizeGoes ==
  ASSUME NEW r, Good(r)
  PROVE  LET f == FinalizeSettledRecovery(r) IN
         Goes(r, f) /\ (Active(f) => ~Recovers(f))
<1> DEFINE s == [r EXCEPT !.recovery = NoRecovery]
           f == FinalizeSettledRecovery(r)
<1>1. \/ (r.recovery = NoRecovery \/ ~Owns(r)) /\ f = s
      \/ Owns(r) /\ (f = EnterGoalWait(s, "open") \/ f = Stop(s, "blocked", {}))
  BY Zenon DEF FinalizeSettledRecovery
<1> SUFFICES Goes(r, f) /\ (Active(f) => ~Recovers(f))
  OBVIOUS
<1> HIDE DEF f
<1>2. /\ Typed(s) /\ s.goal = r.goal /\ s.owner = r.owner /\ s.intent = r.intent
      /\ s.delivery = r.delivery /\ s.queue = r.queue /\ s.run = r.run /\ s.alarm = r.alarm
      /\ s.retry = r.retry /\ s.due = r.due /\ s.recovery = NoRecovery
  BY TypedValues DEF Good, Typed
<1> HIDE DEF s
<1>3. Carries(r, s) /\ (Active(s) <=> Active(r)) /\ (Waits(s) <=> Waits(r))
  BY <1>2 DEF Carries, Sticks, Active, Waits, Mailed, WellMarked, Queued, Prepared, Pending, Delivers,
     Live, Watched, Timely
<1>4. CASE (r.recovery = NoRecovery \/ ~Owns(r)) /\ f = s
  <2>1. Active(r) => r.recovery = NoRecovery
    BY <1>4 DEF Good, Held, Owns
  <2>2. Keen(r, s)
    BY <1>2, <1>3, <2>1 DEF Keen, Plans, Recovers
  <2> QED
    BY <1>2, <1>3, <1>4, <2>2 DEF Goes, Recovers
<1>5. CASE Owns(r) /\ (f = EnterGoalWait(s, "open") \/ f = Stop(s, "blocked", {}))
  <2>1. Active(s) /\ Held(s) /\ s.goal.status # "none"
    BY <1>2, <1>5 DEF Owns, Active, Held
  <2>2. "open" \in Waitings /\ "open" # "no" /\ "blocked" \in Statuses \ {"none", "active"}
    BY DEF Waitings, Statuses
  <2>3. CASE f = EnterGoalWait(s, "open")
    <3>1. Goes(s, f) /\ Plans(f) /\ ~Recovers(f)
      BY <1>2, <2>1, <2>2, <2>3, EnterWaitGoes
    <3> QED
      BY <1>3, <3>1, GoesCompose DEF Goes, Keen
  <2>4. CASE f = Stop(s, "blocked", {})
    <3>1. Goes(s, f) /\ ~Active(f)
      BY <1>2, <2>1, <2>2, <2>4, StopQuiets
    <3> QED
      BY <1>3, <3>1, GoesCompose DEF Goes, Keen
  <2> QED
    BY <1>5, <2>3, <2>4
<1> QED
  BY <1>1, <1>4, <1>5

-----------------------------------------------------------------------------
\* A message less.
LEMMA RemoveKeeps ==
  ASSUME NEW q \in Seq(Mails), NEW i \in DOMAIN q, NEW k \in DOMAIN q, k # i
  PROVE  \E j \in DOMAIN RemoveAt(q, i) : RemoveAt(q, i)[j] = q[k]
<1> DEFINE n == Len(q)
           a == SubSeq(q, 1, i - 1)
           b == SubSeq(q, i + 1, n)
           d == a \o b
           j == IF k < i THEN k ELSE k - 1
<1>1. n \in Nat /\ i \in 1 .. n /\ k \in 1 .. n /\ DOMAIN q = 1 .. n /\ \A x \in 1 .. n : q[x] \in Mails
  OBVIOUS
<1>2. /\ a \in Seq(Mails) /\ Len(a) = i - 1 /\ \A x \in 1 .. i - 1 : a[x] = q[x]
  BY <1>1
<1>3. /\ b \in Seq(Mails) /\ Len(b) = n - i /\ \A x \in 1 .. n - i : b[x] = q[i + x]
  <2>1. i + 1 \in Int /\ n \in Int /\ n - (i + 1) + 1 = n - i
    BY <1>1
  <2>2. b \in Seq(Mails) /\ Len(b) = n - i
    BY <1>1, <2>1
  <2>3. ASSUME NEW x \in 1 .. n - i PROVE b[x] = q[i + x]
    <3>1. x \in 1 .. Len(b) /\ (i + 1) + x - 1 = i + x
      BY <1>1, <2>2
    <3> QED
      BY <1>1, <3>1
  <2> QED
    BY <2>2, <2>3
<1>4. j \in 1 .. n - 1 /\ (k < i => j \in 1 .. i - 1) /\ (~(k < i) => ~(j <= i - 1) /\ j - (i - 1) \in 1 .. n - i)
  BY <1>1
<1> HIDE DEF a, b
<1>5. Len(a) + Len(b) = n - 1
  BY <1>1, <1>2, <1>3
<1>6. DOMAIN d = 1 .. n - 1
  BY <1>2, <1>3, <1>5
<1>7. d[j] = IF j <= Len(a) THEN a[j] ELSE b[j - Len(a)]
  <2>1. j \in 1 .. Len(a) + Len(b)
    BY <1>4, <1>5
  <2>2. a \in Seq(Mails) /\ b \in Seq(Mails)
    BY <1>2, <1>3
  <2> HIDE DEF j
  <2> QED
    BY <2>1, <2>2
<1>8. d[j] = q[k]
  <2>1. CASE k < i
    BY <1>1, <1>2, <1>4, <1>7, <2>1
  <2>2. CASE ~(k < i)
    <3>1. d[j] = b[j - (i - 1)]
      BY <1>1, <1>2, <1>4, <1>7, <2>2
    <3>2. b[j - (i - 1)] = q[i + (j - (i - 1))] /\ i + (j - (i - 1)) = k
      BY <1>1, <1>3, <1>4, <2>2
    <3> QED
      BY <3>1, <3>2
  <2> QED
    BY <2>1, <2>2
<1> HIDE DEF d, j
<1>9. \E x \in DOMAIN d : d[x] = q[k]
  BY <1>4, <1>6, <1>8
<1> QED
  BY <1>9 DEF RemoveAt, a, b, d, n

LEMMA DequeueLeaves ==
  ASSUME NEW r, Good(r), NEW i \in DOMAIN r.queue
  PROVE  LET s == Dequeue(r, i)
             m == r.queue[i]
         IN  /\ s.goal = r.goal /\ s.run = r.run /\ s.recovery = r.recovery /\ s.owner = r.owner
             /\ s.intent = r.intent /\ s.delivery = r.delivery
             /\ s.alarm = r.alarm /\ s.retry = r.retry /\ s.due = r.due
             /\ (Mailed(r) => Mailed(s)) /\ (Queued(s) => Queued(r))
             /\ (Queued(r) => Queued(s) \/ m.at = "queued")
             /\ Live(r) => Live(s) \/ m.mark = "live"
             /\ Pending(r) => Pending(s)
                  \/ (m.kind = "goal" /\ m.id = r.goal.id /\ m.at # "starting")
             /\ Prepared(r) => Prepared(s)
                  \/ (m.at = "starting" /\ (m.kind \in {"goal", "cont"} => m.id = r.goal.id))
<1> DEFINE q == RemoveAt(r.queue, i)
           s == [r EXCEPT !.queue = q]
           m == r.queue[i]
<1>1. r.queue \in Seq(Mails)
  BY DEF Good, Typed
<1>2. \A j \in DOMAIN q : \E k \in DOMAIN r.queue : q[j] = r.queue[k]
  BY <1>1, RemoveIs
<1>3. \A k \in DOMAIN r.queue : k = i \/ \E j \in DOMAIN q : q[j] = r.queue[k]
  BY <1>1, RemoveKeeps
<1>4. Dequeue(r, i) = s
  BY DEF Dequeue
<1> HIDE DEF q
<1>5. /\ s.goal = r.goal /\ s.run = r.run /\ s.recovery = r.recovery /\ s.owner = r.owner
      /\ s.intent = r.intent /\ s.delivery = r.delivery
      /\ s.alarm = r.alarm /\ s.retry = r.retry /\ s.due = r.due /\ s.queue = q
  BY DEF Good, Typed
<1> HIDE DEF s
<1>6. (Mailed(r) => Mailed(s)) /\ (Queued(s) => Queued(r))
  <2>1. Mailed(r) => WellMarked(s)
    <3> SUFFICES ASSUME Mailed(r), NEW j \in DOMAIN q
                 PROVE  (q[j].kind = "cont") <=> (q[j].mark \in {"live", "cancelled"})
      BY <1>5 DEF WellMarked
    <3> QED
      BY <1>2 DEF Mailed, WellMarked
  <2>2. Mailed(r) => \A j \in DOMAIN q : q[j].mark = "live" => q[j].id = r.goal.id
    BY <1>2 DEF Mailed
  <2>3. Queued(s) => Queued(r)
    BY <1>2, <1>5 DEF Queued
  <2> QED
    BY <1>5, <2>1, <2>2, <2>3 DEF Mailed
<1>7. Queued(r) => Queued(s) \/ m.at = "queued"
  BY <1>3, <1>5 DEF Queued
<1>8. Live(r) => Live(s) \/ m.mark = "live"
  BY <1>3, <1>5 DEF Live
<1>9. Pending(r) => Pending(s) \/ (m.kind = "goal" /\ m.id = r.goal.id /\ m.at # "starting")
  BY <1>3, <1>5 DEF Pending
<1>10. Prepared(r) => Prepared(s)
          \/ (m.at = "starting" /\ (m.kind \in {"goal", "cont"} => m.id = r.goal.id))
  <2> SUFFICES ASSUME NEW k \in DOMAIN r.queue, r.queue[k].at = "starting",
                      r.queue[k].kind \in {"goal", "cont"} => r.queue[k].id = r.goal.id, k # i
               PROVE  Prepared(s)
    BY DEF Prepared
  <2>1. PICK j \in DOMAIN q : q[j] = r.queue[k]
    BY <1>3
  <2> QED
    BY <1>5, <2>1 DEF Prepared
<1> QED
  BY <1>4, <1>5, <1>6, <1>7, <1>8, <1>9, <1>10

-----------------------------------------------------------------------------
\* Runs that begin: s is r but for the run and what has been requested; and the run
\* of a goal that is active stays its run.
Akin(r, s) ==
    /\ s.goal.id = r.goal.id /\ s.goal.status = r.goal.status /\ s.goal.waiting = r.goal.waiting
    /\ s.delivery = r.delivery /\ s.queue = r.queue
    /\ s.alarm = r.alarm /\ s.retry = r.retry /\ s.due = r.due
Begins(r, s) == Sticks(r, s) /\ (Active(s) /\ Stays(r) => Stays(s))

LEMMA AkinSticks ==
  ASSUME NEW r, NEW s, Akin(r, s)
  PROVE  Sticks(r, s) /\ (Active(s) <=> Active(r))
<1>1. Active(s) <=> Active(r)
  BY DEF Akin, Active
<1>2. (Mailed(r) => Mailed(s)) /\ (Queued(s) <=> Queued(r)) /\ (Delivers(r) => Delivers(s))
  BY DEF Akin, Mailed, WellMarked, Queued, Delivers, Live
<1>3. (Prepared(r) => Prepared(s)) /\ (Pending(r) => Pending(s))
  BY DEF Akin, Prepared, Pending
<1>4. (Watched(r) => Watched(s)) /\ (Timely(r) => Timely(s))
  BY DEF Akin, Watched, Timely
<1> QED
  BY <1>1, <1>2, <1>3, <1>4 DEF Sticks, Akin

LEMMA BeginsComposes ==
  ASSUME NEW r, NEW s, NEW t
  PROVE  /\ Begins(r, s) /\ Begins(s, t) => Begins(r, t)
         /\ Alike(r, s) => Begins(r, s) /\ Akin(r, s)
         /\ Akin(r, s) /\ Akin(s, t) => Akin(r, t)
         /\ Carries(r, s) => Begins(r, s)
         /\ Akin(r, s) /\ Stays(s) => Begins(r, s)
         /\ Begins(r, s) => Sticks(r, s)
<1>1. Begins(r, s) /\ Begins(s, t) => Begins(r, t)
  BY GoesCompose DEF Begins, Sticks
<1>2. Alike(r, s) => Akin(r, s)
  BY DEF Alike, Akin
<1>3. Carries(r, s) => Begins(r, s)
  BY DEF Carries, Begins, Sticks, Stays
<1>4. Akin(r, s) /\ Stays(s) => Begins(r, s)
  BY AkinSticks DEF Begins
<1>5. Alike(r, s) => Begins(r, s)
  BY <1>3, AlikeGoes, GoesCompose
<1>6. Akin(r, s) /\ Akin(s, t) => Akin(r, t)
  BY DEF Akin
<1> QED
  BY <1>1, <1>2, <1>3, <1>4, <1>5, <1>6 DEF Begins

LEMMA BeginRunBegins ==
  ASSUME NEW r, Typed(r), NEW id, NEW auto
  PROVE  LET s == BeginRun(r, id, auto) IN
         /\ Akin(r, s) /\ s.run.id = id /\ s.recovery = r.recovery /\ s.intent = r.intent
         /\ s.goal = r.goal /\ s.owner = r.owner
BY DEF BeginRun, Akin, Typed

LEMMA GoalPromptBegins ==
  ASSUME NEW r, Good(r), NEW m \in Mails
  PROVE  LET s == StartGoalPrompt(r, m) IN
         Begins(r, s) /\ (m.id = r.goal.id /\ Active(r) => Stays(s))
<1> DEFINE spent == r.goal.spent
           off == [r EXCEPT !.exhausted = spent]
           rebased == IF r.run.id \in {Unowned, m.id} THEN r ELSE off
           run == BeginRun(rebased, m.id, FALSE)
           goal == IF m.reset THEN Fresh(run.goal) ELSE run.goal
           s == [run EXCEPT !.goal = goal]
           p == Persist(s)
<1>1. \/ (m.id # r.goal.id \/ ~Owns(r)) /\ StartGoalPrompt(r, m) = r
      \/ m.id = r.goal.id /\ Owns(r) /\ StartGoalPrompt(r, m) = p
  BY Zenon DEF StartGoalPrompt
<1>0. Active(r) => Owns(r)
  BY DEF Good, Held, Owns
<1>2. Typed(rebased) /\ Alike(r, rebased)
  <2>1. spent \in BOOLEAN
    BY DEF Good, Typed, WellKept, Goals
  <2> HIDE DEF spent
  <2>2. Typed(off) /\ Alike(r, off)
    BY <2>1, AlikeFields DEF Good, Typed
  <2> HIDE DEF off
  <2> QED
    BY <2>2, AlikeFields DEF Good
<1> HIDE DEF rebased
<1>3. Typed(run) /\ Akin(rebased, run) /\ run.run.id = m.id /\ run.goal = rebased.goal
  <2>1. m.id \in 0 .. Foreign
    BY GoalRunAssumption DEF Mails, Foreign
  <2>2. Aside(rebased, run)
    BY <1>2, <2>1, AsideFields
  <2>3. Akin(rebased, run) /\ run.run.id = m.id /\ run.goal = rebased.goal
    BY <1>2 DEF BeginRun, Akin, Typed
  <2> QED
    BY <2>2, <2>3 DEF Aside
<1> HIDE DEF run
<1>4. goal.id = run.goal.id /\ goal.status = run.goal.status /\ goal.waiting = run.goal.waiting
  BY <1>3, FreshKeeps DEF Typed
<1> HIDE DEF goal
<1>5. /\ s.goal = goal /\ s.queue = run.queue /\ s.delivery = run.delivery /\ s.run = run.run
      /\ s.alarm = run.alarm /\ s.retry = run.retry /\ s.due = run.due
      /\ DOMAIN s = DOMAIN run
  BY <1>3 DEF Typed
<1> HIDE DEF s
<1>6. /\ p.goal = goal /\ p.queue = run.queue /\ p.delivery = run.delivery /\ p.run = run.run
      /\ p.alarm = run.alarm /\ p.retry = run.retry /\ p.due = run.due
  BY <1>3, <1>5 DEF Persist, Typed
<1> HIDE DEF p
<1>7. Akin(run, p)
  BY <1>4, <1>6 DEF Akin
<1>8. Akin(r, p)
  BY <1>2, <1>3, <1>7, BeginsComposes
<1>9. m.id = r.goal.id => Stays(p)
  BY <1>3, <1>6, <1>8 DEF Stays, Akin
<1>10. StartGoalPrompt(r, m) = r => Begins(r, StartGoalPrompt(r, m))
  BY AlikeFields, BeginsComposes DEF Good
<1> QED
  BY <1>0, <1>1, <1>8, <1>9, <1>10, BeginsComposes

-----------------------------------------------------------------------------
LEMMA CancelFollows ==
  ASSUME NEW r, Typed(r)
  PROVE  LET c == CancelContinuation(r) IN Carries(r, c) /\ c.goal = r.goal /\ Delivers(c)
<1> DEFINE c == CancelContinuation(r)
<1>1. /\ Quieted(r, c) /\ c.goal = r.goal /\ c.alarm = r.alarm /\ c.retry = r.retry
      /\ c.due = r.due /\ c.delivery = 0 /\ c.run = r.run
  BY CancelQuiets
<1> HIDE DEF c
<1>2. (Active(c) <=> Active(r)) /\ (Watched(r) => Watched(c)) /\ (Timely(r) => Timely(c))
  BY <1>1 DEF Active, Watched, Timely
<1>3. (Prepared(r) => Prepared(c)) /\ (Pending(r) => Pending(c))
  BY <1>1 DEF Quieted, Marked, Prepared, Pending
<1>4. (Mailed(r) => Mailed(c)) /\ (Queued(c) <=> Queued(r)) /\ Delivers(c)
  BY <1>1 DEF Quieted, Marked, Mailed, WellMarked, Queued, Delivers
<1>5. Carries(r, c)
  BY <1>1, <1>2, <1>3, <1>4 DEF Carries, Sticks
<1> QED
  BY <1>1, <1>4, <1>5 DEF c

LEMMA ResetAlike ==
  ASSUME NEW r, Typed(r)
  PROVE  Alike(r, ResetEpoch(r))
<1> DEFINE goal == Fresh(r.goal)
           run == [r.run EXCEPT !.auto = FALSE]
           s == [r EXCEPT !.goal = goal, !.run = run]
           p == Persist(s)
<1>1. CASE Active(r)
  <2>1. goal.id = r.goal.id /\ goal.status = r.goal.status /\ goal.waiting = r.goal.waiting
    BY FreshKeeps DEF Typed
  <2>2. run.id = r.run.id
    BY DEF Typed, Runs
  <2>3. ResetEpoch(r) = p
    BY <1>1 DEF ResetEpoch, Typed
  <2> HIDE DEF goal, run
  <2>4. /\ s.goal = goal /\ s.run = run /\ s.queue = r.queue /\ s.intent = r.intent
        /\ s.delivery = r.delivery /\ s.recovery = r.recovery
        /\ s.alarm = r.alarm /\ s.retry = r.retry /\ s.due = r.due /\ DOMAIN s = DOMAIN r
    BY DEF Typed
  <2> HIDE DEF s
  <2>5. Alike(s, p)
    BY <2>4 DEF Alike, Persist, Typed
  <2>6. Alike(r, s)
    BY <2>1, <2>2, <2>4 DEF Alike
  <2> QED
    BY <2>3, <2>5, <2>6, AlikeComposes
<1>2. CASE ~Active(r)
  BY <1>2, AlikeFields DEF ResetEpoch
<1> QED
  BY <1>1, <1>2

LEMMA FollowUpBegins ==
  ASSUME NEW r, Good(r), NEW resets
  PROVE  LET s == FollowUp(r, resets) IN Begins(r, s) /\ Akin(r, s) /\ Stays(s)
<1> DEFINE calm == [r EXCEPT !.recovery = NoRecovery, !.stale = FALSE]
           id == IF Active(r) THEN r.goal.id ELSE Foreign
           run == BeginRun(calm, id, FALSE)
           reset == ResetEpoch(run)
           s == FollowUp(r, resets)
<1>1. s = run \/ s = reset
  BY Zenon DEF FollowUp
<1> SUFFICES Begins(r, s) /\ Akin(r, s) /\ Stays(s)
  OBVIOUS
<1> HIDE DEF s
<1>2. Akin(r, calm) /\ Typed(calm)
  BY TypedValues DEF Akin, Good, Typed
<1> HIDE DEF calm
<1>3. id \in {r.goal.id, Foreign} /\ id \in 0 .. Foreign
  <2>1. r.goal.id \in 0 .. MaxGoals
    BY DEF Good, Typed, WellKept, Goals
  <2>2. MaxGoals \in Nat /\ Foreign = MaxGoals + 1
    BY GoalRunAssumption DEF Foreign
  <2> QED
    BY <2>1, <2>2
<1> HIDE DEF id
<1>4. Akin(calm, run) /\ run.run.id = id
  BY <1>2 DEF BeginRun, Akin, Typed
<1>5. Typed(run)
  BY <1>2, <1>3, AsideFields DEF Aside
<1> HIDE DEF run
<1>6. Alike(run, reset)
  BY <1>5, ResetAlike
<1> HIDE DEF reset
<1>7. Akin(r, run) /\ Stays(run)
  <2>1. Akin(r, run)
    BY <1>2, <1>4, BeginsComposes
  <2> QED
    BY <1>3, <1>4, <2>1 DEF Stays, Akin
<1>8. Akin(r, reset) /\ Stays(reset)
  <2>1. Stays(reset)
    BY <1>6, <1>7, AlikeGoes
  <2> QED
    BY <1>6, <1>7, <2>1, BeginsComposes
<1> QED
  BY <1>1, <1>7, <1>8, BeginsComposes

LEMMA UserMessageBegins ==
  ASSUME NEW r, Good(r), NEW m
  PROVE  Begins(r, StartUserMessage(r, m))
<1> DEFINE i == TakenInput(r, m.kind, m.mark # "live")
           taken == [r EXCEPT !.inputs = RemoveAt(@, i)]
           resets == r.inputs[i] = "follow"
           s == StartUserMessage(r, m)
<1>1. s = r \/ (i # 0 /\ (s = taken \/ s = FollowUp(taken, resets)))
  BY Zenon DEF StartUserMessage
<1> SUFFICES Begins(r, s)
  OBVIOUS
<1> HIDE DEF s
<1>2. i # 0 => ~Rests(r)
  BY NoInput
<1> HIDE DEF i, resets
<1>3. i # 0 => Aside(r, taken)
  BY <1>2 DEF Aside, Good, Typed
<1>4. Alike(r, taken)
  BY DEF Good, Typed, Alike
<1> HIDE DEF taken
<1>5. i # 0 => Begins(taken, FollowUp(taken, resets))
  BY <1>3, AsideKeeps, FollowUpBegins DEF Keeps
<1>6. Begins(r, taken) /\ Begins(r, r)
  BY <1>4, BeginsComposes, AlikeFields DEF Good
<1> QED
  BY <1>1, <1>5, <1>6, BeginsComposes

LEMMA CustomBegins ==
  ASSUME NEW r, Good(r)
  PROVE  LET s == StartCustomMessage(r) IN Begins(r, s) /\ Stays(s)
<1> DEFINE c == ClearGoalWait(r)
           guard == IF c.guard = r.goal.id THEN 0 ELSE c.guard
           g == [c EXCEPT !.guard = guard]
           s == StartCustomMessage(r)
<1>1. Keeps(r, c) /\ Carries(r, c)
  BY ClearWaitGood, ClearWaitFollows
<1>2. s = FollowUp(g, FALSE)
  BY DEF StartCustomMessage
<1> HIDE DEF c
<1>3. guard \in 0 .. MaxGoals /\ guard \in {0, c.guard}
  BY <1>1, GoalRunAssumption DEF Keeps, Good, Typed
<1> HIDE DEF guard
<1>4. Aside(c, g) /\ Alike(c, g)
  BY <1>1, <1>3 DEF Aside, Keeps, Good, Typed, Rests, Alike
<1> HIDE DEF g
<1>5. Good(g)
  BY <1>1, <1>4, AsideKeeps DEF Keeps
<1>6. Begins(g, FollowUp(g, FALSE)) /\ Stays(FollowUp(g, FALSE))
  BY <1>5, FollowUpBegins
<1>7. Begins(r, g)
  BY <1>1, <1>4, BeginsComposes
<1> QED
  BY <1>2, <1>6, <1>7, BeginsComposes

LEMMA MessageBegins ==
  ASSUME NEW r, Good(r), NEW m \in Mails
  PROVE  LET s == MessageStart(r, m) IN
         Begins(r, s) /\ (m.kind = "goal" /\ m.id = r.goal.id /\ Active(r) => Stays(s))
BY GoalPromptBegins, UserMessageBegins, CustomBegins DEF MessageStart

LEMMA AgentStartBegins ==
  ASSUME NEW r, Good(r)
  PROVE  LET a == AgentStart(r) IN
         /\ Begins(r, a) /\ Akin(r, a)
         /\ r.run.id = Unowned => Stays(a)
<1> DEFINE i == FirstInput(r, {"follow", "ext"})
           taken == [r EXCEPT !.inputs = RemoveAt(@, i), !.guard = 0, !.stale = FALSE]
           id == r.goal.id
           auto == r.recovery.auto
           other == BeginRun(taken, Foreign, FALSE)
           own == BeginRun(r, id, auto)
           a == AgentStart(r)
<1>1. a = r \/ a = other \/ a = own
  BY Zenon DEF AgentStart
<1> SUFFICES Begins(r, a) /\ Akin(r, a) /\ (r.run.id = Unowned => Stays(a))
  OBVIOUS
<1> HIDE DEF a
<1>2. CASE a = r
  <2>1. r.run.id = Unowned => Stays(r)
    BY DEF Stays
  <2> QED
    BY <1>2, <2>1, AlikeFields, BeginsComposes DEF Good
<1>3. CASE a = other
  <2>1. Akin(r, other) /\ other.run.id = Foreign
    BY DEF BeginRun, Akin, Good, Typed
  <2> HIDE DEF other
  <2> QED
    BY <1>3, <2>1, BeginsComposes DEF Stays
<1>4. CASE a = own
  <2>1. Akin(r, own) /\ own.run.id = r.goal.id
    BY BeginRunBegins DEF Good
  <2> HIDE DEF own
  <2> QED
    BY <1>4, <2>1, BeginsComposes DEF Stays, Akin
<1> QED
  BY <1>1, <1>2, <1>3, <1>4

-----------------------------------------------------------------------------
\* A prompt that has been taken from the queue begins a run of its goal.
LEMMA BeforeSticks ==
  ASSUME NEW r, Good(r), NEW m, m.mark = "live" => m.kind = "cont"
  PROVE  LET b == Before(r, m).run IN Sticks(r, b) /\ (m.mark = "live" => Delivers(b))
<1> DEFINE clear == [r EXCEPT !.run = NoRun, !.guard = 0]
           recovers == r.recovery # NoRecovery /\ r.recovery.auto
           claimed == [clear EXCEPT !.delivery = 0]
           calm == CancelContinuation(clear)
           cleared == ClearGoalWait(calm)
           b == Before(r, m)
<1>1. \/ m.mark # "live" /\ b.run = clear
      \/ m.mark = "live" /\ b.run = claimed
      \/ m.mark # "live" /\ b.run = cleared
  <2> DEFINE after == IF m.mark = "live" THEN claimed ELSE clear
  <2>1. m.kind = "goal" => b = [run |-> clear, auto |-> recovers]
    BY Zenon DEF Before
  <2>2. m.kind = "cont" => b = [run |-> after, auto |-> TRUE]
    BY Zenon DEF Before
  <2>3. m.kind \notin {"goal", "cont"} => b = [run |-> cleared, auto |-> recovers]
    BY Zenon DEF Before
  <2>4. \A x, y : [run |-> x, auto |-> y].run = x
    OBVIOUS
  <2> HIDE DEF b, clear, claimed, cleared, recovers, after
  <2>5. /\ m.kind = "goal" => b.run = clear
        /\ m.kind = "cont" => b.run = after
        /\ m.kind \notin {"goal", "cont"} => b.run = cleared
    BY <2>1, <2>2, <2>3, <2>4, Zenon
  <2>6. /\ m.mark = "live" => after = claimed
        /\ m.mark # "live" => after = clear
    BY DEF after
  <2> QED
    BY <2>5, <2>6
<1> SUFFICES Sticks(r, b.run) /\ (m.mark = "live" => Delivers(b.run))
  OBVIOUS
<1> HIDE DEF b, recovers
<1>2. Good(clear) /\ Akin(r, clear)
  <2>1. NoRun \in Runs /\ 0 \in 0 .. MaxGoals
    BY TypedValues, GoalRunAssumption
  <2>2. Aside(r, clear) /\ Akin(r, clear)
    BY <2>1 DEF Aside, Good, Typed, Rests, Akin
  <2> HIDE DEF clear
  <2> QED
    BY <2>2, AsideKeeps DEF Keeps
<1> HIDE DEF clear
<1>3. Sticks(r, clear)
  BY <1>2, AkinSticks
<1>4. Sticks(clear, claimed) /\ Delivers(claimed)
  <2>1. /\ claimed.goal = clear.goal /\ claimed.queue = clear.queue /\ claimed.delivery = 0
        /\ claimed.alarm = clear.alarm /\ claimed.retry = clear.retry /\ claimed.due = clear.due
    BY <1>2 DEF Good, Typed
  <2> HIDE DEF claimed
  <2> QED
    BY <2>1 DEF Sticks, Active, Mailed, WellMarked, Queued, Prepared, Pending, Delivers,
       Watched, Timely
<1> HIDE DEF claimed
<1>5. Sticks(clear, cleared)
  <2>1. Carries(clear, calm) /\ Good(calm)
    BY <1>2, CancelFollows, CancelCalms, CalmedIs DEF Keeps, Good
  <2> HIDE DEF calm
  <2>2. Carries(calm, cleared)
    BY <2>1, ClearWaitFollows
  <2> HIDE DEF cleared
  <2> QED
    BY <2>1, <2>2, GoesCompose
<1> HIDE DEF calm, cleared
<1>6. Sticks(r, claimed) /\ Sticks(r, cleared)
  BY <1>3, <1>4, <1>5, GoesCompose
<1> QED
  BY <1>1, <1>3, <1>4, <1>6

LEMMA AgentStartsBegin ==
  ASSUME NEW r, Good(r), NEW m \in Mails,
         m.mark = "live" => \A i \in DOMAIN r.queue : r.queue[i].mark # "live",
         m.mark = "live" => m.kind = "cont"
  PROVE  LET a == AgentStarts(r, m) IN
         /\ Sticks(r, a)
         /\ Active(a) => /\ m.mark = "live" => Delivers(a)
                         /\ (m.kind \in {"goal", "cont"} => m.id = r.goal.id) => Stays(a)
<1> DEFINE before == Before(r, m)
           b == before.run
           auto == before.auto
           id == r.goal.id
           stale == BeginRun(b, m.id, auto)
           run == BeginRun(b, id, auto)
           owned == m.kind \in {"goal", "cont"}
           inner == IF Active(stale) /\ ~tools THEN PauseForTools(stale, FALSE) ELSE stale
           goal == Fresh(run.goal)
           s == [run EXCEPT !.goal = goal]
           aborted == Abort(inner)
           paused == PauseForTools(run, owned)
           p == Persist(s)
           a == AgentStarts(r, m)
           foreign == owned /\ m.id # r.goal.id
<1>1. \/ foreign /\ a = aborted
      \/ ~foreign /\ ~Owns(b) /\ a = b
      \/ ~foreign /\ Owns(b) /\ (a = paused \/ a = p \/ a = run)
  BY Zenon DEF AgentStarts
<1> SUFFICES /\ Sticks(r, a)
             /\ Active(a) => /\ m.mark = "live" => Delivers(a)
                             /\ ~foreign => Stays(a)
  OBVIOUS
<1> HIDE DEF a
<1>2. Good(b) /\ Sticks(r, b) /\ (m.mark = "live" => Delivers(b)) /\ auto \in BOOLEAN
  BY BeforeGood, BeforeSticks DEF Keeps
<1> HIDE DEF before, b, auto
<1>3. m.id \in 0 .. Foreign /\ id \in 0 .. Foreign /\ owned \in BOOLEAN
  <2>1. m.id \in 0 .. MaxGoals /\ id \in 0 .. MaxGoals
    BY DEF Good, Typed, WellKept, Goals, Mails
  <2>2. MaxGoals \in Nat
    BY GoalRunAssumption
  <2> HIDE DEF id
  <2> QED
    BY <2>1, <2>2 DEF Foreign
<1>4. /\ Typed(stale) /\ Akin(b, stale) /\ Typed(run) /\ Akin(b, run)
      /\ run.run.id = id /\ run.goal = b.goal
  <2>1. Aside(b, stale) /\ Aside(b, run)
    BY <1>2, <1>3, AsideFields DEF Good
  <2>2. Akin(b, stale) /\ Akin(b, run) /\ run.run.id = id /\ run.goal = b.goal
    BY <1>2, BeginRunBegins DEF Good
  <2> HIDE DEF stale, run
  <2> QED
    BY <2>1, <2>2 DEF Aside
<1> HIDE DEF stale, run, owned, foreign
<1>5. Sticks(b, stale) /\ Sticks(b, run) /\ (Active(run) => Stays(run))
  <2>1. Sticks(b, stale) /\ Sticks(b, run)
    BY <1>4, AkinSticks
  <2>2. Sticks(r, run)
    BY <1>2, <2>1, GoesCompose
  <2> QED
    BY <1>4, <2>1, <2>2 DEF Stays, Sticks
<1> HIDE DEF id
<1>6. Sticks(b, aborted)
  <2>1. Active(stale) => Goes(stale, PauseForTools(stale, FALSE)) /\ Typed(PauseForTools(stale, FALSE))
    BY <1>4, StopsQuiet, StopsGood DEF Active, Keeps, Good
  <2>2. Sticks(stale, inner) /\ Typed(inner)
    <3>1. inner = stale \/ (Active(stale) /\ inner = PauseForTools(stale, FALSE))
      BY Zenon
    <3>2. Sticks(stale, stale)
      BY DEF Sticks
    <3>3. Active(stale) => Sticks(stale, PauseForTools(stale, FALSE))
      BY <2>1, GoesCompose
    <3> HIDE DEF inner
    <3> QED
      BY <1>4, <2>1, <3>1, <3>2, <3>3, Zenon
  <2> HIDE DEF inner
  <2>3. Sticks(inner, aborted)
    BY <2>2, AlikeFields, AlikeGoes, GoesCompose
  <2> HIDE DEF aborted
  <2> QED
    BY <1>5, <2>2, <2>3, GoesCompose
<1> HIDE DEF aborted, inner
<1>7. Owns(b) => Sticks(b, paused) /\ ~Active(paused)
  <2>1. Owns(b) => run.goal.status # "none"
    BY <1>4 DEF Owns, Active
  <2>2. Owns(b) => Goes(run, paused) /\ ~Active(paused)
    BY <1>3, <1>4, <2>1, StopsQuiet
  <2> HIDE DEF paused
  <2> QED
    BY <1>5, <2>2, GoesCompose
<1> HIDE DEF paused
<1>8. Sticks(b, p) /\ (Active(p) => Stays(p))
  <2>1. goal.id = run.goal.id /\ goal.status = run.goal.status /\ goal.waiting = run.goal.waiting
    BY <1>4, FreshKeeps DEF Typed
  <2> HIDE DEF goal
  <2>2. Alike(run, p)
    <3>1. /\ s.goal = goal /\ s.run = run.run /\ s.queue = run.queue /\ s.intent = run.intent
          /\ s.delivery = run.delivery /\ s.recovery = run.recovery
          /\ s.alarm = run.alarm /\ s.retry = run.retry /\ s.due = run.due /\ DOMAIN s = DOMAIN run
      BY <1>4 DEF Typed
    <3> HIDE DEF s
    <3> QED
      BY <1>4, <2>1, <3>1 DEF Alike, Persist, Typed
  <2> HIDE DEF p
  <2> QED
    BY <1>5, <2>2, AlikeGoes, GoesCompose
<1> HIDE DEF p, s, goal
<1>9. ~Owns(b) => ~Active(b)
  BY <1>2 DEF Good, Held, Owns
<1>10. Sticks(b, a) /\ (~foreign /\ Active(a) => Stays(a))
  <2>1. Sticks(b, b)
    BY DEF Sticks
  <2> QED
    BY <1>1, <1>5, <1>6, <1>7, <1>8, <1>9, <2>1
<1>11. m.mark = "live" /\ Active(a) => Delivers(a)
  BY <1>2, <1>10 DEF Sticks
<1> QED
  BY <1>2, <1>10, <1>11, GoesCompose

-----------------------------------------------------------------------------
\* A counter of the goal changes.
LEMMA CounterAlike ==
  ASSUME NEW r, Typed(r), NEW goal, goal.id = r.goal.id, goal.status = r.goal.status,
         goal.waiting = r.goal.waiting,
         NEW s, s = [r EXCEPT !.goal = goal]
  PROVE  Alike(r, s) /\ Alike(r, Persist(s))
<1>1. Alike(r, s) /\ DOMAIN s = DOMAIN r
  BY DEF Alike, Typed
<1>2. s.goal = goal /\ s.queue = r.queue /\ s.intent = r.intent /\ s.delivery = r.delivery
      /\ s.recovery = r.recovery /\ s.run = r.run /\ s.alarm = r.alarm /\ s.retry = r.retry
      /\ s.due = r.due
  BY DEF Typed
<1>3. DOMAIN r = DOMAIN [r EXCEPT !.goal = goal] /\ "saved" \in DOMAIN r
  BY DEF Typed
<1>4. Alike(s, Persist(s))
  BY DEF Alike, Persist, Typed
<1> QED
  BY <1>1, <1>4, AlikeComposes

LEMMA RecordTurnGoes ==
  ASSUME NEW r, Good(r), NEW stop
  PROVE  Goes(r, RecordTurn(r, stop))
<1> DEFINE goal == [r.goal EXCEPT !.turns = @ + 1]
           t == [r EXCEPT !.goal = goal]
           u == RecordUsage(t)
           counted == Persist(u)
           c == RecordTurn(r, stop)
<1>1. c = r \/ (Active(r) /\ (c = SafetyPause(counted, TRUE) \/ c = counted))
  <2> DEFINE raw == [r EXCEPT !.goal.turns = @ + 1]
             other == Persist(RecordUsage(raw))
  <2>1. c = r \/ (Active(r) /\ (c = SafetyPause(other, TRUE) \/ c = other))
    BY Zenon DEF RecordTurn
  <2>2. raw = t
    BY DEF Good, Typed
  <2> QED
    BY <2>1, <2>2, Zenon
<1> SUFFICES Goes(r, c)
  OBVIOUS
<1> HIDE DEF c
<1>2. CASE c = r
  BY <1>2, AlikeFields, AlikeGoes DEF Good
<1>3. CASE Active(r) /\ (c = SafetyPause(counted, TRUE) \/ c = counted)
  <2>1. /\ WellKept(goal) /\ goal.id = r.goal.id /\ goal.status = r.goal.status
        /\ goal.waiting = r.goal.waiting
    <3>1. r.goal \in Goals /\ r.goal.status = "active" /\ WellKept(r.goal)
      BY <1>3 DEF Good, Typed, WellKept, Active
    <3>2. /\ goal \in Goals /\ goal.id = r.goal.id /\ goal.status = r.goal.status
          /\ goal.waiting = r.goal.waiting
      BY <3>1 DEF Goals
    <3> HIDE DEF goal
    <3> QED
      BY <3>1, <3>2 DEF WellKept
  <2> HIDE DEF goal
  <2>2. Typed(t) /\ Alike(r, t) /\ t.goal.status = "active"
    BY <1>3, <2>1, CounterAlike DEF Good, Typed, Active
  <2> HIDE DEF t
  <2>3. Typed(u) /\ Alike(t, u) /\ u.goal.status = "active"
    BY <2>2, RecordGood, AlikeFields
  <2> HIDE DEF u
  <2>4. Typed(counted) /\ Alike(u, counted) /\ counted.goal.status = "active"
    BY <2>3, PersistGood, AlikeFields
  <2> HIDE DEF counted
  <2>5. Goes(r, counted)
    BY <2>2, <2>3, <2>4, AlikeComposes, AlikeGoes
  <2>6. Goes(counted, SafetyPause(counted, TRUE))
    BY <2>4, StopsQuiet
  <2> QED
    BY <1>3, <2>5, <2>6, GoesCompose
<1> QED
  BY <1>1, <1>2, <1>3

\* What a tool call leaves.
LEMMA ExecuteGoes ==
  ASSUME NEW r, Good(r), Owns(r)
  PROVE  Goes(r, Execute(r))
<1>1. Goes(r, Cleared(r))
  BY ClearedQuiets DEF Good
<1>2. Goes(r, Stop(r, "blocked", {"usage"}))
  BY StopQuiets DEF Good, Owns, Active, Statuses
<1>3. Goes(r, EnterGoalWait(r, "open")) /\ Goes(r, EnterGoalWait(r, "timed"))
  BY EnterWaitGoes DEF Good, Owns, Waitings
<1> QED
  BY <1>1, <1>2, <1>3 DEF Execute

LEMMA ToolGoes ==
  ASSUME NEW r, Good(r)
  PROVE  Goes(r, ToolEnds(r))
<1> DEFINE u == RecordUsage(r)
           recorded == Persist(u)
           t == ToolEnds(r)
<1>1. t = r \/ (Owns(r) /\ (t = BudgetStop(recorded) \/ t = PauseForTools(recorded, TRUE)
                            \/ t = recorded))
  BY Zenon DEF ToolEnds
<1> SUFFICES Goes(r, t)
  OBVIOUS
<1> HIDE DEF t
<1>2. Typed(u) /\ Alike(r, u)
  BY RecordGood, AlikeFields DEF Good
<1> HIDE DEF u
<1>3. Typed(recorded) /\ Alike(u, recorded)
  BY <1>2, PersistGood, AlikeFields
<1> HIDE DEF recorded
<1>4. Goes(r, recorded) /\ Goes(r, r) /\ (Owns(r) => recorded.goal.status # "none")
  <2>1. Alike(r, recorded) /\ Alike(r, r)
    BY <1>2, <1>3, AlikeComposes, AlikeFields DEF Good
  <2> QED
    BY <2>1, AlikeGoes DEF Alike, Owns, Active
<1>5. Owns(r) => Goes(recorded, BudgetStop(recorded))
                 /\ Goes(recorded, PauseForTools(recorded, TRUE))
  BY <1>3, <1>4, StopsQuiet
<1>6. Owns(r) => Goes(r, BudgetStop(recorded)) /\ Goes(r, PauseForTools(recorded, TRUE))
  BY <1>4, <1>5, GoesCompose
<1> QED
  BY <1>1, <1>4, <1>6, Zenon

-----------------------------------------------------------------------------
\* The end of a run.
LEMMA ProgressedAlike ==
  ASSUME NEW r, Good(r), NEW run \in Runs, NEW same
  PROVE  Alike(r, Progressed(r, run, same))
<1> DEFINE repeats == IF run.tool THEN 0
                      ELSE IF same /\ r.goal.repeats > 0 THEN r.goal.repeats + 1 ELSE 1
           goal == [r.goal EXCEPT !.repeats = repeats]
           s == [r EXCEPT !.goal = goal]
           p == Progressed(r, run, same)
<1>1. p = r \/ p = Persist(s)
  <2>1. p = r \/ p = Persist([r EXCEPT !.goal.repeats =
             IF run.tool THEN 0 ELSE IF same /\ @ > 0 THEN @ + 1 ELSE 1])
    BY Zenon DEF Progressed
  <2>2. [r EXCEPT !.goal.repeats = IF run.tool THEN 0 ELSE IF same /\ @ > 0 THEN @ + 1 ELSE 1] = s
    BY DEF Good, Typed
  <2> HIDE DEF s
  <2> QED
    BY <2>1, <2>2, Zenon
<1> SUFFICES Alike(r, p)
  OBVIOUS
<1> HIDE DEF p, repeats
<1>2. goal.id = r.goal.id /\ goal.status = r.goal.status /\ goal.waiting = r.goal.waiting
  BY DEF Good, Typed, WellKept, Goals
<1> HIDE DEF goal
<1>3. Alike(r, Persist(s))
  BY <1>2, CounterAlike DEF Good
<1> HIDE DEF s
<1> QED
  BY <1>1, <1>3, AlikeFields DEF Good

LEMMA LimitedGoes ==
  ASSUME NEW r, Good(r), r.goal.status # "none"
  PROVE  Goes(r, Limited(r))
<1>1. Goes(r, r)
  BY AlikeFields, AlikeGoes DEF Good
<1> QED
  BY <1>1, StopsQuiet DEF Limited, Good

LEMMA RunStoppedGoes ==
  ASSUME NEW r, Good(r), Owns(r), NEW run \in Runs, NEW same
  PROVE  LET s == RunStopped(r, run, same) IN Carries(r, s) /\ (Active(s) => Plans(s))
<1> DEFINE c == [r EXCEPT !.recovery = NoRecovery]
           limited == Limited(c)
           progressed == Progressed(limited, run, same)
           saved == Persist(progressed)
           pause == SafetyPause(progressed, FALSE)
           request == RequestContinuation(saved)
           s == RunStopped(r, run, same)
<1>1. /\ ~Active(limited) => s = limited
      /\ Active(limited) => s = pause \/ s = request
  <2>1. ~Active(limited) => s = limited
    BY Zenon DEF RunStopped
  <2>2. Active(limited) => s = pause \/ s = request
    BY Zenon DEF RunStopped
  <2> QED
    BY <2>1, <2>2, Zenon
<1> SUFFICES Carries(r, s) /\ (Active(s) => Plans(s))
  OBVIOUS
<1> HIDE DEF s
<1>2. Good(c) /\ Carries(r, c) /\ c.goal.status = "active"
  <2>1. Keeps(r, c)
    BY AsideFields, AsideKeeps DEF Good
  <2>2. Typed(r)
    BY DEF Good
  <2>3. /\ c.goal = r.goal /\ c.delivery = r.delivery /\ c.queue = r.queue /\ c.run = r.run
        /\ c.alarm = r.alarm /\ c.retry = r.retry /\ c.due = r.due
    BY <2>2 DEF Typed
  <2> HIDE DEF c
  <2>4. Akin(r, c)
    BY <2>3 DEF Akin
  <2> QED
    BY <2>1, <2>3, <2>4, AkinSticks DEF Carries, Keeps, Akin, Owns, Active
<1> HIDE DEF c
<1>3. Good(limited) /\ Carries(c, limited)
  BY <1>2, LimitedGood, LimitedGoes, GoesCompose DEF Keeps
<1> HIDE DEF limited
<1>4. Active(limited) => Good(progressed) /\ Carries(limited, progressed) /\ Active(progressed)
  BY <1>3, ProgressedGood, ProgressedAlike, AlikeGoes, GoesCompose DEF Keeps
<1> HIDE DEF progressed
<1>5. Active(limited) => Carries(progressed, pause) /\ ~Active(pause)
  <2>1. Active(limited) => Typed(progressed) /\ progressed.goal.status # "none"
    BY <1>4 DEF Good, Active
  <2>2. Active(limited) => Goes(progressed, pause) /\ ~Active(pause)
    BY <2>1, StopsQuiet
  <2> HIDE DEF pause
  <2> QED
    BY <2>2, GoesCompose
<1> HIDE DEF pause
<1>6. Active(limited) => Good(saved) /\ Carries(progressed, saved) /\ Active(saved)
  BY <1>4, PersistGood, AlikeFields, AlikeGoes, GoesCompose DEF Keeps, Good
<1> HIDE DEF saved
<1>7. Active(limited) => Carries(saved, request) /\ Plans(request)
  BY <1>6, RequestGoes, GoesCompose
<1> HIDE DEF request
<1>8. Carries(r, limited) /\ (Active(limited) => Carries(r, pause) /\ Carries(r, request))
  BY <1>2, <1>3, <1>4, <1>5, <1>6, <1>7, GoesCompose
<1> QED
  BY <1>1, <1>5, <1>7, <1>8

LEMMA RunInterruptedGoes ==
  ASSUME NEW r, Good(r), Owns(r), NEW run \in Runs
  PROVE  LET s == RunInterrupted(r, run) IN Carries(r, s) /\ (Active(s) => Recovers(s))
<1> DEFINE limited == Limited(r)
           c == CancelContinuation(limited)
           kind == IF answer.stop = "overflow" THEN "compaction" ELSE "provider"
           recovery == [kind |-> kind, auto |-> run.auto]
           t == [c EXCEPT !.recovery = recovery]
           p == Persist(t)
           pause == SafetyPause(r, TRUE)
           s == RunInterrupted(r, run)
<1>1. s = pause \/ (~Active(limited) /\ s = limited) \/ s = p
  BY Zenon DEF RunInterrupted
<1> SUFFICES Carries(r, s) /\ (Active(s) => Recovers(s))
  OBVIOUS
<1> HIDE DEF s
<1>2. kind # "none"
  OBVIOUS
<1> HIDE DEF kind
<1>3. recovery # NoRecovery
  BY <1>2 DEF NoRecovery
<1> HIDE DEF recovery
<1>4. Carries(r, pause) /\ ~Active(pause)
  BY StopsQuiet, GoesCompose DEF Good, Owns, Active
<1> HIDE DEF pause
<1>5. Good(limited) /\ Carries(r, limited)
  BY LimitedGood, LimitedGoes, GoesCompose DEF Owns, Active, Keeps
<1> HIDE DEF limited
<1>6. Typed(c) /\ Carries(limited, c)
  BY <1>5, CancelFollows, CancelCalms, CalmedIs DEF Good
<1> HIDE DEF c
<1>7. Akin(c, p) /\ p.run = c.run /\ p.recovery = recovery
  <2>1. /\ t.goal = c.goal /\ t.queue = c.queue /\ t.delivery = c.delivery /\ t.run = c.run
        /\ t.alarm = c.alarm /\ t.retry = c.retry /\ t.due = c.due /\ t.recovery = recovery
        /\ DOMAIN t = DOMAIN c
    BY <1>6 DEF Typed
  <2> HIDE DEF t
  <2> QED
    BY <1>6, <2>1 DEF Akin, Persist, Typed
<1> HIDE DEF p
<1>8. Carries(r, p) /\ Recovers(p)
  <2>1. Carries(c, p)
    BY <1>7, AkinSticks DEF Carries
  <2> QED
    BY <1>3, <1>5, <1>6, <1>7, <2>1, GoesCompose DEF Recovers
<1> QED
  BY <1>1, <1>4, <1>5, <1>8

LEMMA RunEndsGoes ==
  ASSUME NEW r, Good(r), NEW run \in Runs, NEW same
  PROVE  LET e == RunEnds(r, run, same) IN
         /\ Carries(r, e)
         /\ Active(e) => Plans(e) \/ Recovers(e) \/ run.id \notin {Unowned, r.goal.id}
<1> DEFINE recorded == RecordUsage(r)
           interrupted == RunInterrupted(recorded, run)
           failed == Stop(recorded, FailedStatus, {"abort"})
           stopped == RunStopped(recorded, run, same)
           e == RunEnds(r, run, same)
<1>1. \/ (run.id \notin {Unowned, r.goal.id} \/ ~Owns(r)) /\ e = r
      \/ Owns(r) /\ (e = interrupted \/ e = failed \/ e = stopped)
  BY Zenon DEF RunEnds
<1> SUFFICES /\ Carries(r, e)
             /\ Active(e) => Plans(e) \/ Recovers(e) \/ run.id \notin {Unowned, r.goal.id}
  OBVIOUS
<1> HIDE DEF e
<1>2. Good(recorded) /\ Alike(r, recorded) /\ (Owns(r) => Owns(recorded))
  BY RecordGood, AlikeFields DEF Good, Owns, Active, Keeps
<1> HIDE DEF recorded
<1>3. Owns(r) => Carries(recorded, failed) /\ ~Active(failed)
  <2>1. FailedStatus \in Statuses \ {"none", "active"}
    BY DEF FailedStatus, Statuses
  <2> HIDE DEF FailedStatus
  <2> QED
    BY <1>2, <2>1, StopQuiets, GoesCompose DEF Owns, Active, Good
<1> HIDE DEF failed
<1>4. Owns(r) => /\ Carries(recorded, interrupted) /\ (Active(interrupted) => Recovers(interrupted))
                 /\ Carries(recorded, stopped) /\ (Active(stopped) => Plans(stopped))
  BY <1>2, RunInterruptedGoes, RunStoppedGoes
<1> HIDE DEF interrupted, stopped
<1>5. Carries(r, recorded) /\ Carries(r, r)
  BY <1>2, AlikeFields, AlikeGoes, GoesCompose DEF Good
<1>6. Active(r) => Owns(r)
  BY DEF Good, Held, Owns
<1>7. CASE (run.id \notin {Unowned, r.goal.id} \/ ~Owns(r)) /\ e = r
  BY <1>5, <1>6, <1>7
<1>8. CASE Owns(r) /\ (e = interrupted \/ e = failed \/ e = stopped)
  <2>1. Carries(recorded, e)
    BY <1>3, <1>4, <1>8
  <2>2. Active(e) => Plans(e) \/ Recovers(e)
    BY <1>3, <1>4, <1>8
  <2> QED
    BY <1>5, <2>1, <2>2, GoesCompose
<1> QED
  BY <1>1, <1>7, <1>8

-----------------------------------------------------------------------------
LEMMA BeforeCompactGoes ==
  ASSUME NEW r, Good(r)
  PROVE  LET b == BeforeCompact(r) IN
         Carries(r, b) /\ (r.intent = 0 /\ r.delivery = 0 => Goes(r, b))
<1> DEFINE c == CancelContinuation(r)
           u == RecordUsage(c)
           recorded == Persist(u)
           budget == BudgetStop(recorded)
           b == BeforeCompact(r)
<1>1. b = r \/ (Owns(r) /\ (b = budget \/ b = recorded))
  BY Zenon DEF BeforeCompact
<1> SUFFICES Carries(r, b) /\ (r.intent = 0 /\ r.delivery = 0 => Goes(r, b))
  OBVIOUS
<1> HIDE DEF b
<1>2. Typed(c) /\ Carries(r, c) /\ c.goal = r.goal /\ c.recovery = r.recovery
  BY CancelCalms, CalmedIs, CancelFollows, CancelQuiets DEF Good
<1> HIDE DEF c
<1>3. Typed(u) /\ Alike(c, u)
  BY <1>2, RecordGood, AlikeFields
<1> HIDE DEF u
<1>4. Typed(recorded) /\ Alike(u, recorded)
  BY <1>3, PersistGood, AlikeFields
<1> HIDE DEF recorded
<1>5. Alike(c, recorded)
  BY <1>3, <1>4, AlikeComposes
<1>6. Carries(r, recorded)
  BY <1>2, <1>5, AlikeGoes, GoesCompose
<1>7. r.intent = 0 /\ r.delivery = 0 => Goes(r, recorded)
  BY <1>2, <1>5, <1>6 DEF Goes, Keen, Plans, Recovers, Waits, Alike
<1>8. Owns(r) => Goes(recorded, budget) /\ ~Active(budget)
  <2>1. Owns(r) => recorded.goal.status # "none"
    BY <1>2, <1>5 DEF Owns, Active, Alike
  <2> QED
    BY <1>4, <2>1, StopsQuiet
<1> HIDE DEF budget
<1>9. Owns(r) => Goes(r, budget)
  BY <1>6, <1>8, GoesCompose DEF Goes, Keen
<1>10. Goes(r, r)
  BY AlikeFields, AlikeGoes DEF Good
<1>11. Goes(r, b) \/ b = recorded
  BY <1>1, <1>9, <1>10
<1> QED
  BY <1>6, <1>7, <1>11, GoesCompose

LEMMA SessionCompactGoes ==
  ASSUME NEW r, Good(r), CanRecord(r)
  PROVE  LET s == SessionCompact(r) IN
         Carries(r, s) /\ (Active(s) /\ phase # "compact_retry" => Plans(s))
<1> DEFINE goal == r.saved
           l == [r EXCEPT !.goal = goal]
           loaded == RecordUsage(l)
           kept == Persist(loaded)
           calm == [kept EXCEPT !.recovery = NoRecovery]
           req == RequestContinuation(calm)
           timed == [req EXCEPT !.timer = TRUE]
           budget == BudgetStop(kept)
           none == [r EXCEPT !.recovery = NoRecovery]
           s == SessionCompact(r)
<1>1. \/ ~Owns(r) /\ s = none
      \/ Owns(r) /\ (s = budget \/ (phase = "compact_retry" /\ s = kept) \/ s = timed)
  BY Zenon DEF SessionCompact
<1> SUFFICES Carries(r, s) /\ (Active(s) /\ phase # "compact_retry" => Plans(s))
  OBVIOUS
<1> HIDE DEF s
<1>2. Carries(r, none) /\ (~Owns(r) => ~Active(none))
  <2>1. Akin(r, none) /\ none.run = r.run
    BY DEF Akin, Good, Typed
  <2> HIDE DEF none
  <2> QED
    BY <2>1, AkinSticks DEF Carries, Good, Held, Owns
<1> HIDE DEF none
<1>3. /\ goal.id = r.goal.id /\ goal.status = r.goal.status /\ goal.waiting = r.goal.waiting
      /\ WellKept(goal)
  <2>1. r.goal \in Goals /\ r.saved \in Goals
    BY DEF Good, Typed, WellKept
  <2> QED
    BY <2>1 DEF Good, Typed, Sync, Goals
<1> HIDE DEF goal
<1>4. Typed(l) /\ Alike(r, l) /\ Held(l)
  <2>1. Typed(l) /\ l.goal = goal /\ l.owner = r.owner
    BY <1>3 DEF Good, Typed
  <2>2. Alike(r, l)
    BY <1>3, CounterAlike DEF Good
  <2> HIDE DEF l
  <2> QED
    BY <1>3, <2>1, <2>2 DEF Good, Held, Active
<1> HIDE DEF l
<1>5. Typed(loaded) /\ Alike(l, loaded) /\ Held(loaded)
  BY <1>4, RecordGood, AlikeFields DEF Held, Active
<1> HIDE DEF loaded
<1>6. /\ Typed(kept) /\ Alike(r, kept) /\ Carries(r, kept)
      /\ (Owns(r) => kept.goal.status = "active")
  <2>1. Typed(kept) /\ Alike(loaded, kept)
    BY <1>5, PersistGood, AlikeFields
  <2> HIDE DEF kept
  <2>2. Alike(r, kept)
    BY <1>4, <1>5, <2>1, AlikeComposes
  <2> QED
    BY <2>1, <2>2, AlikeGoes, GoesCompose DEF Alike, Owns, Active
<1>7. Owns(r) => Carries(r, budget) /\ ~Active(budget)
  <2> HIDE DEF kept
  <2> QED
    BY <1>6, StopsQuiet, GoesCompose
<1> HIDE DEF budget
<1>8. Carries(kept, calm) /\ (Owns(r) => Active(calm) /\ Owns(calm)) /\ calm.goal = kept.goal
  <2>1. kept.owner = r.owner
    <3>1. kept.owner = loaded.owner
      BY <1>5, PersistGood
    <3>2. loaded.owner = l.owner
      BY <1>4, RecordGood DEF loaded
    <3>3. l.owner = r.owner
      BY DEF l, Good, Typed
    <3> QED
      BY <3>1, <3>2, <3>3
  <2> HIDE DEF kept
  <2>2. /\ Akin(kept, calm) /\ calm.run = kept.run /\ calm.goal = kept.goal
        /\ calm.owner = kept.owner
    BY <1>6 DEF Akin, Typed
  <2> HIDE DEF calm
  <2> QED
    BY <1>6, <2>1, <2>2, AkinSticks DEF Carries, Owns, Active
<1>9. Good(calm)
  <2>1. Good(loaded)
    <3>1. Sync(l) /\ Owned(l)
      <4>1. /\ l.goal = goal /\ l.saved = goal /\ l.intent = r.intent /\ l.delivery = r.delivery
            /\ l.timer = r.timer /\ l.queue = r.queue
        BY DEF l, Good, Typed, goal
      <4>2. goal \in Goals
        BY <1>3 DEF WellKept
      <4>3. Active(l) <=> Active(r)
        BY <1>3, <4>1 DEF Active
      <4>4. Waits(l) <=> Waits(r)
        BY <1>3, <4>1 DEF Waits
      <4>5. Sync(l)
        BY <4>1, <4>2 DEF Sync, Goals
      <4> QED
        BY <1>3, <4>1, <4>3, <4>4, <4>5 DEF Owned, Good
    <3> QED
      BY <1>4, <3>1, RecordGood DEF Keeps, Good, loaded
  <2>2. Good(kept)
    BY <2>1, PersistGood DEF Keeps, Good
  <2> HIDE DEF kept
  <2> QED
    BY <2>2, AsideFields, AsideKeeps DEF Keeps, Good
<1> HIDE DEF kept, calm
<1>10. Owns(r) => Carries(calm, timed) /\ Plans(timed)
  <2>1. Good(req) /\ Goes(calm, req) /\ (Active(calm) => Plans(req))
    BY <1>9, RequestGood, RequestGoes DEF Keeps
  <2> HIDE DEF req
  <2>2. Alike(req, timed)
    BY <2>1, AlikeFields DEF Good
  <2> HIDE DEF timed
  <2>3. Plans(req) => Plans(timed)
    BY <2>2 DEF Plans, Waits, Alike
  <2> QED
    BY <1>8, <2>1, <2>2, <2>3, AlikeGoes, GoesCompose
<1> HIDE DEF timed
<1>11. Owns(r) => Carries(r, timed)
  BY <1>6, <1>8, <1>10, GoesCompose
<1> QED
  BY <1>1, <1>2, <1>6, <1>7, <1>10, <1>11

\* A session is restored: no message is left, and a timed wait is watched again.
LEMMA RestoredWatches ==
  ASSUME NEW r, Typed(r)
  PROVE  LET s == Restored(r) IN
         /\ Mailed(s) /\ ~Queued(s) /\ s.run.id = Unowned
         /\ Active(s) => Watched(s) /\ Delivers(s)
<1> DEFINE goal == r.saved
           owner == IF r.owner = "goal" THEN "none" ELSE r.owner
           bare == [r EXCEPT
            !.goal = goal, !.intent = 0, !.delivery = 0, !.timer = FALSE,
            !.recovery = NoRecovery, !.run = NoRun, !.guard = 0, !.stale = FALSE,
            !.inputs = <<>>, !.retry = "none", !.alarm = FALSE, !.due = FALSE,
            !.owner = owner, !.queue = <<>>, !.aborting = FALSE]
           stopped == [goal EXCEPT !.status = "paused", !.waiting = "no"]
           paused == [bare EXCEPT !.goal = stopped]
           new == IF goal.reset THEN Fresh(goal) ELSE goal
           had == [bare EXCEPT !.owner = "goal", !.goal = new]
           owned == RecordUsage(had)
           kept == Persist(owned)
           left == Persist(paused)
           s == Restored(r)
<1>1. \/ s = bare /\ goal.status # "active"
      \/ goal.status = "active" /\ s = left
      \/ /\ goal.status = "active"
         /\ \/ s = BudgetStop(owned) \/ s = SafetyPause(owned, FALSE)
            \/ s = PauseForTools(owned, FALSE) \/ s = RestoreWaitTimer(kept)
  <2> DEFINE rawPaused == [bare EXCEPT !.goal.status = "paused", !.goal.waiting = "no"]
             rawHad == [bare EXCEPT !.owner = "goal", !.goal = IF @.reset THEN Fresh(@) ELSE @]
             rawOwned == RecordUsage(rawHad)
  <2>1. \/ s = bare /\ goal.status # "active"
        \/ goal.status = "active" /\ s = Persist(rawPaused)
        \/ /\ goal.status = "active"
           /\ \/ s = BudgetStop(rawOwned) \/ s = SafetyPause(rawOwned, FALSE)
              \/ s = PauseForTools(rawOwned, FALSE) \/ s = RestoreWaitTimer(Persist(rawOwned))
    BY Zenon DEF Restored
  <2>2. rawPaused = paused /\ rawHad = had
    <3>1. bare.goal = goal /\ "goal" \in DOMAIN bare /\ "owner" \in DOMAIN bare
      BY DEF Typed
    <3> HIDE DEF bare
    <3> QED
      BY <3>1
  <2> HIDE DEF s, bare, rawPaused, rawHad, paused, had
  <2> QED
    BY <2>1, <2>2, Zenon
<1> SUFFICES /\ Mailed(s) /\ ~Queued(s) /\ s.run.id = Unowned
             /\ Active(s) => Watched(s) /\ Delivers(s)
  OBVIOUS
<1> HIDE DEF s
<1>2. WellKept(goal) /\ owner \in {"none", "goal", "other"} /\ 0 \in 0 .. MaxGoals
      /\ NoRecovery \in Recoveries /\ NoRun \in Runs /\ <<>> \in Seq(Mails)
  BY TypedValues, GoalRunAssumption DEF Typed
<1> DEFINE Bare(x) == /\ x.delivery = 0 /\ x.queue = <<>> /\ x.run = NoRun
<1>3. Typed(bare) /\ bare.goal = goal /\ Bare(bare)
  <2> HIDE DEF owner
  <2> QED
    BY <1>2 DEF Typed
<1> HIDE DEF bare, owner
<1>4. \A x : Bare(x) => Mailed(x) /\ ~Queued(x) /\ x.run.id = Unowned /\ Delivers(x)
  BY DEF Mailed, WellMarked, Queued, NoRun, Delivers
<1>5. goal.status = "active" => Bare(left) /\ ~Active(left)
  <2>1. stopped.status = "paused"
    BY <1>2 DEF WellKept, Goals
  <2> HIDE DEF stopped
  <2>2. Bare(paused) /\ paused.goal = stopped /\ DOMAIN paused = DOMAIN bare
    BY <1>3 DEF Typed
  <2> HIDE DEF paused
  <2>3. Bare(left) /\ left.goal = stopped
    BY <1>3, <2>2 DEF Persist, Typed
  <2> HIDE DEF left
  <2> QED
    BY <2>1, <2>3 DEF Active
<1>6. goal.status = "active" =>
        /\ Typed(had) /\ Bare(had) /\ had.goal.status = "active" /\ had.owner = "goal"
  <2>1. WellKept(new) /\ new.status = goal.status
    BY <1>2, FreshKeeps
  <2> HIDE DEF new
  <2> QED
    BY <1>3, <2>1 DEF Typed
<1> HIDE DEF had, left, paused
<1>7. goal.status = "active" =>
        /\ Typed(owned) /\ Bare(owned) /\ owned.goal.status = "active" /\ Held(owned)
  <2>1. goal.status = "active" =>
          /\ Typed(owned) /\ owned.goal.status = "active" /\ owned.owner = "goal"
    BY <1>6, RecordGood
  <2>2. goal.status = "active" =>
          owned.delivery = had.delivery /\ owned.queue = had.queue /\ owned.run = had.run
    BY <1>6 DEF RecordUsage, Typed
  <2> QED
    BY <1>6, <2>1, <2>2 DEF Held
<1> HIDE DEF owned
<1>8. goal.status = "active" => Bare(RestoreWaitTimer(kept))
        /\ (Active(RestoreWaitTimer(kept)) => Watched(RestoreWaitTimer(kept)))
  <2>1. goal.status = "active" => Typed(kept) /\ Held(kept) /\ Bare(kept)
    BY <1>7, PersistGood DEF Persist, Typed, Held, Active
  <2> HIDE DEF kept
  <2>2. goal.status = "active" =>
          LET t == RestoreWaitTimer(kept) IN
          /\ t.queue = kept.queue /\ t.run = kept.run /\ t.delivery = kept.delivery
          /\ Active(t) => Watched(t)
    BY <2>1, RestoreWatches
  <2> QED
    BY <2>1, <2>2
<1>9. goal.status = "active" => \A t : Goes(owned, t) /\ ~Active(t) =>
        Mailed(t) /\ ~Queued(t) /\ t.run.id = Unowned
  BY <1>4, <1>7 DEF Goes, Carries, Sticks
<1>10. goal.status = "active" =>
        /\ Goes(owned, BudgetStop(owned)) /\ ~Active(BudgetStop(owned))
        /\ Goes(owned, SafetyPause(owned, FALSE)) /\ ~Active(SafetyPause(owned, FALSE))
        /\ Goes(owned, PauseForTools(owned, FALSE)) /\ ~Active(PauseForTools(owned, FALSE))
  BY <1>7, StopsQuiet
<1>11. CASE s = bare /\ goal.status # "active"
  BY <1>3, <1>4, <1>11 DEF Active
<1>12. CASE goal.status = "active" /\ s = left
  BY <1>4, <1>5, <1>12
<1>13. CASE /\ goal.status = "active"
            /\ \/ s = BudgetStop(owned) \/ s = SafetyPause(owned, FALSE)
               \/ s = PauseForTools(owned, FALSE)
  BY <1>9, <1>10, <1>13
<1>14. CASE goal.status = "active" /\ s = RestoreWaitTimer(kept)
  <2> HIDE DEF kept
  <2> QED
    BY <1>4, <1>8, <1>14
<1> QED
  BY <1>1, <1>11, <1>12, <1>13, <1>14

-----------------------------------------------------------------------------
\* The invariant of a goal that goes on, and the steps of its commands.
OnTheMove == MovesAt(rt, phase, lull)

\* A goal that is left alone needs nothing but its alarm, and lull.
LEMMA LeftAlone ==
  ASSUME NEW r, NEW s, NEW p, NEW l, NEW k, MovesAt(r, p, l),
         Mailed(s), Queued(s) <=> Queued(r), s.run.id = r.run.id,
         Active(s) => k /\ Watched(s)
  PROVE  MovesAt(s, p, k)
<1>1. Active(s) => Timely(s)
  BY DEF Watched, Timely
<1> QED
  BY <1>1 DEF MovesAt

LEMMA QuietedAlone ==
  ASSUME NEW r, NEW s, NEW p, NEW l, NEW k, MovesAt(r, p, l), Quieted(r, s),
         Active(s) => k /\ Watched(s)
  PROVE  MovesAt(s, p, k)
<1>1. Mailed(s) /\ (Queued(s) <=> Queued(r)) /\ s.run.id = r.run.id
  BY QuietedGoes DEF MovesAt, Mailed, Quieted
<1> QED
  BY <1>1, LeftAlone

\* lull may be given up by a goal that has stopped.
LEMMA Lulled ==
  ASSUME NEW s, NEW p, NEW l, NEW k, MovesAt(s, p, l), Active(s) => (l => k)
  PROVE  MovesAt(s, p, k)
BY DEF MovesAt

\* A prompt is on its way.
LEMMA SendGrows ==
  ASSUME NEW q, Typed(q), NEW reset \in BOOLEAN
  PROVE  LET s == Send(q, q.goal.id, reset) IN
         /\ s.run = q.run /\ s.delivery = q.delivery /\ (Queued(s) <=> Queued(q)) /\ Pending(s)
         /\ (Mailed(q) => Mailed(s)) /\ (Delivers(q) => Delivers(s))
         /\ (Watched(q) => Watched(s)) /\ (Timely(q) => Timely(s))
<1> DEFINE m == GoalPrompt(q.goal.id, reset)
           s == Send(q, q.goal.id, reset)
<1>1. m \in Mails /\ m.mark = "pending" /\ m.at = "sent" /\ m.kind = "goal" /\ m.id = q.goal.id
  BY DEF GoalPrompt, Message, Mails, Typed, WellKept, Goals
<1>2. /\ s.queue = Append(q.queue, m) /\ s.goal = q.goal /\ s.run = q.run
      /\ s.alarm = q.alarm /\ s.retry = q.retry /\ s.due = q.due /\ s.delivery = q.delivery
  BY DEF Send, Typed
<1> HIDE DEF m, s
<1>3. q.queue \in Seq(Mails)
  BY DEF Typed
<1>4. /\ Mailed(q) => Mailed(s)
      /\ (Live(q) => Live(s)) /\ (Watched(q) => Watched(s)) /\ (Timely(q) => Timely(s))
      /\ Queued(s) <=> Queued(q)
      /\ Pending(s)
  BY <1>1, <1>2, <1>3, AppendGrows
<1>5. Delivers(q) => Delivers(s)
  BY <1>2, <1>4 DEF Delivers
<1> QED
  BY <1>2, <1>4, <1>5 DEF s

LEMMA SendPends ==
  ASSUME NEW r, NEW p, NEW l, MovesAt(r, p, l),
         NEW q, Typed(q), Mailed(q), Queued(q) <=> Queued(r), q.run.id = r.run.id,
         Delivers(q), Timely(q), Between(p) => Watched(q),
         NEW reset \in BOOLEAN, NEW k
  PROVE  MovesAt(Send(q, q.goal.id, reset), p, k)
<1> DEFINE s == Send(q, q.goal.id, reset)
<1>1. /\ s.run = q.run /\ (Queued(s) <=> Queued(q)) /\ Pending(s) /\ Mailed(s) /\ Delivers(s)
      /\ (Watched(q) => Watched(s)) /\ Timely(s)
  BY SendGrows
<1> HIDE DEF s
<1>2. MovesAt(s, p, k)
  BY <1>1 DEF MovesAt
<1> QED
  BY <1>2 DEF s

LEMMA QuietedComposes ==
  ASSUME NEW r, NEW s, NEW t, Quieted(r, s), Quieted(s, t)
  PROVE  Quieted(r, t)
BY DEF Quieted, Marked

\* What is rolled back is as quiet as what it comes from, and watched.
LEMMA RollBackQuiets ==
  ASSUME NEW r, NEW q, Typed(q), Quieted(r, q), NEW goal, WellKept(goal)
  PROVE  LET b == RollBack(q, goal) IN Quieted(r, b) /\ (Active(b) => Watched(b))
<1> DEFINE stale == goal.status # "active"
           back == [q EXCEPT !.goal = goal, !.stale = stale]
           b == RollBack(q, goal)
<1> SUFFICES Quieted(r, b) /\ (Active(b) => Watched(b))
  OBVIOUS
<1>1. stale \in BOOLEAN
  OBVIOUS
<1>2. b = IF goal = NoGoal THEN Cleared(back)
          ELSE IF goal.status = "active"
          THEN RestoreWaitTimer(Persist([back EXCEPT !.owner = "goal"]))
          ELSE ReleaseWorkflow(Persist(back))
  BY DEF RollBack
<1> HIDE DEF stale, b
<1>3. Typed(back) /\ back.goal = goal /\ back.queue = q.queue /\ back.run = q.run
  BY <1>1 DEF Typed
<1> HIDE DEF back
<1>4. Quieted(r, back)
  BY <1>3, QuietedBy
<1>5. CASE goal = NoGoal
  BY <1>2, <1>3, <1>4, <1>5, ClearedQuiets, QuietedComposes
<1>6. CASE goal # NoGoal /\ goal.status = "active"
  <2> DEFINE t == [back EXCEPT !.owner = "goal"]
             p == Persist(t)
  <2>1. Typed(t) /\ t.goal = goal /\ t.queue = back.queue /\ t.run = back.run /\ t.owner = "goal"
    BY <1>3 DEF Typed
  <2> HIDE DEF t
  <2>2. Typed(p) /\ p.goal = goal /\ p.owner = "goal"
    BY <2>1, PersistGood
  <2>3. p.queue = back.queue /\ p.run = back.run
    BY <2>1 DEF Persist, Typed
  <2>4. b = RestoreWaitTimer(p)
    BY <1>2, <1>6 DEF p, t
  <2> HIDE DEF p
  <2>5. b.queue = back.queue /\ b.run = back.run /\ (Active(b) => Watched(b))
    BY <2>2, <2>3, <2>4, RestoreWatches DEF Held
  <2> QED
    BY <1>4, <2>5, QuietedBy
<1>7. CASE goal # NoGoal /\ goal.status # "active"
  <2> DEFINE p == Persist(back)
  <2>1. Typed(p) /\ p.goal = goal
    BY <1>3, PersistGood
  <2>2. p.queue = back.queue /\ p.run = back.run
    BY <1>3 DEF Persist, Typed
  <2>3. b = ReleaseWorkflow(p)
    BY <1>2, <1>7
  <2> HIDE DEF p
  <2>4. Alike(p, b)
    BY <2>1, <2>3, AlikeFields
  <2>5. b.queue = back.queue /\ b.run.id = back.run.id /\ b.goal.status # "active"
    BY <1>7, <2>1, <2>2, <2>4 DEF Alike
  <2> QED
    BY <1>4, <2>5, QuietedBy DEF Active
<1> QED
  BY <1>5, <1>6, <1>7

\* A goal that takes over has its prompt on its way.
LEMMA TakesOver ==
  ASSUME NEW r, NEW p, NEW l, MovesAt(r, p, l), NEW q, Quieted(r, q), q.delivery = 0,
         NEW s, Typed(s), s.goal.waiting = "no", s.queue = q.queue, s.run.id = q.run.id,
         s.delivery = q.delivery, NEW reset \in BOOLEAN, NEW k
  PROVE  MovesAt(Send(s, s.goal.id, reset), p, k)
<1>1. Quieted(r, s)
  BY QuietedBy
<1>2. Mailed(s) /\ (Queued(s) <=> Queued(r)) /\ s.run.id = r.run.id
  BY <1>1, QuietedGoes DEF MovesAt, Mailed, Quieted
<1>3. Delivers(s) /\ Watched(s) /\ Timely(s)
  BY DEF Delivers, Watched, Timely
<1> QED
  BY <1>2, <1>3, SendPends

\* The steps of commands: what they change goes on, or is left alone.
LEMMA OwnsIt ==
  ASSUME NEW r, Good(r)
  PROVE  /\ Typed(r) /\ Held(r) /\ WellKept(r.goal) /\ (Active(r) <=> Owns(r))
         /\ Active(r) => r.goal.status # "none"
BY DEF Good, Typed, Held, Owns, Active

LEMMA GoesMoves ==
  ASSUME OnTheMove, Goes(rt, rt'), phase' = phase, Good(rt'), lull' = (lull /\ Owns(rt'))
  PROVE  OnTheMove'
<1>1. MovesAt(rt', phase, lull)
  BY GoesOn DEF OnTheMove
<1>2. Active(rt') => (lull => lull')
  BY OwnsIt
<1>3. MovesAt(rt', phase', lull')
  BY <1>1, <1>2, Lulled
<1> QED
  BY <1>3 DEF OnTheMove

LEMMA QuietedMoves ==
  ASSUME OnTheMove, Quieted(rt, rt'), phase' = phase, Active(rt') => lull' /\ Watched(rt')
  PROVE  OnTheMove'
<1>1. MovesAt(rt', phase', lull')
  BY QuietedAlone DEF OnTheMove
<1> QED
  BY <1>1 DEF OnTheMove

LEMMA ActivateMoves ==
  ASSUME Good(rt), Good(rt'), OnTheMove, phase' = phase, nextId \in 1 .. MaxGoals,
         NEW existing, WellKept(existing), NEW way, Activate(existing, way)
  PROVE  OnTheMove'
<1> DEFINE quiet == Quiet(rt)
           new == NewGoal(nextId)
           s == [quiet EXCEPT !.stale = FALSE, !.goal = new, !.exhausted = FALSE, !.owner = "goal"]
           p == Persist(s)
           had == [rt EXCEPT !.goal = existing]
           back == Quiet(had)
           recorded == RecordUsage(back)
<1>1. \/ (rt' = rt \/ rt' = Refused(existing)) /\ lull' = (lull /\ Owns(rt'))
      \/ rt' = Send(p, nextId, TRUE)
      \/ rt' = RollBack(back, recorded.goal) /\ lull' = (TRUE /\ Owns(rt'))
  BY DEF Activate, Asks
<1>2. CASE (rt' = rt \/ rt' = Refused(existing)) /\ lull' = (lull /\ Owns(rt'))
  <2>1. Active(rt) => Goes(rt, PauseForTools(rt, TRUE))
    BY OwnsIt, StopsQuiet
  <2>2. Goes(rt, [rt EXCEPT !.owner = "goal"]) /\ Goes(rt, rt)
    BY OwnsIt, AlikeFields, AlikeGoes
  <2>3. Goes(rt, rt')
    BY <1>2, <2>1, <2>2 DEF Refused
  <2> QED
    BY <1>2, <2>3, GoesMoves
<1>3. CASE rt' = Send(p, nextId, TRUE)
  <2>1. Typed(quiet) /\ Quieted(rt, quiet) /\ quiet.delivery = 0
    BY OwnsIt, QuietQuiets, QuietCalms DEF Calmed
  <2>2. WellKept(new) /\ new.id = nextId
    BY TypedValues
  <2>3. new.waiting = "no"
    BY DEF NewGoal, NoGoal
  <2> HIDE DEF quiet, new
  <2>4. /\ Typed(s) /\ s.queue = quiet.queue /\ s.run = quiet.run /\ s.delivery = quiet.delivery
        /\ s.goal = new
    BY <2>1, <2>2 DEF Typed
  <2> HIDE DEF s
  <2>5. /\ Typed(p) /\ p.goal = new /\ p.queue = quiet.queue /\ p.run = quiet.run
        /\ p.delivery = quiet.delivery
    BY <2>4, PersistGood DEF Persist, Typed
  <2> HIDE DEF p
  <2>6. MovesAt(Send(p, p.goal.id, TRUE), phase, lull')
    BY <2>1, <2>3, <2>5, TakesOver DEF OnTheMove
  <2> QED
    BY <1>3, <2>2, <2>5, <2>6 DEF OnTheMove
<1>4. CASE rt' = RollBack(back, recorded.goal) /\ lull' = (TRUE /\ Owns(rt'))
  <2>1. Typed(had) /\ had.queue = rt.queue /\ had.run = rt.run
    BY DEF Good, Typed
  <2> HIDE DEF had
  <2>2. Quieted(had, back) /\ Typed(back)
    BY <2>1, QuietQuiets, QuietCalms DEF Calmed
  <2> HIDE DEF back
  <2>3. Quieted(rt, back)
    BY <2>1, <2>2 DEF Quieted, Marked
  <2>4. WellKept(recorded.goal)
    BY <2>2, RecordGood DEF Typed
  <2> HIDE DEF recorded
  <2>5. Quieted(rt, rt') /\ (Active(rt') => Watched(rt'))
    BY <1>4, <2>2, <2>3, <2>4, RollBackQuiets
  <2>6. Active(rt') => lull'
    BY <1>4, OwnsIt
  <2> QED
    BY <2>5, <2>6, QuietedMoves
<1> HIDE DEF p, back, recorded
<1> QED
  BY <1>1, <1>2, <1>3, <1>4

LEMMA CommandsMove ==
  ASSUME WorkInv, Good(rt'), OnTheMove, nextId \in Nat \ {0},
         StartGoal \/ ReplaceGoal \/ PauseGoal \/ ClearGoal \/ ResumeWaiting
  PROVE  OnTheMove'
<1>1. Good(rt) /\ Typed(rt) /\ WellKept(rt.goal) /\ Held(rt)
  BY OwnsIt DEF WorkInv
<1>2. CASE StartGoal
  <2>1. phase' = phase /\ nextId \in 1 .. MaxGoals
    BY <1>2, GoalRunAssumption DEF StartGoal
  <2>2. PICK way \in SendWays : Activate(NoGoal, way)
    BY <1>2 DEF StartGoal
  <2> QED
    BY <1>1, <2>1, <2>2, TypedValues, ActivateMoves
<1>3. CASE ReplaceGoal
  <2>1. phase' = phase /\ nextId \in 1 .. MaxGoals /\ rt.goal # NoGoal
    BY <1>3, GoalRunAssumption DEF ReplaceGoal
  <2>2. PICK existing \in Confirmed, way \in SendWays : Activate(existing, way)
    BY <1>3 DEF ReplaceGoal
  <2>3. WellKept(existing)
    BY <1>1, <2>1, ConfirmedIsKept
  <2> QED
    BY <1>1, <2>1, <2>2, <2>3, ActivateMoves
<1>4. CASE PauseGoal
  <2>1. rt' = Stop(rt, "paused", {"usage", "abort"}) /\ phase' = phase /\ rt.goal.status = "active"
    BY <1>4 DEF PauseGoal, Active
  <2>2. Quieted(rt, rt') /\ ~Active(rt')
    BY <1>1, <2>1, StopQuiets DEF Statuses
  <2> QED
    BY <2>1, <2>2, QuietedMoves
<1>5. CASE ClearGoal
  <2>1. rt' = Cleared(rt) /\ phase' = phase
    BY <1>5 DEF ClearGoal
  <2>2. Quieted(rt, rt') /\ ~Active(rt')
    BY <1>1, <2>1, ClearedQuiets
  <2> QED
    BY <2>1, <2>2, QuietedMoves
<1>6. CASE ResumeWaiting
  <2> DEFINE c == ClearGoalWait(rt)
             e == EnterGoalWait(c, rt.goal.waiting)
  <2>1. /\ Owns(rt) /\ Active(rt) /\ rt.goal.waiting # "no" /\ phase' = phase
        /\ \/ rt' = Send(c, rt.goal.id, FALSE)
           \/ rt' = e /\ lull' = (lull /\ Owns(rt'))
    BY <1>6 DEF ResumeWaiting, Asks, Owns, Waits
  <2>2. Keeps(rt, c) /\ Carries(rt, c) /\ Active(c) /\ c.goal.id = rt.goal.id
        /\ c.delivery = rt.delivery
    BY <1>1, <2>1, ClearWaitGood, ClearWaitFollows
  <2> HIDE DEF c
  <2>3. Typed(c) /\ Held(c)
    BY <2>2, OwnsIt DEF Keeps
  <2>4. CASE rt' = Send(c, rt.goal.id, FALSE)
    <3>1. rt.delivery = 0
      BY <1>1, <2>1 DEF Good, Owned, Waits
    <3>2. Mailed(c) /\ (Queued(c) <=> Queued(rt)) /\ c.run.id = rt.run.id
      BY <2>2 DEF OnTheMove, MovesAt, Carries, Sticks
    <3>3. Delivers(c)
      BY <2>2, <3>1 DEF Delivers
    <3>4. Timely(c) /\ (Between(phase) => Watched(c))
      BY <2>1, <2>2 DEF OnTheMove, MovesAt, Carries, Sticks
    <3>5. MovesAt(Send(c, c.goal.id, FALSE), phase, lull')
      BY <2>3, <3>2, <3>3, <3>4, SendPends DEF OnTheMove
    <3> QED
      BY <2>1, <2>2, <2>4, <3>5 DEF OnTheMove
  <2>5. CASE rt' = e /\ lull' = (lull /\ Owns(rt'))
    <3>1. rt.goal.waiting \in Waitings
      BY <1>1 DEF WellKept, Goals
    <3>2. Carries(c, e) /\ Plans(e)
      BY <2>1, <2>2, <2>3, <3>1, EnterWaitGoes
    <3> HIDE DEF e
    <3>3. Goes(rt, e)
      BY <2>2, <3>2, GoesCompose DEF Goes, Keen
    <3> QED
      BY <2>1, <2>5, <3>3, GoesMoves
  <2> QED
    BY <2>1, <2>4, <2>5
<1> QED
  BY <1>2, <1>3, <1>4, <1>5, <1>6

LEMMA ResumeMoves ==
  ASSUME WorkInv, Good(rt'), OnTheMove, nextId \in Nat \ {0}, ResumeGoal
  PROVE  OnTheMove'
<1> DEFINE quiet == Quiet(rt)
           goal == [quiet.goal EXCEPT !.id = nextId, !.status = "active", !.reset = TRUE]
           s == [quiet EXCEPT !.stale = FALSE, !.owner = "goal", !.goal = goal]
           t == [quiet EXCEPT !.stale = TRUE]
           p == Persist(s)
           u == Persist(t)
<1>1. Good(rt) /\ Typed(rt) /\ WellKept(rt.goal) /\ ~Active(rt) /\ nextId \in 1 .. MaxGoals
  BY OwnsIt, GoalRunAssumption DEF WorkInv, ResumeGoal, CanResume, Stopped, Active
<1>2. /\ Typed(quiet) /\ Quieted(rt, quiet) /\ quiet.delivery = 0 /\ quiet.goal = rt.goal
  BY <1>1, QuietQuiets, QuietCalms DEF Calmed
<1>3. /\ phase' = phase
      /\ \/ rt' = ReleaseWorkflow(rt) /\ lull' = (lull /\ Owns(rt'))
         \/ rt' = Send(Persist([quiet EXCEPT
                       !.stale = FALSE, !.owner = "goal", !.goal.id = nextId,
                       !.goal.status = "active", !.goal.reset = TRUE]), nextId, TRUE)
         \/ rt' = ReleaseWorkflow(u)
  BY DEF ResumeGoal, Asks
<1> HIDE DEF quiet
<1>4. CASE rt' = ReleaseWorkflow(rt) /\ lull' = (lull /\ Owns(rt'))
  BY <1>1, <1>3, <1>4, AlikeFields, AlikeGoes, GoesMoves
<1>5. CASE rt' = Send(Persist([quiet EXCEPT
                       !.stale = FALSE, !.owner = "goal", !.goal.id = nextId,
                       !.goal.status = "active", !.goal.reset = TRUE]), nextId, TRUE)
  <2>1. WellKept(goal) /\ goal.id = nextId /\ goal.waiting = "no"
    <3>1. nextId \in 0 .. MaxGoals /\ nextId # 0
      BY <1>1, GoalRunAssumption
    <3>2. quiet.goal \in Goals /\ quiet.goal.waiting = "no"
      BY <1>1, <1>2 DEF WellKept, Active
    <3>3. goal \in Goals /\ goal.id = nextId /\ goal.status = "active" /\ goal.waiting = "no"
      BY <3>1, <3>2 DEF Goals, Statuses
    <3> HIDE DEF goal
    <3> QED
      BY <3>1, <3>3 DEF WellKept
  <2>2. rt' = Send(p, nextId, TRUE)
    <3>1. s = [quiet EXCEPT
                       !.stale = FALSE, !.owner = "goal", !.goal.id = nextId,
                       !.goal.status = "active", !.goal.reset = TRUE]
      BY <1>2 DEF Typed
    <3> QED
      BY <1>5, <3>1
  <2> HIDE DEF goal
  <2>3. /\ Typed(s) /\ s.goal = goal /\ s.queue = quiet.queue /\ s.run = quiet.run
        /\ s.delivery = quiet.delivery
    BY <1>2, <2>1 DEF Typed
  <2> HIDE DEF s
  <2>4. /\ Typed(p) /\ p.goal = goal /\ p.queue = quiet.queue /\ p.run = quiet.run
        /\ p.delivery = quiet.delivery
    BY <2>3, PersistGood DEF Persist, Typed
  <2> HIDE DEF p
  <2>5. MovesAt(Send(p, p.goal.id, TRUE), phase, lull')
    BY <1>2, <2>1, <2>4, TakesOver DEF OnTheMove
  <2> QED
    BY <1>3, <2>1, <2>2, <2>4, <2>5 DEF OnTheMove
<1>6. CASE rt' = ReleaseWorkflow(u)
  <2>1. Typed(t) /\ t.goal = rt.goal /\ t.queue = quiet.queue /\ t.run = quiet.run
    BY <1>2 DEF Typed
  <2> HIDE DEF t
  <2>2. Typed(u) /\ u.goal = rt.goal /\ u.queue = quiet.queue /\ u.run = quiet.run
    BY <2>1, PersistGood DEF Persist, Typed
  <2> HIDE DEF u
  <2>3. Alike(u, rt')
    BY <1>6, <2>2, AlikeFields
  <2>4. ~Active(rt') /\ rt'.queue = quiet.queue /\ rt'.run.id = quiet.run.id
    BY <1>1, <2>2, <2>3 DEF Alike, Active
  <2>5. Quieted(rt, rt')
    BY <1>2, <2>4, QuietedBy
  <2> QED
    BY <1>3, <2>4, <2>5, QuietedMoves
<1> QED
  BY <1>3, <1>4, <1>5, <1>6

LEMMA EditedQuiets ==
  ASSUME Good(rt), rt.goal # NoGoal, nextId \in 0 .. MaxGoals, NEW budget
  PROVE  LET e == Edited(budget) IN
         Quieted(rt, e) /\ e.delivery = 0 /\ e.goal.id = nextId /\ e.goal.waiting = "no"
<1> DEFINE recorded == RecordUsage(rt)
           quiet == Quiet(recorded)
           spent == budget = "lowered" \/ (budget = "kept" /\ recorded.goal.spent)
           next == [recorded.goal EXCEPT !.id = nextId, !.waiting = "no", !.spent = spent]
           status == EditedStatus(next)
           x == IF budget = "kept" THEN quiet.exhausted ELSE spent
           o == IF status = "active" THEN "goal" ELSE quiet.owner
           goal == [next EXCEPT !.status = status, !.reset = @ \/ status = "active"]
           s == [quiet EXCEPT !.exhausted = x, !.stale = status # "active", !.owner = o,
                              !.goal = goal]
           e == Edited(budget)
<1> SUFFICES Quieted(rt, e) /\ e.delivery = 0 /\ e.goal.id = nextId /\ e.goal.waiting = "no"
  OBVIOUS
<1>1. Typed(recorded) /\ recorded.goal \in Goals /\ Alike(rt, recorded)
  BY RecordGood, AlikeFields DEF Good, Typed, WellKept
<1>2. e = Persist([quiet EXCEPT
            !.exhausted = IF budget = "kept" THEN @ ELSE spent,
            !.stale = status # "active",
            !.owner = IF status = "active" THEN "goal" ELSE @,
            !.goal = goal])
  BY DEF Edited
<1> HIDE DEF recorded, e
<1>3. Typed(quiet) /\ Quieted(recorded, quiet) /\ quiet.delivery = 0
  BY <1>1, QuietQuiets, QuietCalms DEF Calmed
<1> HIDE DEF quiet
<1>4. next \in [id : {nextId}, status : Statuses, waiting : {"no"}, turns : Nat, repeats : Nat,
                spent : {spent}, reset : BOOLEAN]
  BY <1>1 DEF Goals
<1> HIDE DEF next
<1>5. goal.id = nextId /\ goal.waiting = "no"
  BY <1>4
<1> HIDE DEF goal, status, spent
<1>6. e = Persist(s)
  BY <1>2, <1>3 DEF Typed
<1>7. s.goal = goal /\ s.queue = quiet.queue /\ s.run = quiet.run /\ s.delivery = quiet.delivery
  BY <1>3 DEF Typed
<1>8. s \in [goal : {s.goal}, intent : {s.intent}, delivery : {s.delivery}, timer : {s.timer},
             recovery : {s.recovery}, run : {s.run}, guard : {s.guard}, stale : {s.stale},
             inputs : {s.inputs}, retry : {s.retry}, alarm : {s.alarm}, due : {s.due},
             exhausted : {s.exhausted}, owner : {s.owner}, saved : {s.saved},
             queue : {s.queue}, aborting : {s.aborting}]
  BY <1>3 DEF Typed
<1> HIDE DEF s
<1>9. e.goal = goal /\ e.queue = quiet.queue /\ e.run = quiet.run /\ e.delivery = quiet.delivery
  BY <1>6, <1>7, <1>8 DEF Persist
<1>10. Quieted(recorded, e)
  BY <1>3, <1>9, QuietedBy
<1>11. Quieted(rt, e)
  BY <1>1, <1>10, QuietedBy DEF Alike
<1> QED
  BY <1>3, <1>5, <1>9, <1>11

LEMMA EditMoves ==
  ASSUME WorkInv, Good(rt'), OnTheMove, nextId \in Nat \ {0}, NEW budget, EditGoal(budget)
  PROVE  OnTheMove'
<1> DEFINE e == Edited(budget)
           recorded == RecordUsage(rt)
           quiet == Quiet(recorded)
<1>1. Good(rt) /\ Typed(rt) /\ rt.goal # NoGoal /\ (Active(rt) => rt.goal.status # "none")
  BY OwnsIt DEF WorkInv, EditGoal
<1>2. nextId \in 0 .. MaxGoals /\ nextId # 0
  BY GoalRunAssumption DEF EditGoal
<1>3. Typed(e) /\ Quieted(rt, e) /\ e.delivery = 0 /\ e.goal.id = nextId /\ e.goal.waiting = "no"
  BY <1>1, <1>2, EditedGood, EditedQuiets DEF Keeps, Good
<1>4. /\ phase' = phase
      /\ \/ Active(rt) /\ rt' = PauseForTools(rt, TRUE) /\ lull' = (lull /\ Owns(rt'))
         \/ rt' = rt /\ lull' = (lull /\ Owns(rt'))
         \/ ~Active(e) /\ rt' = ReleaseWorkflow(e)
         \/ rt' = Send(e, nextId, TRUE)
         \/ rt' = RollBack(quiet, recorded.goal) /\ lull' = (TRUE /\ Owns(rt'))
  BY DEF EditGoal, Asks
<1> HIDE DEF e
<1>5. CASE Active(rt) /\ rt' = PauseForTools(rt, TRUE) /\ lull' = (lull /\ Owns(rt'))
  <2>1. Goes(rt, rt')
    BY <1>1, <1>5, StopsQuiet
  <2> QED
    BY <1>4, <1>5, <2>1, GoesMoves
<1>6. CASE rt' = rt /\ lull' = (lull /\ Owns(rt'))
  <2>1. Goes(rt, rt')
    BY <1>1, <1>6, AlikeFields, AlikeGoes
  <2> QED
    BY <1>4, <1>6, <2>1, GoesMoves
<1>7. CASE ~Active(e) /\ rt' = ReleaseWorkflow(e)
  <2>1. Alike(e, rt')
    BY <1>3, <1>7, AlikeFields
  <2>2. Quieted(rt, rt') /\ ~Active(rt')
    BY <1>3, <1>7, <2>1, QuietedBy DEF Alike, Active
  <2> QED
    BY <1>4, <2>2, QuietedMoves
<1>8. CASE rt' = Send(e, nextId, TRUE)
  <2>1. MovesAt(Send(e, e.goal.id, TRUE), phase, lull')
    BY <1>3, TakesOver DEF OnTheMove
  <2> QED
    BY <1>3, <1>4, <1>8, <2>1 DEF OnTheMove
<1>9. CASE rt' = RollBack(quiet, recorded.goal) /\ lull' = (TRUE /\ Owns(rt'))
  <2>1. Typed(recorded) /\ Alike(rt, recorded) /\ WellKept(recorded.goal)
    BY <1>1, RecordGood, AlikeFields DEF Typed
  <2> HIDE DEF recorded
  <2>2. Typed(quiet) /\ Quieted(recorded, quiet)
    BY <2>1, QuietQuiets, QuietCalms DEF Calmed
  <2> HIDE DEF quiet
  <2>3. Quieted(rt, quiet)
    BY <2>1, <2>2, QuietedBy DEF Alike
  <2>4. Quieted(rt, rt') /\ (Active(rt') => Watched(rt'))
    BY <1>9, <2>1, <2>2, <2>3, RollBackQuiets
  <2>5. Active(rt') => lull'
    BY <1>9, OwnsIt
  <2> QED
    BY <1>4, <2>4, <2>5, QuietedMoves
<1> QED
  BY <1>4, <1>5, <1>6, <1>7, <1>8, <1>9

\* A step that leaves lull alone goes on in its phase; a run that begins is one that stays.
LEMMA GoesKeeps ==
  ASSUME OnTheMove, Goes(rt, rt'), phase' = phase, lull' = lull
  PROVE  OnTheMove'
<1>1. MovesAt(rt', phase, lull)
  BY GoesOn DEF OnTheMove
<1> QED
  BY <1>1 DEF OnTheMove

LEMMA RunMoves ==
  ASSUME NEW r, NEW s, NEW p, NEW q, NEW l, MovesAt(r, p, l), Sticks(r, s), Working(q),
         Active(s) => l \/ Stays(s) \/ Pending(s)
  PROVE  MovesAt(s, q, l)
<1>1. ~Between(q)
  BY DEF Working, Between
<1>2. /\ Mailed(s)
      /\ Active(s) => (Delivers(s) \/ l) /\ Timely(s)
  BY DEF MovesAt, Sticks
<1> QED
  BY <1>1, <1>2 DEF MovesAt

LEMMA InputMoves ==
  ASSUME WorkInv, OnTheMove, Input
  PROVE  OnTheMove'
<1> DEFINE i == FirstAt("sent")
           m == rt.queue[i]
<1>1. /\ Good(rt) /\ i \in DOMAIN rt.queue /\ m.at = "sent" /\ lull' = lull
      /\ phase \notin {"starting", "compact_manual"} /\ Mailed(rt)
  BY FirstIs DEF WorkInv, Good, Input, history, OnTheMove, MovesAt
<1>2. \/ Dropped(m) /\ rt' = Dequeue(rt, i) /\ phase' = phase
      \/ ~Dropped(m) /\ rt' = [rt EXCEPT !.queue[i].at = "starting"]
         /\ phase = "idle" /\ phase' = "starting"
      \/ ~Dropped(m) /\ rt' = [rt EXCEPT !.queue[i].at = "queued"]
         /\ phase # "idle" /\ phase' = phase
  BY DEF Input
<1> HIDE DEF i
<1>3. (m.kind = "cont") <=> (m.mark \in {"live", "cancelled"})
  BY <1>1 DEF Mailed, WellMarked
<1>4. m.mark = "live" => m.id = rt.goal.id
  BY <1>1 DEF Mailed
<1>5. CASE Dropped(m) /\ rt' = Dequeue(rt, i) /\ phase' = phase
  <2>1. m.mark # "live" /\ (m.kind = "goal" /\ m.id = rt.goal.id => ~Active(rt))
    BY <1>3, <1>5 DEF Dropped
  <2>2. /\ rt'.goal = rt.goal /\ rt'.run = rt.run /\ rt'.recovery = rt.recovery
        /\ rt'.intent = rt.intent /\ rt'.delivery = rt.delivery
        /\ rt'.alarm = rt.alarm /\ rt'.retry = rt.retry /\ rt'.due = rt.due
        /\ (Mailed(rt) => Mailed(rt')) /\ (Queued(rt') => Queued(rt))
        /\ (Queued(rt) => Queued(rt') \/ m.at = "queued")
        /\ Live(rt) => Live(rt') \/ m.mark = "live"
        /\ Pending(rt) => Pending(rt') \/ (m.kind = "goal" /\ m.id = rt.goal.id /\ m.at # "starting")
        /\ Prepared(rt) => Prepared(rt')
              \/ (m.at = "starting" /\ (m.kind \in {"goal", "cont"} => m.id = rt.goal.id))
    BY <1>1, <1>5, DequeueLeaves
  <2> HIDE DEF m
  <2>3. /\ Queued(rt') <=> Queued(rt)
        /\ Active(rt') <=> Active(rt)
        /\ Active(rt) => (Pending(rt) => Pending(rt'))
        /\ Prepared(rt) => Prepared(rt')
    BY <1>1, <2>1, <2>2 DEF Active
  <2>4. /\ (Watched(rt) => Watched(rt')) /\ (Timely(rt) => Timely(rt'))
        /\ (Delivers(rt) => Delivers(rt'))
        /\ (Plans(rt) => Plans(rt')) /\ (Recovers(rt) => Recovers(rt'))
    BY <2>1, <2>2 DEF Watched, Timely, Delivers, Plans, Waits, Recovers
  <2>5. Goes(rt, rt')
    BY <2>2, <2>3, <2>4 DEF Goes, Carries, Sticks, Keen
  <2> QED
    BY <1>1, <1>5, <2>5, GoesKeeps
<1>6. ASSUME NEW at \in {"starting", "queued"}, ~Dropped(m), rt' = [rt EXCEPT !.queue[i].at = at]
      PROVE  /\ Mailed(rt') /\ (Delivers(rt) => Delivers(rt'))
             /\ rt'.goal = rt.goal /\ rt'.run = rt.run /\ (Active(rt') <=> Active(rt))
             /\ (Watched(rt) => Watched(rt')) /\ (Timely(rt) => Timely(rt'))
             /\ at = "starting" => Prepared(rt') /\ (Queued(rt') => Queued(rt))
             /\ at = "queued" => Queued(rt') /\ (Pending(rt) => Pending(rt'))
  <2> DEFINE n == [m EXCEPT !.at = at]
             q == [rt.queue EXCEPT ![i] = n]
  <2>1. rt.queue \in Seq(Mails) /\ m \in Mails
    BY <1>1 DEF Good, Typed
  <2>2. n.at = at /\ n.mark = m.mark /\ n.kind = m.kind /\ n.id = m.id
    BY <2>1 DEF Mails
  <2> HIDE DEF n
  <2>3. DOMAIN q = DOMAIN rt.queue /\ q[i] = n /\ \A j \in DOMAIN rt.queue : j # i => q[j] = rt.queue[j]
    BY <1>1, <2>1
  <2>4. rt' = [rt EXCEPT !.queue = q]
    BY <1>1, <1>6 DEF Good, Typed, n
  <2> HIDE DEF q
  <2>5. /\ rt'.goal = rt.goal /\ rt'.run = rt.run /\ rt'.queue = q
        /\ rt'.delivery = rt.delivery
        /\ rt'.alarm = rt.alarm /\ rt'.retry = rt.retry /\ rt'.due = rt.due
    BY <1>1, <2>4 DEF Good, Typed
  <2>6. \A j \in DOMAIN q : /\ q[j].mark = rt.queue[j].mark /\ q[j].kind = rt.queue[j].kind
                            /\ q[j].id = rt.queue[j].id
    BY <2>2, <2>3
  <2>7. Mailed(rt') /\ (Live(rt) => Live(rt'))
    BY <1>1, <2>3, <2>5, <2>6 DEF Mailed, WellMarked, Live
  <2>8. m.kind \in {"goal", "cont"} => m.id = rt.goal.id
    BY <1>3, <1>4, <1>6 DEF Dropped
  <2>9. at = "starting" => Prepared(rt') /\ (Queued(rt') => Queued(rt))
    BY <1>1, <2>2, <2>3, <2>5, <2>8 DEF Prepared, Queued
  <2>10. at = "queued" => Queued(rt') /\ (Pending(rt) => Pending(rt'))
    BY <1>1, <2>2, <2>3, <2>5, <2>6 DEF Pending, Queued
  <2> QED
    BY <2>5, <2>7, <2>9, <2>10 DEF Active, Watched, Timely, Delivers
<1>7. CASE ~Dropped(m) /\ rt' = [rt EXCEPT !.queue[i].at = "starting"]
           /\ phase = "idle" /\ phase' = "starting"
  <2>1. /\ Mailed(rt') /\ (Delivers(rt) => Delivers(rt'))
        /\ rt'.run = rt.run /\ (Active(rt') <=> Active(rt))
        /\ (Watched(rt) => Watched(rt')) /\ (Timely(rt) => Timely(rt'))
        /\ Prepared(rt') /\ (Queued(rt') => Queued(rt))
    BY <1>6, <1>7
  <2>2. MovesAt(rt', "starting", lull)
    BY <1>7, <2>1 DEF OnTheMove, MovesAt, Between, Working
  <2> QED
    BY <1>1, <1>7, <2>2 DEF OnTheMove
<1>8. CASE ~Dropped(m) /\ rt' = [rt EXCEPT !.queue[i].at = "queued"]
           /\ phase # "idle" /\ phase' = phase
  <2>1. /\ Mailed(rt') /\ (Delivers(rt) => Delivers(rt')) /\ rt'.goal = rt.goal
        /\ rt'.run = rt.run /\ (Active(rt') <=> Active(rt))
        /\ (Watched(rt) => Watched(rt')) /\ (Timely(rt) => Timely(rt'))
        /\ Queued(rt') /\ (Pending(rt) => Pending(rt'))
    BY <1>6, <1>8
  <2>2. ~Between(phase)
    BY <1>1, <1>8 DEF Between
  <2>3. Stays(rt) => Stays(rt')
    BY <2>1 DEF Stays
  <2>4. MovesAt(rt', phase, lull)
    BY <1>1, <1>8, <2>1, <2>2, <2>3 DEF OnTheMove, MovesAt
  <2> QED
    BY <1>1, <1>8, <2>4 DEF OnTheMove
<1> QED
  BY <1>2, <1>5, <1>7, <1>8

LEMMA OtherIs ==
  ASSUME NEW kind \in Kinds, NEW at \in {"sent", "starting", "queued"}
  PROVE  LET m == Other(kind, at) IN
         /\ m \in Mails /\ m.mark = "none" /\ m.at = at /\ m.kind = kind
         /\ kind \notin {"goal", "cont"}
BY GoalRunAssumption DEF Other, Message, Mails, Kinds

\* A message of somebody else arrives: it begins a run, or waits for the one that works.
LEMMA ArrivalGrows ==
  ASSUME NEW r, Typed(r), NEW kind \in Kinds, NEW at \in {"starting", "queued"},
         NEW s, s.queue = Append(r.queue, Other(kind, at)), s.goal = r.goal, s.run = r.run,
         s.delivery = r.delivery, s.alarm = r.alarm, s.retry = r.retry, s.due = r.due
  PROVE  /\ (Mailed(r) => Mailed(s)) /\ (Active(s) <=> Active(r)) /\ (Pending(r) => Pending(s))
         /\ (Delivers(r) => Delivers(s)) /\ (Stays(r) => Stays(s))
         /\ (Watched(r) => Watched(s)) /\ (Timely(r) => Timely(s))
         /\ (Queued(s) <=> Queued(r) \/ at = "queued")
         /\ (at = "starting" => Prepared(s))
<1> DEFINE m == Other(kind, at)
<1>1. m \in Mails /\ m.mark = "none" /\ m.at = at /\ m.kind \notin {"goal", "cont"}
  BY OtherIs
<1> HIDE DEF m
<1>2. r.queue \in Seq(Mails) /\ s.queue = Append(r.queue, m)
  BY DEF Typed, m
<1>3. /\ Mailed(r) => Mailed(s)
      /\ Active(s) <=> Active(r)
      /\ (Pending(r) => Pending(s)) /\ (Live(r) => Live(s))
      /\ (Watched(r) => Watched(s)) /\ (Timely(r) => Timely(s))
      /\ Queued(s) <=> (Queued(r) \/ at = "queued")
      /\ at = "starting" => Prepared(s)
  BY <1>1, <1>2, AppendGrows
<1>4. (Delivers(r) => Delivers(s)) /\ (Stays(r) => Stays(s))
  BY <1>3 DEF Delivers, Stays
<1> QED
  BY <1>3, <1>4

LEMMA ArrivesMove ==
  ASSUME OnTheMove, phase = "idle" \/ Running, NEW r, Typed(r), Carries(rt, r),
         NEW kind \in Kinds, Arrives(r, kind), Active(rt') => (lull => lull')
  PROVE  OnTheMove'
<1> SUFFICES MovesAt(rt', phase', lull)
  BY Lulled DEF OnTheMove
<1>1. /\ Mailed(r) /\ (Queued(r) <=> Queued(rt)) /\ r.run.id = rt.run.id
      /\ Active(r) => /\ Active(rt) /\ (Delivers(r) \/ lull) /\ Timely(r)
                      /\ (Between(phase) => Watched(r)) /\ (Pending(rt) => Pending(r))
                      /\ (Stays(rt) => Stays(r))
  BY DEF OnTheMove, MovesAt, Carries, Sticks, Stays
<1>2. CASE phase = "idle"
  <2>1. rt' = [r EXCEPT !.queue = Append(@, Other(kind, "starting"))] /\ phase' = "starting"
    BY <1>2 DEF Arrives
  <2>2. /\ rt'.queue = Append(r.queue, Other(kind, "starting")) /\ rt'.goal = r.goal
        /\ rt'.run = r.run /\ rt'.delivery = r.delivery
        /\ rt'.alarm = r.alarm /\ rt'.retry = r.retry /\ rt'.due = r.due
    BY <2>1 DEF Typed
  <2>3. /\ (Mailed(r) => Mailed(rt')) /\ (Active(rt') <=> Active(r))
        /\ (Delivers(r) => Delivers(rt'))
        /\ (Watched(r) => Watched(rt')) /\ (Timely(r) => Timely(rt'))
        /\ (Queued(rt') <=> Queued(r))
        /\ Prepared(rt')
    BY <2>2, ArrivalGrows
  <2> QED
    BY <1>1, <1>2, <2>1, <2>2, <2>3 DEF OnTheMove, MovesAt, Between, Working
<1>3. CASE phase # "idle"
  <2>1. /\ rt' = [r EXCEPT !.queue = Append(@, Other(kind, "queued")), !.inputs = Append(@, kind)]
        /\ phase' = phase
    BY <1>3 DEF Arrives
  <2>2. /\ rt'.queue = Append(r.queue, Other(kind, "queued")) /\ rt'.goal = r.goal
        /\ rt'.run = r.run /\ rt'.delivery = r.delivery
        /\ rt'.alarm = r.alarm /\ rt'.retry = r.retry /\ rt'.due = r.due
    BY <2>1 DEF Typed
  <2>3. /\ (Mailed(r) => Mailed(rt')) /\ (Active(rt') <=> Active(r)) /\ (Pending(r) => Pending(rt'))
        /\ (Delivers(r) => Delivers(rt')) /\ (Stays(r) => Stays(rt'))
        /\ (Timely(r) => Timely(rt'))
        /\ Queued(rt')
    BY <2>2, ArrivalGrows
  <2>4. ~Between(phase) /\ phase \notin {"idle", "starting", "compact_manual"}
    BY <1>3 DEF Running, Between
  <2> QED
    BY <1>1, <2>1, <2>2, <2>3, <2>4 DEF OnTheMove, MovesAt
<1> QED
  BY <1>2, <1>3

LEMMA OutsideMoves ==
  ASSUME WorkInv, Good(rt'), OnTheMove, Outside
  PROVE  OnTheMove'
<1>1. Good(rt) /\ Typed(rt)
  BY DEF WorkInv, Good
<1>2. Messages \subseteq Kinds /\ "ext" \in Kinds /\ "custom" \in Kinds
  BY GoalRunAssumption DEF Kinds
<1> DEFINE c == ClearGoalWait(rt)
           d == [c EXCEPT !.recovery = NoRecovery]
           e == [d EXCEPT !.stale = FALSE]
           x == [c EXCEPT !.recovery = NoRecovery, !.stale = FALSE]
<1>3. /\ Typed(c) /\ Carries(rt, c) /\ Typed(d) /\ Carries(rt, d)
      /\ Typed(ResetEpoch(x)) /\ Carries(rt, ResetEpoch(x))
  <2>1. Keeps(rt, c) /\ Typed(c) /\ Carries(rt, c)
    BY <1>1, ClearWaitGood, ClearWaitFollows DEF Keeps, Good
  <2> HIDE DEF c
  <2>2. Typed(d) /\ Keeps(c, d)
    BY <2>1, AsideFields, AsideKeeps DEF Keeps, Good
  <2>3. x = e
    BY <2>1 DEF Typed
  <2>4. Akin(c, d) /\ d.run = c.run
    BY <2>1 DEF Akin, Typed
  <2> HIDE DEF d
  <2>5. Typed(e) /\ Alike(d, e) /\ Keeps(d, e)
    BY <2>2, AsideFields, AsideKeeps, AlikeFields DEF Keeps, Good
  <2> HIDE DEF e, x
  <2>6. Typed(ResetEpoch(e)) /\ Alike(e, ResetEpoch(e))
    BY <2>5, ResetGood, ResetAlike DEF Keeps, Good
  <2>7. Carries(c, d)
    BY <2>4, AkinSticks DEF Carries
  <2>8. Carries(d, e) /\ Carries(e, ResetEpoch(e))
    BY <2>5, <2>6, AlikeGoes, GoesCompose
  <2>9. Carries(rt, d) /\ Carries(rt, ResetEpoch(e))
    BY <2>1, <2>7, <2>8, GoesCompose
  <2> QED
    BY <2>1, <2>2, <2>3, <2>6, <2>9
<1>4. CASE ExtInput
  <2>1. Arrives(d, "ext") /\ (phase = "idle" \/ Running) /\ lull' = lull
    BY <1>4 DEF ExtInput
  <2> HIDE DEF d
  <2> QED
    BY <1>2, <1>3, <2>1, ArrivesMove
<1>5. ASSUME NEW kind \in {"user", "steer", "follow"}, UserInput(kind) PROVE OnTheMove'
  <2>1. kind \in Kinds /\ (phase = "idle" \/ Running)
        /\ (Arrives(c, kind) \/ Arrives(ResetEpoch(x), kind))
        /\ (lull' = lull \/ lull' = (lull /\ Owns(rt')))
    BY <1>2, <1>5 DEF UserInput, Asks, history
  <2>2. Active(rt') => (lull => lull')
    BY <2>1, OwnsIt
  <2> HIDE DEF c, x
  <2> QED
    BY <1>3, <2>1, <2>2, ArrivesMove
<1>6. CASE CustomMessage
  <2>1. CASE phase = "idle" /\ phase' = "model" /\ rt' = StartCustomMessage(AgentStart(rt))
             /\ lull' = lull
    <3> DEFINE a == AgentStart(rt)
    <3>1. Good(a) /\ Begins(rt, a)
      BY <1>1, AgentStartGood, AgentStartBegins DEF Keeps
    <3> HIDE DEF a
    <3>2. Begins(a, rt') /\ Stays(rt')
      BY <2>1, <3>1, CustomBegins DEF a
    <3>3. Sticks(rt, rt')
      BY <3>1, <3>2, BeginsComposes
    <3>4. Working("model")
      BY DEF Working
    <3>5. MovesAt(rt', "model", lull)
      BY <3>2, <3>3, <3>4, RunMoves DEF OnTheMove
    <3> QED
      BY <2>1, <3>5 DEF OnTheMove
  <2>2. CASE Running /\ rt' = [rt EXCEPT !.queue = Append(@, Other("custom", "queued"))]
             /\ phase' = phase /\ lull' = lull
    <3>1. /\ rt'.queue = Append(rt.queue, Other("custom", "queued")) /\ rt'.goal = rt.goal
          /\ rt'.run = rt.run /\ rt'.delivery = rt.delivery
          /\ rt'.alarm = rt.alarm /\ rt'.retry = rt.retry /\ rt'.due = rt.due
      BY <1>1, <2>2 DEF Typed
    <3>2. /\ (Mailed(rt) => Mailed(rt')) /\ (Active(rt') <=> Active(rt))
          /\ (Pending(rt) => Pending(rt')) /\ (Stays(rt) => Stays(rt'))
          /\ (Delivers(rt) => Delivers(rt'))
          /\ (Timely(rt) => Timely(rt'))
          /\ Queued(rt')
      BY <1>1, <1>2, <3>1, ArrivalGrows
    <3>3. ~Between(phase) /\ phase \notin {"idle", "starting", "compact_manual"}
      BY <2>2 DEF Running, Between
    <3> QED
      BY <2>2, <3>1, <3>2, <3>3 DEF OnTheMove, MovesAt
  <2> QED
    BY <1>6, <2>1, <2>2 DEF CustomMessage, history
<1>7. CASE UserAborts
  <2>1. rt' = Abort(rt) /\ phase' = phase /\ lull' = lull
    BY <1>7 DEF UserAborts, history
  <2> QED
    BY <1>1, <2>1, AlikeFields, AlikeGoes, GoesKeeps
<1>8. CASE OtherWorkflow
  <2>1. /\ rt' = [rt EXCEPT !.owner = IF rt.owner = "none" THEN "other" ELSE "none"]
        /\ phase' = phase /\ lull' = lull
    BY <1>1, <1>8 DEF OtherWorkflow, history, Typed
  <2> QED
    BY <1>1, <2>1, AlikeFields, AlikeGoes, GoesKeeps
<1>9. CASE ToolsChange
  <2>1. rt' = rt /\ phase' = phase /\ lull' = lull
    BY <1>9 DEF ToolsChange, history
  <2> QED
    BY <1>1, <2>1, AlikeFields, AlikeGoes, GoesKeeps
<1> QED
  BY <1>4, <1>5, <1>6, <1>7, <1>8, <1>9 DEF Outside

-----------------------------------------------------------------------------
\* Runs: a prompt is taken from the queue, and the run that takes it stays.
LEMMA WorkingMoves ==
  ASSUME NEW s, NEW q, NEW l, Working(q), Mailed(s),
         Active(s) => (Delivers(s) \/ l) /\ Timely(s) /\ (l \/ Stays(s) \/ Pending(s))
  PROVE  MovesAt(s, q, l)
<1>1. ~Between(q)
  BY DEF Working, Between
<1> QED
  BY <1>1 DEF MovesAt

\* A run goes on.
LEMMA WorksOn ==
  ASSUME NEW r, NEW s, NEW p, NEW q, NEW l, NEW k, MovesAt(r, p, l), Working(p), Working(q),
         Carries(r, s), Active(s) => (l => k)
  PROVE  MovesAt(s, q, k)
<1>1. MovesAt(s, p, l)
  BY GoesOn
<1>2. MovesAt(s, p, k)
  BY <1>1, Lulled
<1>3. p \notin {"idle", "compact_manual", "starting"} /\ ~Ending(p)
  BY DEF Working, Ending
<1> QED
  BY <1>2, <1>3, WorkingMoves DEF MovesAt

\* What is left when a message is taken.
LEMMA TakenLeaves ==
  ASSUME NEW r, Good(r), NEW p, NEW l, MovesAt(r, p, l), NEW i \in DOMAIN r.queue
  PROVE  LET d == Dequeue(r, i)
             m == r.queue[i]
         IN  /\ Mailed(d) /\ d.run = r.run /\ d.goal = r.goal /\ (Active(d) <=> Active(r))
             /\ (Stays(r) => Stays(d))
             /\ Active(d) => (Delivers(d) \/ l \/ m.mark = "live") /\ Timely(d)
             /\ Pending(r) => Pending(d)
                  \/ (m.kind = "goal" /\ m.id = r.goal.id /\ m.at # "starting")
             /\ Prepared(r) => Prepared(d)
                  \/ (m.at = "starting" /\ (m.kind \in {"goal", "cont"} => m.id = r.goal.id))
<1> DEFINE d == Dequeue(r, i)
           m == r.queue[i]
<1>1. /\ d.goal = r.goal /\ d.run = r.run /\ d.delivery = r.delivery
      /\ d.alarm = r.alarm /\ d.retry = r.retry /\ d.due = r.due
      /\ (Mailed(r) => Mailed(d))
      /\ Live(r) => Live(d) \/ m.mark = "live"
      /\ Pending(r) => Pending(d)
           \/ (m.kind = "goal" /\ m.id = r.goal.id /\ m.at # "starting")
      /\ Prepared(r) => Prepared(d)
           \/ (m.at = "starting" /\ (m.kind \in {"goal", "cont"} => m.id = r.goal.id))
  BY DequeueLeaves
<1> HIDE DEF d, m
<1>2. /\ (Active(d) <=> Active(r)) /\ (Stays(r) => Stays(d)) /\ (Timely(r) => Timely(d))
      /\ Delivers(r) => Delivers(d) \/ m.mark = "live"
  BY <1>1 DEF Active, Stays, Timely, Delivers
<1>3. Mailed(r) /\ (Active(r) => (Delivers(r) \/ l) /\ Timely(r))
  BY DEF MovesAt
<1> QED
  BY <1>1, <1>2, <1>3 DEF d, m

LEMMA PromptMoves ==
  ASSUME WorkInv, OnTheMove, PromptStarts
  PROVE  OnTheMove'
<1> DEFINE i == FirstAt("starting")
           m == rt.queue[i]
           d == Dequeue(rt, i)
<1>1. /\ Good(rt) /\ phase = "starting" /\ phase' = "model" /\ rt' = AgentStarts(d, m)
      /\ lull' = lull /\ MovesAt(rt, "starting", lull)
  BY DEF WorkInv, PromptStarts, OnTheMove
<1>2. i \in DOMAIN rt.queue /\ m.at = "starting"
  BY <1>1, FirstIs DEF WorkInv, Starting, Good
<1> HIDE DEF i
<1>3. Starting(rt) \subseteq {i} /\ m \in Mails
  BY <1>1, <1>2 DEF WorkInv, Starting, Good, Typed
<1>4. /\ Good(d) /\ Starting(d) = {}
      /\ m.mark = "live" => \A j \in DOMAIN d.queue : d.queue[j].mark # "live"
  BY <1>1, <1>2, <1>3, DequeueGood
<1>5. /\ Mailed(d) /\ d.goal = rt.goal /\ (Active(d) <=> Active(rt))
      /\ Active(d) => (Delivers(d) \/ lull \/ m.mark = "live") /\ Timely(d)
      /\ Pending(rt) => Pending(d)
           \/ (m.kind = "goal" /\ m.id = rt.goal.id /\ m.at # "starting")
      /\ Prepared(rt) => Prepared(d)
           \/ (m.at = "starting" /\ (m.kind \in {"goal", "cont"} => m.id = rt.goal.id))
  BY <1>1, <1>2, TakenLeaves
<1>6. m.mark = "live" => m.kind = "cont"
  BY <1>1, <1>2 DEF MovesAt, Mailed, WellMarked
<1> HIDE DEF d, m
<1>7. ~Prepared(d)
  BY <1>4 DEF Prepared, Starting
<1>8. /\ Sticks(d, rt')
      /\ Active(rt') => /\ m.mark = "live" => Delivers(rt')
                        /\ (m.kind \in {"goal", "cont"} => m.id = d.goal.id) => Stays(rt')
  BY <1>1, <1>3, <1>4, <1>6, AgentStartsBegin
<1>9. /\ Mailed(rt')
      /\ Active(rt') => /\ Active(d) /\ (Pending(d) => Pending(rt'))
                        /\ (Delivers(d) => Delivers(rt')) /\ (Timely(d) => Timely(rt'))
  BY <1>5, <1>8 DEF Sticks
<1>10. Active(rt') => (Delivers(rt') \/ lull) /\ Timely(rt')
  BY <1>5, <1>8, <1>9
<1>11. Active(rt) => lull \/ Pending(rt) \/ Prepared(rt)
  BY <1>1 DEF MovesAt, Working, Ending
<1>12. Active(rt') => lull \/ Stays(rt') \/ Pending(rt')
  BY <1>2, <1>5, <1>7, <1>8, <1>9, <1>11 DEF m
<1>13. MovesAt(rt', "model", lull)
  BY <1>9, <1>10, <1>12, WorkingMoves DEF Working
<1> QED
  BY <1>1, <1>13 DEF OnTheMove

LEMMA DeliveryMoves ==
  ASSUME WorkInv, OnTheMove, DeliverQueued \/ ContinueQueued
  PROVE  OnTheMove'
<1>1. Good(rt) /\ phase' = "model" /\ Starting(rt) = {}
  BY DEF WorkInv, DeliverQueued, ContinueQueued
<1>2. PICK i \in DOMAIN rt.queue :
        /\ lull' = (lull \/ rt.queue[i].mark = "live")
        /\ \/ phase = "boundary" /\ rt' = MessageStart(Dequeue(rt, i), rt.queue[i])
           \/ phase = "ended" /\ rt' = MessageStart(AgentStart(Dequeue(rt, i)), rt.queue[i])
  BY DEF DeliverQueued, ContinueQueued, Deliverable, Steers, FollowUps
<1> DEFINE d == Dequeue(rt, i)
           m == rt.queue[i]
           a == AgentStart(d)
<1>3. m \in Mails
  BY <1>1 DEF Good, Typed
<1>4. Good(d)
  BY <1>1, DequeueGood
<1>5. /\ Mailed(d) /\ d.run = rt.run /\ d.goal = rt.goal /\ (Active(d) <=> Active(rt))
      /\ (Stays(rt) => Stays(d))
      /\ Active(d) => (Delivers(d) \/ lull \/ m.mark = "live") /\ Timely(d)
      /\ Pending(rt) => Pending(d)
           \/ (m.kind = "goal" /\ m.id = rt.goal.id /\ m.at # "starting")
  BY <1>1, TakenLeaves DEF OnTheMove
<1>6. /\ lull' = (lull \/ m.mark = "live")
      /\ \/ phase = "boundary" /\ rt' = MessageStart(d, m)
         \/ phase = "ended" /\ rt' = MessageStart(a, m)
  BY <1>2
<1> HIDE DEF m, d
<1>7. Good(a) /\ Begins(d, a) /\ (d.run.id = Unowned => Stays(a))
  BY <1>4, AgentStartGood, AgentStartBegins DEF Keeps
<1> HIDE DEF a
<1>8. ASSUME Sticks(d, rt'), Active(rt') => lull \/ Stays(rt') \/ Pending(rt') PROVE OnTheMove'
  <2>1. /\ Mailed(rt')
        /\ Active(rt') => (Delivers(rt') \/ lull') /\ Timely(rt')
    BY <1>5, <1>6, <1>8 DEF Sticks
  <2>2. Active(rt') => lull' \/ Stays(rt') \/ Pending(rt')
    BY <1>6, <1>8
  <2>3. MovesAt(rt', "model", lull')
    BY <2>1, <2>2, WorkingMoves DEF Working
  <2> QED
    BY <1>1, <2>3 DEF OnTheMove
<1>9. CASE phase = "boundary" /\ rt' = MessageStart(d, m)
  <2>1. Begins(d, rt') /\ (m.kind = "goal" /\ m.id = d.goal.id /\ Active(d) => Stays(rt'))
    BY <1>3, <1>4, <1>9, MessageBegins
  <2>2. Active(rt) => lull \/ Pending(rt) \/ Stays(rt)
    BY <1>9 DEF OnTheMove, MovesAt, Ending
  <2>3. Sticks(d, rt') /\ (Active(rt') => Active(d) /\ (Pending(d) => Pending(rt')))
        /\ (Active(rt') /\ Stays(d) => Stays(rt'))
    BY <2>1 DEF Begins, Sticks
  <2>4. Active(rt') => lull \/ Stays(rt') \/ Pending(rt')
    BY <1>5, <2>1, <2>2, <2>3
  <2> QED
    BY <1>8, <2>3, <2>4
<1>10. CASE phase = "ended" /\ rt' = MessageStart(a, m)
  <2>1. Begins(a, rt')
    BY <1>3, <1>7, <1>10, MessageBegins
  <2>2. rt.run.id = Unowned
    BY <1>10 DEF OnTheMove, MovesAt, Working
  <2>3. Stays(a)
    BY <1>5, <1>7, <2>2
  <2>4. Sticks(d, rt') /\ (Active(rt') => Stays(rt'))
    BY <1>7, <2>1, <2>3, BeginsComposes DEF Begins
  <2> QED
    BY <1>8, <2>4
<1> QED
  BY <1>6, <1>9, <1>10

LEMMA TurnEndsMoves ==
  ASSUME WorkInv, Good(rt'), OnTheMove, Working(phase), NEW r, Good(r), Carries(rt, r),
         NEW stop, TurnEnds(r, stop)
  PROVE  OnTheMove'
<1>1. rt' = RecordTurn(r, stop) /\ phase' = "boundary" /\ lull' = (lull /\ Owns(rt'))
  BY DEF TurnEnds
<1>2. Carries(rt, rt')
  BY <1>1, RecordTurnGoes, GoesCompose
<1>3. (Active(rt') => (lull => lull')) /\ Working("boundary")
  BY <1>1, OwnsIt DEF Working
<1>4. MovesAt(rt', "boundary", lull')
  BY <1>2, <1>3, WorksOn DEF OnTheMove
<1> QED
  BY <1>1, <1>4 DEF OnTheMove

LEMMA RespondMoves ==
  ASSUME WorkInv, Good(rt'), OnTheMove, Respond
  PROVE  OnTheMove'
<1>1. Good(rt) /\ Carries(rt, rt) /\ phase = "model" /\ Working(phase)
  BY OwnsIt, AlikeFields, AlikeGoes, GoesCompose DEF WorkInv, Respond, Working
<1>2. CASE TurnEnds(rt, "aborted")
  BY <1>1, <1>2, TurnEndsMoves
<1>3. ASSUME NEW stop \in Answers, NEW spends \in BOOLEAN, NEW r,
             r = [rt EXCEPT !.exhausted = @ \/ spends],
             \/ rt' = r /\ phase' = "tool" /\ lull' = lull
             \/ TurnEnds(r, stop)
      PROVE  OnTheMove'
  <2> DEFINE b == rt.exhausted \/ spends
  <2>1. b \in BOOLEAN /\ r = [rt EXCEPT !.exhausted = b]
    BY <1>3
  <2> HIDE DEF b
  <2>2. Good(r) /\ Alike(rt, r)
    BY <1>1, <2>1, AsideFields, AsideKeeps, AlikeFields DEF Good, Keeps
  <2>3. Carries(rt, r)
    BY <2>2, AlikeGoes, GoesCompose
  <2>4. CASE rt' = r /\ phase' = "tool" /\ lull' = lull
    <3>1. Working("tool") /\ MovesAt(rt, phase, lull)
      BY DEF Working, OnTheMove
    <3>2. MovesAt(rt', "tool", lull')
      BY <1>1, <2>3, <2>4, <3>1, WorksOn
    <3> QED
      BY <2>4, <3>2 DEF OnTheMove
  <2>5. CASE TurnEnds(r, stop)
    BY <1>1, <2>2, <2>3, <2>5, TurnEndsMoves
  <2> QED
    BY <1>3, <2>4, <2>5
<1>4. CASE ~TurnEnds(rt, "aborted")
  <2>1. PICK stop \in Answers, spends \in BOOLEAN :
          LET r == [rt EXCEPT !.exhausted = @ \/ spends] IN
          (rt' = r /\ phase' = "tool" /\ lull' = lull) \/ TurnEnds(r, stop)
    BY <1>4 DEF Respond
  <2> DEFINE r == [rt EXCEPT !.exhausted = @ \/ spends]
  <2>2. (rt' = r /\ phase' = "tool" /\ lull' = lull) \/ TurnEnds(r, stop)
    BY <2>1
  <2>3. r = [rt EXCEPT !.exhausted = @ \/ spends]
    OBVIOUS
  <2> HIDE DEF r
  <2> QED
    BY <2>2, <2>3, <1>3
<1> QED
  BY <1>2, <1>4

LEMMA CallMoves ==
  ASSUME WorkInv, Good(rt'), OnTheMove, CallTool
  PROVE  OnTheMove'
<1> DEFINE called == rt.run.tool \/ rt.run.auto
           run == [rt.run EXCEPT !.tool = called]
           attempted == [rt EXCEPT !.run = run]
           fresh == [attempted EXCEPT !.stale = FALSE]
           raw == [rt EXCEPT !.run.tool = @ \/ rt.run.auto]
           r == IF rt.stale /\ Stopped(rt) THEN Abort(attempted)
                ELSE ToolEnds(IF ~(rt.stale /\ Stopped(rt)) /\ Accepts(fresh)
                              THEN Execute(fresh) ELSE fresh)
<1>1. Good(rt) /\ Working(phase)
  BY DEF WorkInv, CallTool, Working
<1>2. run \in Runs /\ run.id = rt.run.id
  BY <1>1 DEF Good, Typed, Runs
<1>3. TurnEnds(r, "tool")
  <2>1. raw = attempted
    BY <1>1 DEF Good, Typed
  <2> DEFINE tf == [raw EXCEPT !.stale = FALSE]
  <2>2. TurnEnds(IF rt.stale /\ Stopped(rt) THEN Abort(raw)
                 ELSE ToolEnds(IF ~(rt.stale /\ Stopped(rt)) /\ Accepts(tf)
                               THEN Execute(tf) ELSE tf), "tool")
    BY DEF CallTool
  <2> HIDE DEF raw, attempted
  <2> QED
    BY <2>1, <2>2
<1> HIDE DEF run
<1>4. Good(attempted) /\ Carries(rt, attempted)
  <2>1. Aside(rt, attempted) /\ Alike(rt, attempted)
    BY <1>1, <1>2 DEF Aside, Good, Typed, Rests, Alike
  <2> HIDE DEF attempted
  <2> QED
    BY <1>1, <2>1, AsideKeeps, AlikeGoes, GoesCompose DEF Keeps
<1>5. /\ Good(Abort(attempted)) /\ Good(fresh)
      /\ Carries(attempted, Abort(attempted)) /\ Carries(attempted, fresh)
  <2>1. Typed(attempted)
    BY <1>4 DEF Good
  <2> HIDE DEF attempted
  <2>2. Good(Abort(attempted)) /\ Good(fresh)
    BY <1>4, <2>1, AsideFields, AsideKeeps DEF Keeps
  <2>3. Alike(attempted, Abort(attempted)) /\ Alike(attempted, fresh)
    BY <2>1, AlikeFields
  <2> HIDE DEF fresh
  <2> QED
    BY <2>2, <2>3, AlikeGoes, GoesCompose
<1> HIDE DEF attempted, fresh
<1>6. Accepts(fresh) => Good(Execute(fresh)) /\ Carries(fresh, Execute(fresh))
  BY <1>5, ExecuteGood, ExecuteGoes, GoesCompose DEF Accepts, Keeps
<1>7. Good(r) /\ Carries(rt, r)
  <2>1. Good(ToolEnds(fresh)) /\ Carries(fresh, ToolEnds(fresh))
    BY <1>5, ToolGood, ToolGoes, GoesCompose DEF Keeps
  <2>2. Accepts(fresh) => /\ Good(ToolEnds(Execute(fresh)))
                          /\ Carries(Execute(fresh), ToolEnds(Execute(fresh)))
    BY <1>6, ToolGood, ToolGoes, GoesCompose DEF Keeps
  <2>3. /\ Carries(rt, Abort(attempted)) /\ Carries(rt, ToolEnds(fresh))
        /\ (Accepts(fresh) => Carries(rt, ToolEnds(Execute(fresh))))
    BY <1>4, <1>5, <1>6, <2>1, <2>2, GoesCompose
  <2>4. Good(r)
    BY <1>5, <2>1, <2>2, Zenon
  <2>5. Carries(rt, r)
    BY <2>3, Zenon
  <2> QED
    BY <2>4, <2>5
<1> HIDE DEF r
<1> QED
  BY <1>1, <1>3, <1>7, TurnEndsMoves

LEMMA EndMoves ==
  ASSUME WorkInv, Good(rt'), OnTheMove, AgentEnd
  PROVE  OnTheMove'
<1>1. /\ Good(rt) /\ phase = "boundary" /\ phase' = "ended" /\ rt.run \in Runs
      /\ lull' = (Owns(rt') /\ rt'.intent = 0 /\ (lull \/ rt.run.id = Foreign))
  BY DEF WorkInv, AgentEnd, Good, Typed
<1>2. PICK same \in BOOLEAN :
        rt' = [RunEnds([rt EXCEPT !.run = NoRun], rt.run, same) EXCEPT !.aborting = FALSE]
  BY DEF AgentEnd
<1> DEFINE r == [rt EXCEPT !.run = NoRun]
           e == RunEnds(r, rt.run, same)
<1>3. Good(r) /\ Akin(rt, r) /\ r.run.id = Unowned
  <2>1. Keeps(rt, r)
    BY <1>1, AsideFields, AsideKeeps DEF Good
  <2>2. Akin(rt, r) /\ r.run.id = Unowned
    BY <1>1 DEF Akin, Good, Typed, NoRun
  <2> QED
    BY <2>1, <2>2 DEF Keeps
<1> HIDE DEF r
<1>4. /\ Good(e) /\ Carries(r, e)
      /\ Active(e) => Plans(e) \/ Recovers(e) \/ rt.run.id \notin {Unowned, r.goal.id}
  BY <1>1, <1>3, RunEndsGood, RunEndsGoes DEF Moved
<1> HIDE DEF e
<1>5. Alike(e, rt')
  BY <1>2, <1>4, AlikeFields DEF Good, r, e
<1>6. /\ Sticks(rt, rt') /\ rt'.run.id = Unowned
      /\ Active(rt') => Plans(rt') \/ Recovers(rt') \/ rt.run.id \notin {Unowned, rt.goal.id}
  <2>1. Sticks(rt, r) /\ Sticks(r, e) /\ Sticks(e, rt')
    BY <1>3, <1>4, <1>5, AkinSticks, AlikeGoes, GoesCompose
  <2>2. Sticks(rt, rt')
    BY <2>1, GoesCompose
  <2>3. rt'.run.id = Unowned
    BY <1>3, <1>4, <1>5 DEF Carries, Alike
  <2>4. /\ Active(rt') <=> Active(e)
        /\ Plans(e) => Plans(rt')
        /\ Recovers(e) => Recovers(rt')
    BY <1>5, AlikeGoes DEF Alike, Plans, Recovers
  <2>5. r.goal.id = rt.goal.id
    BY <1>3 DEF Akin
  <2> QED
    BY <1>4, <2>2, <2>3, <2>4, <2>5
<1>7. MovesAt(rt', "ended", lull')
  <2>1. MovesAt(rt, "boundary", lull)
    BY <1>1 DEF OnTheMove
  <2>2. Mailed(rt') /\ (Active(rt') => Active(rt) /\ Timely(rt'))
    BY <1>6, <2>1 DEF MovesAt, Sticks
  <2>3. Active(rt') /\ (lull \/ rt.run.id = Foreign) => lull' \/ rt'.intent # 0
    BY <1>1, OwnsIt
  <2>4. Active(rt') => Delivers(rt') \/ lull'
    <3>1. rt'.intent # 0 => rt'.delivery = 0
      BY DEF Good, Owned
    <3>2. Active(rt') => Delivers(rt') \/ lull
      BY <1>6, <2>1 DEF MovesAt, Sticks
    <3> QED
      BY <2>3, <3>1, <3>2 DEF Delivers
  <2>5. Active(rt') => lull \/ Pending(rt') \/ Stays(rt)
    BY <1>6, <2>1 DEF MovesAt, Sticks, Ending
  <2>6. Active(rt') => lull' \/ Pending(rt') \/ Plans(rt') \/ Recovers(rt')
    BY <1>6, <2>3, <2>5 DEF Stays, Plans
  <2> QED
    BY <1>6, <2>2, <2>4, <2>6 DEF MovesAt, Between, Working, Ending
<1> QED
  BY <1>1, <1>7 DEF OnTheMove

LEMMA RetryMoves ==
  ASSUME WorkInv, OnTheMove, Retry \/ NextTurn
  PROVE  OnTheMove'
<1>1. Good(rt) /\ lull' = lull
  BY DEF WorkInv, Retry, NextTurn, history
<1>2. CASE Retry
  <2>1. phase = "ended" /\ phase' = "model" /\ rt' = AgentStart(rt)
    BY <1>2 DEF Retry
  <2>2. rt.run.id = Unowned
    BY <2>1 DEF OnTheMove, MovesAt, Working
  <2>3. Sticks(rt, rt') /\ Stays(rt')
    BY <1>1, <2>1, <2>2, AgentStartBegins, BeginsComposes
  <2>4. MovesAt(rt', "model", lull)
    BY <2>3, RunMoves DEF OnTheMove, Working
  <2> QED
    BY <1>1, <2>1, <2>4 DEF OnTheMove
<1>3. CASE NextTurn
  <2>1. rt' = rt /\ phase = "boundary" /\ phase' = "model"
    BY <1>3 DEF NextTurn
  <2>2. MovesAt(rt, "model", lull)
    BY <2>1 DEF OnTheMove, MovesAt, Between, Working, Ending
  <2> QED
    BY <1>1, <2>1, <2>2 DEF OnTheMove
<1> QED
  BY <1>2, <1>3

LEMMA SettledMoves ==
  ASSUME WorkInv, OnTheMove, AgentSettled
  PROVE  OnTheMove'
<1>1. /\ Good(rt) /\ phase = "ended" /\ phase' = "idle" /\ ~Queued(rt) /\ lull' = lull
      /\ MovesAt(rt, "ended", lull)
  BY DEF WorkInv, AgentSettled, history, OnTheMove
<1> DEFINE f == FinalizeSettledRecovery(rt)
<1>2. PICK way \in Ways("idle") :
        rt' = [IF WaitIsDue(f, way) THEN DispatchDueGoalWait(f, way) ELSE Dispatch(f, way)
               EXCEPT !.guard = 0, !.inputs = <<>>, !.run = NoRun, !.aborting = FALSE]
  BY DEF AgentSettled
<1>3. way # "busy"
  BY <1>1, <1>2 DEF Ways
<1> DEFINE due == DispatchDueGoalWait(f, way)
           sent == Dispatch(f, way)
           done == IF WaitIsDue(f, way) THEN due ELSE sent
<1>4. rt' = [done EXCEPT !.guard = 0, !.inputs = <<>>, !.run = NoRun, !.aborting = FALSE]
  BY <1>2
<1>5. Good(f) /\ Goes(rt, f) /\ (Active(f) => ~Recovers(f))
  BY <1>1, FinalizeGood, FinalizeGoes DEF Keeps
<1> HIDE DEF f
<1>6. MovesAt(f, "ended", lull) /\ ~Queued(f)
  BY <1>1, <1>5, GoesOn DEF Goes, Carries, Sticks
<1>7. Active(f) => lull \/ Pending(f) \/ Plans(f)
  BY <1>5, <1>6 DEF MovesAt, Working
<1>8. /\ Good(done) /\ Goes(f, done)
      /\ Active(done) => Watched(done) /\ (lull \/ Pending(done) \/ Plans(done))
  <2>1. CASE WaitIsDue(f, way)
    <3>1. Good(due) /\ Goes(f, due) /\ (Active(due) => Plans(due) /\ Watched(due))
      BY <1>5, <2>1, DueWaitGood, DueWaitGoes DEF Keeps, WaitIsDue
    <3> HIDE DEF due
    <3> QED
      BY <2>1, <3>1
  <2>2. CASE ~WaitIsDue(f, way)
    <3>1. /\ Good(sent) /\ Goes(f, sent)
          /\ Active(sent) => (Plans(f) => Plans(sent))
      BY <1>5, DispatchGood, DispatchGoes DEF Keeps
    <3> HIDE DEF sent
    <3>2. Active(f) => Watched(f)
      BY <1>3, <1>5, <1>6, <2>2, OwnsIt DEF WaitIsDue, MovesAt, Timely, Watched
    <3>3. Active(sent) => Active(f) /\ (Watched(f) => Watched(sent))
                          /\ (Pending(f) => Pending(sent))
      BY <3>1 DEF Goes, Carries, Sticks
    <3>4. Active(sent) => Watched(sent) /\ (lull \/ Pending(sent) \/ Plans(sent))
      BY <1>7, <3>1, <3>2, <3>3
    <3> QED
      BY <2>2, <3>1, <3>4
  <2> QED
    BY <2>1, <2>2
<1> HIDE DEF done
<1>9. MovesAt(done, "ended", lull) /\ ~Queued(done)
  BY <1>6, <1>8, GoesOn DEF Goes, Carries, Sticks
<1>10. done.run.id = Unowned
  BY <1>9 DEF MovesAt, Working
<1>11. Alike(done, rt')
  BY <1>4, <1>8, <1>10 DEF Alike, Good, Typed, NoRun
<1>12. Goes(done, rt')
  BY <1>11, AlikeGoes
<1>13. MovesAt(rt', "ended", lull) /\ ~Queued(rt')
  BY <1>9, <1>12, GoesOn DEF Goes, Carries, Sticks
<1>14. Active(rt') => Watched(rt') /\ (lull \/ Pending(rt') \/ Plans(rt'))
  BY <1>8, <1>12 DEF Goes, Keen, Carries, Sticks
<1>15. MovesAt(rt', "idle", lull)
  BY <1>13, <1>14 DEF MovesAt, Working
<1> QED
  BY <1>1, <1>15 DEF OnTheMove

LEMMA TimersMove ==
  ASSUME WorkInv, OnTheMove, DispatchTimer \/ DeadlinePasses
  PROVE  OnTheMove'
<1>1. Good(rt) /\ Typed(rt) /\ phase' = phase /\ lull' = lull
  BY DEF WorkInv, Good, DispatchTimer, DeadlinePasses, history
<1>2. CASE DispatchTimer
  <2> DEFINE off == [rt EXCEPT !.timer = FALSE]
  <2>1. PICK way : rt' = Dispatch(off, way)
    BY <1>2 DEF DispatchTimer
  <2>2. Good(off) /\ Alike(rt, off)
    <3>1. /\ Typed(off) /\ off.goal = rt.goal /\ off.saved = rt.saved /\ off.owner = rt.owner
          /\ off.queue = rt.queue /\ off.guard = rt.guard /\ off.inputs = rt.inputs
          /\ off.intent = rt.intent /\ off.delivery = rt.delivery /\ ~off.timer
      BY <1>1 DEF Typed
    <3>2. Alike(rt, off)
      BY <1>1, AlikeFields
    <3> HIDE DEF off
    <3>3. Keeps(rt, off)
      BY <1>1, <3>1, LessWork
    <3> QED
      BY <3>2, <3>3 DEF Keeps
  <2> HIDE DEF off
  <2>3. Goes(rt, rt')
    BY <2>1, <2>2, AlikeGoes, DispatchGoes, GoesCompose
  <2> QED
    BY <1>1, <2>3, GoesKeeps
<1>3. CASE DeadlinePasses
  <2> DEFINE late == [rt EXCEPT !.alarm = FALSE, !.due = TRUE]
  <2>1. PICK way \in Ways(phase) :
          rt' = IF WaitIsDue(late, way) THEN DispatchDueGoalWait(late, way) ELSE late
    BY <1>3 DEF DeadlinePasses
  <2>2. /\ Good(late) /\ late.goal = rt.goal /\ late.queue = rt.queue /\ late.run = rt.run
        /\ late.intent = rt.intent /\ late.delivery = rt.delivery
        /\ late.recovery = rt.recovery /\ late.due = TRUE
    <3>1. Aside(rt, late)
      BY <1>1 DEF Aside, Typed, Rests
    <3>2. /\ late.goal = rt.goal /\ late.queue = rt.queue /\ late.run = rt.run
          /\ late.intent = rt.intent /\ late.delivery = rt.delivery
          /\ late.recovery = rt.recovery /\ late.due = TRUE
      BY <1>1 DEF Typed
    <3> HIDE DEF late
    <3>3. Good(late)
      BY <1>1, <3>1, AsideKeeps DEF Keeps
    <3> QED
      BY <3>2, <3>3
  <2> HIDE DEF late
  <2>3. /\ Mailed(rt) => Mailed(late)
        /\ (Queued(late) <=> Queued(rt)) /\ (Active(late) <=> Active(rt)) /\ Timely(late)
        /\ (Pending(rt) => Pending(late)) /\ (Prepared(rt) => Prepared(late))
        /\ (Delivers(rt) => Delivers(late)) /\ (Stays(rt) => Stays(late))
        /\ (Plans(rt) => Plans(late)) /\ (Recovers(rt) => Recovers(late))
    BY <2>2 DEF Mailed, WellMarked, Queued, Active, Timely, Pending, Prepared, Delivers, Live,
                Stays, Plans, Waits, Recovers
  <2>4. CASE WaitIsDue(late, way)
    <3>1. /\ Goes(late, rt') /\ (Active(rt') => Plans(rt') /\ Watched(rt'))
      BY <2>1, <2>2, <2>4, DueWaitGoes DEF WaitIsDue
    <3>2. /\ Mailed(rt') /\ (Queued(rt') <=> Queued(rt)) /\ rt'.run.id = rt.run.id
          /\ Active(rt') => /\ Active(rt) /\ rt'.goal.id = late.goal.id
                            /\ (Pending(rt) => Pending(rt')) /\ (Prepared(rt) => Prepared(rt'))
                            /\ (Delivers(rt) => Delivers(rt')) /\ Timely(rt')
      BY <2>2, <2>3, <3>1 DEF Goes, Carries, Sticks, OnTheMove, MovesAt
    <3>3. Active(rt') => (Stays(rt) => Stays(rt'))
      BY <2>2, <3>2 DEF Stays
    <3>4. MovesAt(rt', phase, lull)
      BY <3>1, <3>2, <3>3 DEF OnTheMove, MovesAt
    <3> QED
      BY <1>1, <3>4 DEF OnTheMove
  <2>5. CASE ~WaitIsDue(late, way)
    <3>1. rt' = late
      BY <2>1, <2>5
    <3>2. Between(phase) => ~Queued(rt)
      BY DEF OnTheMove, MovesAt
    <3>3. Between(phase) => way # "busy"
      BY <2>1, <3>2 DEF Ways, Between
    <3>4. Active(late) => Owns(late)
      BY <2>2, OwnsIt
    <3>5. Active(late) /\ Between(phase) => Watched(late)
      BY <2>2, <2>5, <3>3, <3>4 DEF WaitIsDue, Watched
    <3>6. MovesAt(late, phase, lull)
      BY <2>2, <2>3, <3>5 DEF OnTheMove, MovesAt
    <3> QED
      BY <1>1, <3>1, <3>6 DEF OnTheMove
  <2> QED
    BY <2>4, <2>5
<1> QED
  BY <1>2, <1>3

\* Phases in which the same goes on.
LEMMA SamePhase ==
  ASSUME NEW r, NEW p, NEW q, NEW l, MovesAt(r, p, l),
         \/ p \in {"idle", "compact_manual"} /\ q \in {"idle", "compact_manual"}
         \/ Ending(p) /\ Ending(q)
  PROVE  MovesAt(r, q, l)
BY DEF MovesAt, Between, Working, Ending

LEMMA CompactBeginMoves ==
  ASSUME WorkInv, OnTheMove, NEW where \in Compacting, CompactBegins(where)
  PROVE  OnTheMove'
<1>1. /\ Good(rt) /\ rt' = BeforeCompact(rt)
      /\ lull' = (lull \/ rt.intent # 0 \/ rt.delivery # 0)
      /\ phase' = phase \/ phase' = where
      /\ \/ phase = "idle" /\ where = "compact_manual"
         \/ phase = "ended" /\ where # "compact_manual"
  BY DEF WorkInv, CompactBegins
<1>2. Carries(rt, rt') /\ (rt.intent = 0 /\ rt.delivery = 0 => Goes(rt, rt'))
  BY <1>1, BeforeCompactGoes
<1>3. MovesAt(rt', phase, lull')
  <2>1. CASE rt.intent = 0 /\ rt.delivery = 0
    <3>1. MovesAt(rt', phase, lull)
      BY <1>2, <2>1, GoesOn DEF OnTheMove
    <3> QED
      BY <1>1, <3>1, Lulled
  <2>2. CASE ~(rt.intent = 0 /\ rt.delivery = 0)
    <3>1. MovesAt(rt, phase, lull')
      BY <1>1, Lulled DEF OnTheMove
    <3> QED
      BY <1>1, <1>2, <2>2, <3>1, GoesOn
  <2> QED
    BY <2>1, <2>2
<1>4. MovesAt(rt', where, lull')
  BY <1>1, <1>3, SamePhase DEF Compacting, Ending
<1> QED
  BY <1>1, <1>3, <1>4 DEF OnTheMove

LEMMA CompactEndMoves ==
  ASSUME WorkInv, OnTheMove, CompactEnds \/ CompactFails
  PROVE  OnTheMove'
<1>1. /\ Good(rt) /\ lull' = lull /\ phase \in Compacting /\ ~Working(phase)
      /\ MovesAt(rt, phase, lull)
  BY DEF WorkInv, CompactEnds, CompactFails, history, Compacting, Working, OnTheMove
<1>2. rt.run.id = Unowned
  BY <1>1 DEF MovesAt
<1>3. CASE CompactEnds
  <2> DEFINE s == SessionCompact(rt)
  <2>1. Good(s) /\ Carries(rt, s) /\ (Active(s) /\ phase # "compact_retry" => Plans(s))
    <3>1. CanRecord(rt)
      BY <1>2 DEF CanRecord
    <3> QED
      BY <1>1, <3>1, SessionCompactGood, SessionCompactGoes DEF Keeps
  <2>2. \/ phase = "compact_retry" /\ rt' = AgentStart(s) /\ phase' = "model"
        \/ phase = "compact_auto" /\ rt' = s /\ phase' = "ended"
        \/ phase = "compact_manual" /\ rt' = s /\ phase' = "idle"
    BY <1>3 DEF CompactEnds, Compacting
  <2> HIDE DEF s
  <2>3. CASE phase = "compact_retry" /\ rt' = AgentStart(s) /\ phase' = "model"
    <3>1. s.run.id = Unowned
      BY <1>2, <2>1 DEF Carries
    <3>2. Begins(s, rt') /\ Stays(rt')
      BY <2>1, <2>3, <3>1, AgentStartBegins
    <3>3. Sticks(rt, s) /\ Sticks(s, rt')
      BY <2>1, <3>2, GoesCompose, BeginsComposes
    <3>4. Sticks(rt, rt')
      BY <3>3, GoesCompose
    <3>5. Working("model")
      BY DEF Working
    <3>6. MovesAt(rt', "model", lull)
      BY <1>1, <3>2, <3>4, <3>5, RunMoves
    <3> QED
      BY <1>1, <2>3, <3>6 DEF OnTheMove
  <2>4. CASE phase = "compact_auto" /\ rt' = s /\ phase' = "ended"
    <3>1. MovesAt(rt', "ended", lull)
      BY <1>1, <2>1, <2>4 DEF MovesAt, Carries, Sticks, Between, Working, Ending
    <3> QED
      BY <1>1, <2>4, <3>1 DEF OnTheMove
  <2>5. CASE phase = "compact_manual" /\ rt' = s /\ phase' = "idle"
    <3>1. MovesAt(rt', "idle", lull)
      BY <1>1, <2>1, <2>5 DEF MovesAt, Carries, Sticks, Between, Working, Ending
    <3> QED
      BY <1>1, <2>5, <3>1 DEF OnTheMove
  <2> QED
    BY <2>2, <2>3, <2>4, <2>5
<1>4. CASE CompactFails
  <2>1. /\ rt' = rt
        /\ \/ phase = "compact_manual" /\ phase' = "idle"
           \/ Ending(phase) /\ phase' = "ended"
    BY <1>4 DEF CompactFails, Compacting, Ending
  <2>2. MovesAt(rt, phase', lull)
    BY <1>1, <2>1, SamePhase DEF Ending
  <2> QED
    BY <1>1, <2>1, <2>2 DEF OnTheMove
<1> QED
  BY <1>3, <1>4

LEMMA SessionsMove ==
  ASSUME WorkInv, Good(rt'), OnTheMove, Reload \/ Crash
  PROVE  OnTheMove'
<1>1. Good(rt) /\ Typed(rt)
  BY DEF WorkInv, Good
<1>2. ASSUME NEW r, Typed(r), SessionStart(r) PROVE OnTheMove'
  <2>1. PICK owner \in {"none", "goal", "other"} :
          rt' = [Restored([r EXCEPT !.owner = owner]) EXCEPT !.aborting = FALSE]
    BY <1>2 DEF SessionStart, Starts
  <2> DEFINE o == [r EXCEPT !.owner = owner]
             s == Restored(o)
  <2>2. Typed(o)
    BY <1>2 DEF Typed
  <2> HIDE DEF o
  <2>3. /\ Typed(s) /\ Mailed(s) /\ ~Queued(s) /\ s.run.id = Unowned
        /\ Active(s) => Watched(s)
    BY <2>2, RestoredGood, RestoredWatches DEF Good
  <2> HIDE DEF s
  <2>4. Alike(s, rt')
    BY <2>1, <2>3, AlikeFields DEF s, o
  <2>5. /\ Mailed(rt') /\ ~Queued(rt') /\ rt'.run.id = Unowned
        /\ Active(rt') => Watched(rt')
    BY <2>3, <2>4, AlikeGoes DEF Goes, Carries, Sticks
  <2>6. phase' = "idle" /\ lull' = Owns(rt')
    BY <1>2 DEF SessionStart
  <2>7. Active(rt') => lull' /\ Timely(rt')
    BY <2>5, <2>6, OwnsIt DEF Watched, Timely
  <2>8. MovesAt(rt', phase', lull')
    BY <2>5, <2>7 DEF MovesAt
  <2> QED
    BY <2>8 DEF OnTheMove
<1>3. CASE Reload
  <2> DEFINE r == IF Active(rt) THEN RecordUsage(rt) ELSE rt
             p == Persist(r)
  <2>1. Typed(r)
    BY <1>1, RecordGood
  <2>2. SessionStart(ReleaseWorkflow(p))
    BY <1>3 DEF Reload
  <2> HIDE DEF r
  <2>3. Typed(p)
    BY <2>1, PersistGood
  <2> HIDE DEF p
  <2> QED
    BY <1>2, <2>2, <2>3, ReleaseTyped
<1>4. CASE Crash
  BY <1>1, <1>2, <1>4, ReleaseTyped DEF Crash
<1> QED
  BY <1>3, <1>4

LEMMA MovesStep == GoalInv /\ OnTheMove /\ [Next]_vars => OnTheMove'
<1> SUFFICES ASSUME GoalInv, OnTheMove, [Next]_vars PROVE OnTheMove'
  OBVIOUS
<1>1. WorkInv /\ Good(rt) /\ nextId \in Nat \ {0}
  BY GoalRunAssumption DEF GoalInv, BesideInv, WorkInv
<1>2. Good(rt')
  BY GoalInvStep DEF GoalInv, WorkInv
<1>3. CASE UserCommand
  <2>1. ASSUME NEW budget, EditGoal(budget) PROVE OnTheMove'
    BY <1>1, <1>2, <2>1, EditMoves
  <2> QED
    BY <1>1, <1>2, <1>3, <2>1, CommandsMove, ResumeMoves DEF UserCommand
<1>4. CASE Outside
  BY <1>1, <1>2, <1>4, OutsideMoves
<1>5. CASE Run
  <2>1. ASSUME NEW where \in Compacting, CompactBegins(where) PROVE OnTheMove'
    BY <1>1, <2>1, CompactBeginMoves
  <2> QED
    BY <1>1, <1>2, <1>5, <2>1, InputMoves, PromptMoves, RespondMoves, CallMoves, DeliveryMoves,
       RetryMoves, EndMoves, SettledMoves, TimersMove, CompactEndMoves DEF Run
<1>6. CASE Reload \/ Crash
  BY <1>1, <1>2, <1>6, SessionsMove
<1>7. CASE UNCHANGED vars
  BY <1>7 DEF vars, OnTheMove
<1> QED
  BY <1>3, <1>4, <1>5, <1>6, <1>7 DEF Next

\* An active goal goes on: when Pi is idle and nothing is on its way, the goal waits, its
\* continuation is sent or is to be sent, or a step that lull names has left it alone; and
\* a wait with a deadline is watched, unless its retry has failed too.
THEOREM GoalsMoveCorrect == Spec => []ActiveGoalsMove
<1>1. Init => OnTheMove
  <2> SUFFICES ASSUME Init PROVE OnTheMove
    OBVIOUS
  <2>1. rt.queue = <<>> /\ rt.run.id = Unowned /\ ~Active(rt)
    BY DEF Init, NoRun, NoGoal, Active
  <2>2. Mailed(rt) /\ ~Queued(rt)
    BY <2>1 DEF Mailed, WellMarked, Queued
  <2> QED
    BY <2>1, <2>2 DEF OnTheMove, MovesAt
<1>2. GoalInv /\ OnTheMove => ActiveGoalsMove
  <2> SUFFICES ASSUME GoalInv, OnTheMove PROVE ActiveGoalsMove
    OBVIOUS
  <2>1. Good(rt) /\ Owned(rt) /\ WellKept(rt.goal)
    BY OwnsIt DEF GoalInv, WorkInv, Good
  <2>2. ASSUME phase = "idle", rt.queue = <<>>, Owns(rt), ~Waits(rt)
        PROVE  rt.intent = rt.goal.id \/ lull
    <3>1. ~Live(rt) /\ ~Pending(rt)
      BY <2>2 DEF Live, Pending
    <3>2. (Delivers(rt) \/ lull) /\ (lull \/ Plans(rt))
      BY <2>2, <3>1 DEF OnTheMove, MovesAt, Owns, Working, Ending
    <3> QED
      BY <2>1, <2>2, <3>1, <3>2 DEF Delivers, Plans, Owned
  <2>3. ASSUME phase = "idle", rt.goal.waiting = "timed" PROVE rt.alarm \/ rt.retry = "exhausted"
    <3>1. Active(rt)
      BY <2>1, <2>3 DEF WellKept, Active
    <3> QED
      BY <2>3, <3>1 DEF OnTheMove, MovesAt, Between, Watched
  <2> QED
    BY <2>2, <2>3 DEF ActiveGoalsMove
<1> QED
  BY <1>1, <1>2, GoalInvInit, GoalInvStep, MovesStep, PTL DEF Spec
=============================================================================

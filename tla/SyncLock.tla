------------------------------ MODULE SyncLock ------------------------------
(***************************************************************************)
(* The lock under which pi-sync works: a guard directory, held for the     *)
(* whole operation and refreshed by its holder, and a lock file that names *)
(* the operation's process and survives a crash.                           *)
(*                                                                         *)
(* Source: withLock and unlock in packages/pi-sync/src/lock.ts.  The guard *)
(* is the library proper-lockfile: who finds it and its holder has not     *)
(* refreshed it for LOCK_GUARD_STALE_MS takes it over; a holder that       *)
(* refreshes it later notices that it was lost.                            *)
(***************************************************************************)
EXTENDS Naturals, FiniteSets

CONSTANTS
    Calls,      \* calls of withLock and of unlock; each is made once
    User,       \* a call of unlock --stale that is made again and again
    Procs,      \* processes, which never come back under the same pid
    ProcOf,     \* the process of each call
    Worlds,     \* the choices of world
    None        \* no call

Modes == {"withLock", "recovery", "unlock", "unlockStale"}

(***************************************************************************)
(* What may happen: the kinds of calls that are made, the processes that   *)
(* may crash, and whether a live process may fail to refresh its guard.    *)
(***************************************************************************)
World == [modes : SUBSET Modes, mortal : SUBSET (Procs \ {ProcOf[User]}), stalls : BOOLEAN]

ASSUME SyncLockAssumption ==
    /\ User \notin Calls /\ None \notin Calls \cup {User}
    /\ \A c \in Calls \cup {User} : ProcOf[c] \in Procs
    /\ Worlds \subseteq World

VARIABLES
    world,      \* it never changes
    alive,      \* the processes that run
    stage, mode, seen,     \* of each call
    guard,      \* the call that holds the guard directory
    compromised,    \* the calls that noticed the loss of their guard
    lock        \* the lock file: the call that created it, and whether its
                \* metadata is complete

locks == <<alive, stage, mode, seen, guard, compromised, lock>>
lockVars == <<world, locks>>

-----------------------------------------------------------------------------
AllCalls == Calls \cup {User}

Missing == [owner |-> None, complete |-> FALSE]

LockFiles == {Missing} \cup [owner : AllCalls, complete : BOOLEAN]

\* After acquireGuard, and before the guard is released.
Guarded == {"inspect", "recheck", "reclaim", "write", "writing", "check", "run",
            "drop", "dropRemove", "release", "reinspect", "remove"}

(***************************************************************************)
(* The types.  The holder of the guard is a call that works, or has died   *)
(* at work: no way out of a call, early return or error, leaves the guard  *)
(* behind; and a call that is over knows of no lost guard.                 *)
(***************************************************************************)
LockTypeOK ==
    /\ world \in Worlds
    /\ alive \subseteq Procs
    /\ stage \in [AllCalls -> {"idle", "acquire", "done"} \cup Guarded]
    /\ mode \in [AllCalls -> Modes]
    /\ seen \in [AllCalls -> LockFiles]
    /\ guard \in AllCalls \cup {None}
    /\ compromised \subseteq AllCalls
    /\ lock \in LockFiles
    /\ guard # None => stage[guard] \in Guarded
    /\ \A c \in compromised : stage[c] \in Guarded

LockInit ==
    /\ world \in Worlds
    /\ alive = Procs
    /\ stage = [c \in AllCalls |-> "idle"]
    /\ mode = [c \in AllCalls |-> "unlock"]
    /\ seen = [c \in AllCalls |-> Missing]
    /\ guard = None
    /\ compromised = {}
    /\ lock = Missing

-----------------------------------------------------------------------------
Alive(c) == ProcOf[c] \in alive

At(c, where) == Alive(c) /\ stage[c] = where

Goto(c, where) == stage' = [stage EXCEPT ![c] = where]

\* isStaleLock: ESRCH for the process of the lock.
IsStale(f) == f.complete /\ ~Alive(f.owner)

Unreadable(f) == f # Missing /\ ~f.complete

\* The end of a call; the user may make the next one.
Over(c) == IF c = User THEN "idle" ELSE "done"

-----------------------------------------------------------------------------
(***************************************************************************)
(* The guard.                                                              *)
(***************************************************************************)
Begin(c, m) ==
    /\ At(c, "idle")
    /\ m \in world.modes
    /\ c = User => m = "unlockStale"
    /\ mode' = [mode EXCEPT ![c] = m]
    /\ Goto(c, "acquire")
    /\ UNCHANGED <<alive, seen, guard, compromised, lock>>

GuardExpired == guard # None /\ (world.stalls \/ ~Alive(guard))

AcquireGuard(c) ==
    /\ At(c, "acquire")
    /\ guard = None \/ (GuardExpired /\ guard # c)
    /\ guard' = c
    /\ compromised' = compromised \ {c}
    /\ Goto(c, "inspect")
    /\ UNCHANGED <<alive, mode, seen, lock>>

\* Mutant: unlock reports that the guard is held, and goes on.
GuardIgnored(c) ==
    /\ At(c, "acquire")
    /\ guard # None
    /\ Goto(c, IF mode[c] = "unlockStale" THEN "inspect" ELSE Over(c))
    /\ UNCHANGED <<alive, mode, seen, guard, compromised, lock>>

\* ELOCKED: a guard that has not expired yet.
GuardHeld(c) ==
    /\ At(c, "acquire")
    /\ guard # None
    /\ Goto(c, Over(c))
    /\ UNCHANGED <<alive, mode, seen, guard, compromised, lock>>

\* A refresh of the guard finds that it is another one, or gone.
NoticeLoss(c) ==
    /\ Alive(c)
    /\ stage[c] \in Guarded /\ guard # c /\ c \notin compromised
    /\ compromised' = compromised \cup {c}
    /\ UNCHANGED <<alive, stage, mode, seen, guard, lock>>

\* The guard directory is removed, whosever it is, unless its loss is known.
ReleaseGuard(c) ==
    /\ At(c, "release")
    /\ guard' = IF c \in compromised THEN guard ELSE None
    /\ compromised' = compromised \ {c}
    /\ Goto(c, Over(c))
    /\ UNCHANGED <<alive, mode, seen, lock>>

-----------------------------------------------------------------------------
(***************************************************************************)
(* withLock.                                                               *)
(***************************************************************************)
IsWithLock(c) == mode[c] \in {"withLock", "recovery"}

\* The first look at the lock file.  Every throw leads to the final drop.
Inspect(c) ==
    /\ At(c, "inspect")
    /\ IsWithLock(c)
    /\ seen' = [seen EXCEPT ![c] = lock]
    /\ Goto(c, IF lock = Missing THEN "write"
               ELSE IF IsStale(lock) /\ mode[c] = "recovery" THEN "recheck"
               ELSE "drop")
    /\ UNCHANGED <<alive, mode, guard, compromised, lock>>

\* The guard must be held, and the same stale lock be there.
Recheck(c) ==
    /\ At(c, "recheck")
    /\ Goto(c, IF c \in compromised \/ lock # seen[c] \/ ~IsStale(lock)
               THEN "drop" ELSE "reclaim")
    /\ seen' = [seen EXCEPT ![c] = Missing]
    /\ UNCHANGED <<alive, mode, guard, compromised, lock>>

Reclaim(c) ==
    /\ At(c, "reclaim")
    /\ lock' = Missing
    /\ Goto(c, "write")
    /\ UNCHANGED <<alive, mode, seen, guard, compromised>>

\* writeFile with the flag wx: the file is created, and then filled.
Create(c) ==
    /\ At(c, "write")
    /\ IF lock = Missing
       THEN lock' = [owner |-> c, complete |-> FALSE] /\ Goto(c, "writing")
       ELSE Goto(c, "drop") /\ UNCHANGED lock
    /\ UNCHANGED <<alive, mode, seen, guard, compromised>>

Fill(c) ==
    /\ At(c, "writing")
    /\ lock' = IF lock.owner = c THEN [lock EXCEPT !.complete = TRUE] ELSE lock
    /\ Goto(c, "check")
    /\ UNCHANGED <<alive, mode, seen, guard, compromised>>

\* The operation runs if the guard is still held, as far as is known.
Run(c) ==
    /\ At(c, "check")
    /\ Goto(c, IF c \in compromised THEN "drop" ELSE "run")
    /\ UNCHANGED <<alive, mode, seen, guard, compromised, lock>>

Finish(c) ==
    /\ At(c, "run")
    /\ Goto(c, "drop")
    /\ UNCHANGED <<alive, mode, seen, guard, compromised, lock>>

\* Only its own lock file is removed at the end.
Drop(c) ==
    /\ At(c, "drop")
    /\ Goto(c, IF lock.owner = c /\ lock.complete THEN "dropRemove" ELSE "release")
    /\ UNCHANGED <<alive, mode, seen, guard, compromised, lock>>

DropRemove(c) ==
    /\ At(c, "dropRemove")
    /\ lock' = Missing
    /\ Goto(c, "release")
    /\ UNCHANGED <<alive, mode, seen, guard, compromised>>

-----------------------------------------------------------------------------
(***************************************************************************)
(* unlock.                                                                 *)
(***************************************************************************)
UnlockInspect(c) ==
    /\ At(c, "inspect")
    /\ ~IsWithLock(c)
    /\ Goto(c, IF IsStale(lock) THEN "remove"
               ELSE IF Unreadable(lock) /\ mode[c] = "unlockStale" THEN "reinspect"
               ELSE "release")
    /\ UNCHANGED <<alive, mode, seen, guard, compromised, lock>>

\* Mutant: what cannot be read is not removed either.
ReinspectStale(c) ==
    /\ At(c, "reinspect")
    /\ Goto(c, IF IsStale(lock) THEN "remove" ELSE "release")
    /\ UNCHANGED <<alive, mode, seen, guard, compromised, lock>>

Reinspect(c) ==
    /\ At(c, "reinspect")
    /\ Goto(c, IF Unreadable(lock) \/ IsStale(lock) THEN "remove" ELSE "release")
    /\ UNCHANGED <<alive, mode, seen, guard, compromised, lock>>

RemoveLock(c) ==
    /\ At(c, "remove")
    /\ lock' = Missing
    /\ Goto(c, "release")
    /\ UNCHANGED <<alive, mode, seen, guard, compromised>>

-----------------------------------------------------------------------------
Die(p) ==
    /\ p \in alive \cap world.mortal
    /\ alive' = alive \ {p}
    /\ UNCHANGED <<stage, mode, seen, guard, compromised, lock>>

Work(c) ==
    \/ AcquireGuard(c) \/ GuardHeld(c) \/ ReleaseGuard(c)
    \/ Inspect(c) \/ Recheck(c) \/ Reclaim(c) \/ Create(c) \/ Fill(c)
    \/ Run(c) \/ Finish(c) \/ Drop(c) \/ DropRemove(c)
    \/ UnlockInspect(c) \/ Reinspect(c) \/ RemoveLock(c)

LockNext ==
    /\ \/ \E c \in AllCalls, m \in Modes : Begin(c, m)
       \/ \E c \in AllCalls : Work(c) \/ NoticeLoss(c)
       \/ \E p \in Procs : Die(p)
    /\ UNCHANGED world

LockSpec == LockInit /\ [][LockNext]_lockVars

-----------------------------------------------------------------------------
(***************************************************************************)
(* Safety.                                                                 *)
(***************************************************************************)
Running == {c \in AllCalls : At(c, "run")}

(***************************************************************************)
(* The lock file of an operation is there, and whole, for as long as it    *)
(* works on the files, the settings and the remote: at most one works,     *)
(* whichever processes crashed before and whoever removes their locks, and *)
(* a crash at any time is visible to the next one.                         *)
(***************************************************************************)
MutualExclusion == \A c \in Running : lock = [owner |-> c, complete |-> TRUE]

(***************************************************************************)
(* The lock file of a live operation is only removed by that operation:    *)
(* neither by a recovery nor by unlock --stale, as long as live processes  *)
(* refresh their guard in time.                                            *)
(***************************************************************************)
LiveLockIsKept ==
    [][~world.stalls =>
         \A c \in AllCalls :
           lock.owner = c /\ Alive(c) /\ lock' # lock /\ lock'.owner # c
             => stage[c] = "dropRemove"]_lockVars

(***************************************************************************)
(* The lock protects the operation that holds it.                          *)
(***************************************************************************)
LockProtects == []MutualExclusion /\ LiveLockIsKept

-----------------------------------------------------------------------------
(***************************************************************************)
(* Liveness: calls go on, file operations end, and the user tries          *)
(* unlock --stale again and again.  An attempt made early enough finds the *)
(* guard of a dead process; strong fairness says that not all are early.   *)
(***************************************************************************)
FairLockSpec ==
    /\ LockSpec
    /\ \A c \in AllCalls : WF_locks(Work(c))
    /\ WF_locks(Begin(User, "unlockStale"))
    /\ SF_locks(AcquireGuard(User))

(***************************************************************************)
(* A lock whose process died, complete or not, does not block pi-sync for  *)
(* ever: unlock --stale removes it some time.                              *)
(***************************************************************************)
DeadLocksEnd ==
    \A c \in Calls : lock.owner = c /\ ~Alive(c) ~> lock.owner # c
=============================================================================

---------------------------- MODULE Sync_proofs ----------------------------
(***************************************************************************)
(* Proofs about the two parts of pi-sync, which have no name in common.    *)
(*                                                                         *)
(* SyncTransaction, for any tree of paths, any snapshots and any number of *)
(* faults: IInv is inductive.  The argument needs nothing of the shape of  *)
(* the tree: every file that is or was there is a target, so the loops     *)
(* over the targets account for all of them.                               *)
(*                                                                         *)
(* SyncLock, for any calls and processes: LockIInv is inductive.  The      *)
(* guard excludes live processes as long as they refresh it, and the lock  *)
(* file says where the call of a live process is.                          *)
(***************************************************************************)
EXTENDS SyncTransaction, SyncLock, TLAPS

(***************************************************************************)
(* The targets and the file operations.                                    *)
(***************************************************************************)
LEMMA TargetsCoverFiles ==
  ASSUME NEW d \in [Paths -> Kinds], NEW R \in SUBSET Paths
  PROVE  /\ Targets(d, R) \subseteq Paths /\ Deletes(d, R) \subseteq Targets(d, R)
         /\ R \subseteq Targets(d, R)
         /\ \A p \in Paths : IsFile(d, p) => p \in Targets(d, R)
         /\ \A p \in Paths \ R : IsFile(d, p) => p \in Deletes(d, R)
  BY DEF Targets, Deletes, CurrentFiles

LEMMA RemovedFiles ==
  ASSUME NEW d \in [Paths -> Kinds], NEW S
  PROVE  /\ Removed(d, S) \in [Paths -> Kinds]
         /\ \A p \in Paths : Removed(d, S)[p] \in {"absent", d[p]}
         /\ \A p \in Paths \cap S : Removed(d, S)[p] = "absent"
         /\ \A p \in Paths : IsFile(Removed(d, S), p) => IsFile(d, p)
  BY DEF Removed, Kinds, IsFile

LEMMA RemovedTarget ==
  ASSUME NEW d \in [Paths -> Kinds], NEW t \in Paths
  PROVE  Removed(d, Below(t))[t] = "absent"
  BY DEF Removed, Below

LEMMA ParentFiles ==
  ASSUME NEW d \in [Paths -> Kinds], NEW t
  PROVE  /\ WithParents(d, t) \in [Paths -> Kinds]
         /\ \A p \in Paths : WithParents(d, t)[p] \in {"dir", d[p]}
         /\ ~Blocked(d, t) =>
               \A p \in Paths : IsFile(d, p) => WithParents(d, t)[p] = d[p]
  BY DEF WithParents, Kinds, IsFile, Blocked

LEMMA WrittenFiles ==
  ASSUME NEW d \in [Paths -> Kinds], NEW t \in Paths, NEW k \in Kinds
  PROVE  /\ Written(d, t, k) \in [Paths -> Kinds]
         /\ Written(d, t, k)[t] = k
         /\ \A p \in Paths \ {t} : Written(d, t, k)[p] \in {"dir", d[p]}
         /\ ~Blocked(d, t) =>
               \A p \in Paths \ {t} : IsFile(d, p) => Written(d, t, k)[p] = d[p]
  BY ParentFiles DEF Written

\* A restored target is as before; of the others the backup only adds what was there.
LEMMA RestoredFiles ==
  ASSUME Types, NEW t \in Paths, CanCopy(t)
  PROVE  /\ Restored(disk, t) \in [Paths -> Kinds]
         /\ before[t] # "absent" => Restored(disk, t)[t] = before[t]
         /\ \A p \in Paths : Restored(disk, t)[p] \in {"dir", disk[p], before[p]}
         /\ \A p \in Paths : IsFile(disk, p) => Restored(disk, t)[p] \in {disk[p], before[p]}
  <1>1. disk \in [Paths -> Kinds] /\ before \in [Paths -> Kinds]
    BY DEF Types
  <1>2. CASE before[t] = "absent"
    BY <1>1, <1>2 DEF Restored
  <1>3. CASE before[t] # "absent"
    <2>1. <<t, t>> \in saved /\ ~Blocked(disk, t)
      BY <1>3 DEF CanCopy
    <2>2. Restored(disk, t) =
            [p \in Paths |-> IF <<t, p>> \in saved THEN before[p] ELSE WithParents(disk, t)[p]]
      BY <1>3 DEF Restored
    <2>3. \A p \in Paths : Restored(disk, t)[p] \in {before[p], WithParents(disk, t)[p]}
      BY <2>2
    <2> QED BY <1>1, <2>1, <2>2, <2>3, ParentFiles
  <1> QED BY <1>2, <1>3

(***************************************************************************)
(* What an interrupted call may have done.                                 *)
(***************************************************************************)
LEMMA TouchedFiles ==
  ASSUME Types, FilesTouched
  PROVE  /\ disk' \in [Paths -> Kinds]
         /\ \A p \in Paths : IsFile(disk', p) => IsFile(disk, p) \/ p \in todo
  <1>1. disk \in [Paths -> Kinds] /\ todo \subseteq Paths
    BY DEF Types
  <1>2. ASSUME NEW t \in todo, disk' \in PartlyRemoved(disk, t)
        PROVE  /\ disk' \in [Paths -> Kinds]
               /\ \A p \in Paths : IsFile(disk', p) => IsFile(disk, p)
    <2>1. PICK S : disk' = Removed(disk, S)
      BY <1>2 DEF PartlyRemoved
    <2> QED BY <1>1, <2>1, RemovedFiles
  <1>3. ASSUME NEW t \in todo, disk' \in PartlyWritten(disk, t)
        PROVE  /\ disk' \in [Paths -> Kinds]
               /\ \A p \in Paths : IsFile(disk', p) => IsFile(disk, p) \/ p = t
    <2>1. CASE disk' = disk
      BY <1>1, <2>1
    <2>2. CASE disk' = WithParents(disk, t)
      BY <1>1, <2>2, ParentFiles DEF IsFile
    <2>3. CASE disk' = Written(disk, t, "torn")
      BY <1>1, <2>3, WrittenFiles DEF IsFile, Kinds
    <2> QED BY <1>3, <2>1, <2>2, <2>3 DEF PartlyWritten
  <1>4. \/ \E t \in todo : disk' \in PartlyRemoved(disk, t)
        \/ \E t \in todo : disk' \in PartlyWritten(disk, t)
    BY DEF FilesTouched
  <1> QED BY <1>2, <1>3, <1>4

(***************************************************************************)
(* The steps of an apply.                                                  *)
(***************************************************************************)
LEMMA InvariantInit == Init => IInv
  <1> SUFFICES ASSUME Init PROVE IInv
    OBVIOUS
  <1>1. /\ disk \in [Paths -> Kinds] /\ before = disk /\ remote = {} /\ directory = FALSE
        /\ journal = "absent" /\ saved = {} /\ pc = "idle" /\ todo = {}
    BY DEF Init, Kinds
  <1>2. directory \in BOOLEAN /\ halfDropped \in BOOLEAN
    BY DEF Init
  <1>3. faults \in 0 .. MaxFaults
    BY SyncTransactionAssumption DEF Init
  <1>4. Types
    BY <1>1, <1>2, <1>3 DEF Types
  <1> QED BY <1>1, <1>4
          DEF IInv, FilesAreTargets, JournalTells, LoopsProgress, DoneMeansApplied, Undone

LEMMA ApplyInv == ASSUME IInv, NEW R \in SUBSET Paths, Apply(R) PROVE IInv'
  <1>1. /\ Types /\ pc = "idle" /\ ~directory /\ disk' = Prepared(disk, R) /\ before' = disk'
        /\ remote' = R /\ directory' = TRUE /\ pc' = "prepare"
        /\ UNCHANGED <<journal, saved, todo, faults, halfDropped>>
    BY DEF IInv, Apply, history
  <1>2. disk' \in [Paths -> Kinds]
    BY <1>1 DEF Types, Prepared, Kinds
  <1>3. saved = {} /\ journal = "absent"
    BY <1>1 DEF IInv, JournalTells, Types
  <1>4. directory' \in BOOLEAN
    BY <1>1
  <1>5. Types'
    BY <1>1, <1>2, <1>3, <1>4 DEF Types
  <1>6. \A p \in Paths : IsFile(disk', p) => p \in Targets(disk', R)
    BY <1>2, TargetsCoverFiles
  <1>7. FilesAreTargets'
    BY <1>1, <1>6 DEF FilesAreTargets
  <1>8. JournalTells'
    BY <1>1, <1>3 DEF JournalTells, Undone
  <1>9. LoopsProgress' /\ DoneMeansApplied'
    BY <1>1 DEF LoopsProgress, DoneMeansApplied
  <1> QED BY <1>5, <1>7, <1>8, <1>9 DEF IInv

LEMMA SameTransaction ==
  ASSUME UNCHANGED <<before, remote>>
  PROVE  Backups' = Backups /\ After' = After /\ FilesOf(before') = FilesOf(before)
  BY DEF Backups, After, FilesOf, IsFile, Targets, Deletes, CurrentFiles

LEMMA WriteJournalInv == ASSUME IInv, WriteJournal PROVE IInv'
  <1>1. /\ Types /\ pc = "prepare" /\ saved' = Backups /\ journal' = "whole" /\ pc' = "delete"
        /\ todo' = Deletes(before, remote) /\ directory /\ disk = before
        /\ UNCHANGED <<disk, before, remote, directory, faults, halfDropped>>
    BY DEF IInv, WriteJournal, FilesAreTargets, JournalTells, history
  <1>2. Backups' = Backups
    BY <1>1, SameTransaction
  <1>3. Deletes(before, remote) \subseteq Paths
    BY <1>1, TargetsCoverFiles DEF Types
  <1>4. Types'
    BY <1>1, <1>2, <1>3 DEF Types
  <1>5. FilesAreTargets' /\ JournalTells'
    BY <1>1, <1>2 DEF IInv, FilesAreTargets, JournalTells, Undone
  <1>6. LoopsProgress' /\ DoneMeansApplied'
    BY <1>1 DEF LoopsProgress, DoneMeansApplied
  <1> QED BY <1>4, <1>5, <1>6 DEF IInv

\* A step of a loop: the files change, one target is done.
LEMMA LoopInv ==
  ASSUME IInv, Undone, disk' \in [Paths -> Kinds], todo' \subseteq todo,
         \A p \in Paths : IsFile(disk', p) => p \in Targets(before, remote),
         UNCHANGED <<before, remote, directory, journal, saved, pc, history>>,
         LoopsProgress'
  PROVE  IInv'
  <1>1. UNCHANGED <<faults, halfDropped>> /\ Types /\ Backups' = Backups
    BY SameTransaction DEF IInv, history
  <1>2. Types'
    BY <1>1 DEF Types
  <1>3. FilesAreTargets'
    BY DEF IInv, FilesAreTargets
  <1>4. JournalTells'
    BY <1>1 DEF IInv, JournalTells, Undone
  <1>5. DoneMeansApplied'
    BY DEF DoneMeansApplied, Undone
  <1> QED BY <1>2, <1>3, <1>4, <1>5 DEF IInv

\* The process goes from one loop to the next.
LEMMA NextLoopInv ==
  ASSUME IInv, Undone, pc' \in {"write", "copy"}, pc' = "write" => pc = "delete",
         todo' \subseteq Paths,
         UNCHANGED <<disk, before, remote, directory, journal, saved, history>>,
         LoopsProgress'
  PROVE  IInv'
  <1>1. UNCHANGED <<faults, halfDropped>> /\ Types /\ Backups' = Backups
    BY SameTransaction DEF IInv, history
  <1>2. Types'
    BY <1>1 DEF Types
  <1>3. FilesAreTargets'
    BY DEF IInv, FilesAreTargets, Undone
  <1>4. JournalTells'
    BY <1>1 DEF IInv, JournalTells, Undone
  <1>5. DoneMeansApplied'
    BY DEF DoneMeansApplied
  <1> QED BY <1>2, <1>3, <1>4, <1>5 DEF IInv

LEMMA CurrentTargets ==
  ASSUME IInv, Undone
  PROVE  /\ disk \in [Paths -> Kinds] /\ before \in [Paths -> Kinds]
         /\ remote \in SUBSET Paths /\ todo \subseteq Paths /\ directory
         /\ \A p \in Paths : IsFile(disk, p) => p \in Targets(before, remote)
         /\ \A p \in Paths : IsFile(before, p) => p \in Targets(before, remote)
  <1>1. disk \in [Paths -> Kinds] /\ before \in [Paths -> Kinds]
        /\ remote \in SUBSET Paths /\ todo \subseteq Paths
    BY DEF IInv, Types
  <1> QED BY <1>1, TargetsCoverFiles DEF IInv, FilesAreTargets, Undone

LEMMA DeleteInv == ASSUME IInv, NEW t \in Paths, Delete(t) PROVE IInv'
  <1>1. /\ Undone /\ pc = "delete" /\ t \in todo /\ disk' = Removed(disk, Below(t))
        /\ todo' = todo \ {t}
        /\ UNCHANGED <<before, remote, directory, journal, saved, pc, history>>
    BY DEF Delete, Undone
  <1>2. /\ disk' \in [Paths -> Kinds] /\ disk'[t] = "absent"
        /\ \A p \in Paths : disk'[p] \in {"absent", disk[p]}
        /\ \A p \in Paths : IsFile(disk', p) => IsFile(disk, p)
    BY <1>1, CurrentTargets, RemovedFiles, RemovedTarget
  <1>3. Deletes(before, remote) \subseteq Paths
    BY <1>1, CurrentTargets, TargetsCoverFiles
  <1>4. LoopsProgress'
    BY <1>1, <1>2, <1>3 DEF IInv, LoopsProgress
  <1>5. \A p \in Paths : IsFile(disk', p) => p \in Targets(before, remote)
    BY <1>1, <1>2, CurrentTargets
  <1> QED BY <1>1, <1>2, <1>4, <1>5, LoopInv

LEMMA DeletesDoneInv == ASSUME IInv, DeletesDone PROVE IInv'
  <1>1. /\ Undone /\ pc = "delete" /\ todo = {} /\ pc' = "write" /\ todo' = remote
        /\ UNCHANGED <<disk, before, remote, directory, journal, saved, history>>
    BY DEF DeletesDone, Undone
  <1>2. \A p \in Paths : IsFile(disk, p) => p \in remote
    <2> SUFFICES ASSUME NEW p \in Paths, IsFile(disk, p), p \notin remote PROVE FALSE
      OBVIOUS
    <2>1. IsFile(before, p)
      BY <1>1 DEF IInv, LoopsProgress
    <2>2. p \in Deletes(before, remote)
      BY <1>1, <2>1, CurrentTargets, TargetsCoverFiles
    <2>3. disk[p] = "absent"
      BY <1>1, <2>2 DEF IInv, LoopsProgress
    <2> QED BY <2>3 DEF IsFile
  <1>3. LoopsProgress'
    BY <1>1, <1>2 DEF LoopsProgress, IsFile
  <1>4. todo' \subseteq Paths
    BY <1>1, CurrentTargets
  <1> QED BY <1>1, <1>3, <1>4, NextLoopInv

LEMMA WriteInv == ASSUME IInv, NEW t \in Paths, Write(t) PROVE IInv'
  <1>1. /\ Undone /\ pc = "write" /\ t \in todo /\ ~Blocked(disk, t)
        /\ disk' = Written(disk, t, "new") /\ todo' = todo \ {t}
        /\ UNCHANGED <<before, remote, directory, journal, saved, pc, history>>
    BY DEF Write, Undone
  <1>2. /\ disk' \in [Paths -> Kinds] /\ disk'[t] = "new"
        /\ \A p \in Paths \ {t} : disk'[p] \in {"dir", disk[p]}
        /\ \A p \in Paths \ {t} : IsFile(disk, p) => disk'[p] = disk[p]
    BY <1>1, CurrentTargets, WrittenFiles DEF Kinds
  <1>3. t \in remote /\ remote \subseteq Paths
    BY <1>1, CurrentTargets DEF IInv, LoopsProgress
  <1>4. \A p \in Paths : IsFile(disk', p) => p \in remote
    BY <1>1, <1>2, <1>3 DEF IInv, LoopsProgress, IsFile
  <1>5. \A u \in remote \ todo' : disk'[u] = "new"
    BY <1>1, <1>2, <1>3 DEF IInv, LoopsProgress, IsFile
  <1>6. LoopsProgress'
    BY <1>1, <1>4, <1>5 DEF IInv, LoopsProgress
  <1>7. \A p \in Paths : IsFile(disk', p) => p \in Targets(before, remote)
    BY <1>1, <1>4, CurrentTargets, TargetsCoverFiles
  <1> QED BY <1>1, <1>2, <1>6, <1>7, LoopInv

LEMMA CommitInv == ASSUME IInv, Commit PROVE IInv'
  <1>1. /\ Undone /\ pc = "write" /\ todo = {} /\ pc' = "done" /\ directory' = FALSE
        /\ journal' = "absent" /\ saved' = {}
        /\ UNCHANGED <<disk, before, remote, todo, faults, halfDropped>> /\ Types
    BY DEF Commit, DropDirectory, Undone, history, IInv
  <1>2. FilesOf(disk) = After
    BY <1>1 DEF FilesOf, After, IInv, LoopsProgress, IsFile, Types
  <1>3. After' = After /\ FilesOf(disk') = FilesOf(disk)
    BY <1>1, SameTransaction
  <1>4. directory' \in BOOLEAN
    BY <1>1
  <1>5. Types'
    BY <1>1, <1>4 DEF Types
  <1>6. FilesAreTargets' /\ JournalTells' /\ LoopsProgress'
    BY <1>1 DEF FilesAreTargets, JournalTells, LoopsProgress, Undone
  <1>7. DoneMeansApplied'
    BY <1>2, <1>3 DEF DoneMeansApplied
  <1> QED BY <1>5, <1>6, <1>7 DEF IInv

(***************************************************************************)
(* The steps of a restoration.                                             *)
(***************************************************************************)
LEMMA RemoveInv == ASSUME IInv, NEW t \in Paths, Remove(t) PROVE IInv'
  <1>1. /\ Undone /\ pc = "remove" /\ disk' = Removed(disk, Below(t))
        /\ todo' = todo \ {t}
        /\ UNCHANGED <<before, remote, directory, journal, saved, pc, history>>
    BY DEF Remove, Undone
  <1>2. /\ disk' \in [Paths -> Kinds] /\ disk'[t] = "absent"
        /\ \A p \in Paths : disk'[p] \in {"absent", disk[p]}
        /\ \A p \in Paths : IsFile(disk', p) => IsFile(disk, p)
    BY <1>1, CurrentTargets, RemovedFiles, RemovedTarget
  <1>3. Targets(before, remote) \subseteq Paths
    BY <1>1, CurrentTargets, TargetsCoverFiles
  <1>4. LoopsProgress'
    BY <1>1, <1>2, <1>3 DEF IInv, LoopsProgress
  <1>5. \A p \in Paths : IsFile(disk', p) => p \in Targets(before, remote)
    BY <1>1, <1>2, CurrentTargets
  <1> QED BY <1>1, <1>2, <1>4, <1>5, LoopInv

LEMMA RemovesDoneInv == ASSUME IInv, RemovesDone PROVE IInv'
  <1>1. /\ Undone /\ pc = "remove" /\ todo = {} /\ pc' = "copy"
        /\ todo' = Targets(before, remote)
        /\ UNCHANGED <<disk, before, remote, directory, journal, saved, history>>
    BY DEF RemovesDone, Undone
  <1>2. \A p \in Paths : ~IsFile(disk, p)
    BY <1>1, CurrentTargets DEF IInv, LoopsProgress, IsFile
  <1>3. LoopsProgress'
    BY <1>1, <1>2 DEF LoopsProgress
  <1>4. todo' \subseteq Paths
    BY <1>1, CurrentTargets, TargetsCoverFiles
  <1> QED BY <1>1, <1>3, <1>4, NextLoopInv

LEMMA CopyInv == ASSUME IInv, NEW t \in Paths, Copy(t) PROVE IInv'
  <1>1. /\ Undone /\ pc = "copy" /\ t \in todo /\ CanCopy(t) /\ disk' = Restored(disk, t)
        /\ todo' = todo \ {t} /\ Types
        /\ UNCHANGED <<before, remote, directory, journal, saved, pc, history>>
    BY DEF Copy, Undone, IInv
  <1>2. /\ disk' \in [Paths -> Kinds]
        /\ before[t] # "absent" => disk'[t] = before[t]
        /\ \A p \in Paths : disk'[p] \in {"dir", disk[p], before[p]}
        /\ \A p \in Paths : IsFile(disk, p) => disk'[p] \in {disk[p], before[p]}
    BY <1>1, RestoredFiles
  <1>3. \A p \in Paths : IsFile(disk', p) => disk'[p] = before[p]
    BY <1>1, <1>2 DEF IInv, LoopsProgress, IsFile
  <1>4. \A u \in Targets(before, remote) \ todo' : IsFile(before, u) => disk'[u] = before[u]
    <2> SUFFICES ASSUME NEW u \in Targets(before, remote) \ todo', IsFile(before, u)
                 PROVE  disk'[u] = before[u]
      OBVIOUS
    <2>1. u \in Paths
      BY <1>1, CurrentTargets, TargetsCoverFiles
    <2>2. CASE u = t
      BY <1>2, <2>2 DEF IsFile
    <2>3. CASE u # t
      <3>1. disk[u] = before[u] /\ IsFile(disk, u)
        BY <1>1, <2>3 DEF IInv, LoopsProgress, IsFile
      <3> QED BY <1>2, <2>1, <3>1
    <2> QED BY <2>2, <2>3
  <1>5. LoopsProgress'
    BY <1>1, <1>3, <1>4 DEF IInv, LoopsProgress
  <1>6. \A p \in Paths : IsFile(disk', p) => p \in Targets(before, remote)
    BY <1>1, <1>3, CurrentTargets DEF IsFile
  <1> QED BY <1>1, <1>2, <1>5, <1>6, LoopInv

\* A restoration that comes to its end has restored every file, whatever the
\* backups lack: it would have thrown.
LEMMA RestorationIsExact ==
  ASSUME IInv, pc = "copy", todo = {}
  PROVE  FilesOf(disk) = FilesOf(before)
  <1>1. Undone
    BY DEF Undone
  <1>2. \A p \in Paths : IsFile(disk, p) => disk[p] = before[p]
    BY DEF IInv, LoopsProgress
  <1>3. \A p \in Paths : IsFile(before, p) => disk[p] = before[p]
    BY <1>1, CurrentTargets DEF IInv, LoopsProgress
  <1> QED BY <1>2, <1>3 DEF FilesOf, IsFile

\* The process stops to work on a transaction whose directory is gone.
LEMMA DroppedInv ==
  ASSUME IInv, DropDirectory, pc' = "idle", todo' = todo,
         UNCHANGED <<disk, before, remote, history>>,
         ~halfDropped => FilesOf(disk) = FilesOf(before)
  PROVE  IInv'
  <1>1. /\ directory' = FALSE /\ journal' = "absent" /\ saved' = {}
        /\ UNCHANGED <<faults, halfDropped>> /\ Types
    BY DEF DropDirectory, history, IInv
  <1>2. directory' \in BOOLEAN
    BY <1>1
  <1>3. Types'
    BY <1>1, <1>2 DEF Types
  <1>4. FilesOf(disk') = FilesOf(disk) /\ FilesOf(before') = FilesOf(before)
    OBVIOUS
  <1>5. JournalTells'
    BY <1>1, <1>4 DEF JournalTells, Undone
  <1>6. FilesAreTargets' /\ LoopsProgress' /\ DoneMeansApplied'
    BY <1>1 DEF FilesAreTargets, LoopsProgress, DoneMeansApplied
  <1> QED BY <1>3, <1>5, <1>6 DEF IInv

LEMMA RestoreDoneInv == ASSUME IInv, RestoreDone PROVE IInv'
  BY RestorationIsExact, DroppedInv DEF RestoreDone

(***************************************************************************)
(* Restorations begin, and calls fail.                                     *)
(***************************************************************************)
\* What a call that fails may have done to the transaction.
LEMMA TouchedKeeps ==
  ASSUME IInv, Touched, pc \notin {"idle", "done"}, UNCHANGED <<before, remote, directory>>
  PROVE  /\ disk' \in [Paths -> Kinds] /\ saved' \subseteq Backups'
         /\ journal' \in {"absent", "torn", "whole"} /\ directory
         /\ halfDropped' \in BOOLEAN
         /\ \A p \in Paths : IsFile(disk', p) => p \in Targets(before, remote)
         /\ ~halfDropped' => /\ ~halfDropped
                             /\ journal' = "whole" => saved' = Backups'
                             /\ Undone => journal' = "whole"
                             /\ journal' # "whole" => FilesOf(disk') = FilesOf(before')
  <1>0. Types /\ Backups' = Backups /\ directory /\ todo \subseteq Paths
    BY SameTransaction DEF IInv, FilesAreTargets, Types
  <1>1. \A p \in Paths : IsFile(disk, p) => p \in Targets(before, remote)
    BY <1>0 DEF IInv, FilesAreTargets
  <1>t. todo \subseteq Targets(before, remote) \/ ~Undone
    <2>1. disk \in [Paths -> Kinds] /\ before \in [Paths -> Kinds] /\ remote \in SUBSET Paths
      BY <1>0 DEF Types
    <2> QED BY <2>1, TargetsCoverFiles DEF IInv, LoopsProgress, Undone
  <1>2. CASE UNCHANGED <<disk, journal, saved, halfDropped>>
    BY <1>0, <1>1, <1>2 DEF IInv, Types, JournalTells
  <1>3. CASE FilesTouched /\ UNCHANGED <<journal, saved, halfDropped>>
    <2>1. Undone
      BY <1>3 DEF FilesTouched, Undone
    <2>2. /\ disk' \in [Paths -> Kinds]
          /\ \A p \in Paths : IsFile(disk', p) => p \in Targets(before, remote)
      BY <1>0, <1>1, <1>t, <1>3, <2>1, TouchedFiles
    <2> QED BY <1>0, <1>3, <2>1, <2>2 DEF IInv, Types, JournalTells
  <1>4. CASE DirectoryTouched /\ halfDropped' = TRUE /\ UNCHANGED disk
    <2>1. journal' \in {journal, "absent"} /\ saved' \subseteq saved /\ halfDropped'
      BY <1>4 DEF DirectoryTouched
    <2>2. halfDropped' \in BOOLEAN
      BY <1>4
    <2> QED BY <1>0, <1>1, <1>4, <2>1, <2>2 DEF Types
  <1>5. CASE JournalTouched /\ UNCHANGED <<disk, saved, halfDropped>>
    <2>1. pc = "prepare" /\ journal' = "torn" /\ disk = before
      BY <1>5 DEF JournalTouched, IInv, JournalTells
    <2> QED BY <1>0, <1>1, <1>5, <2>1 DEF Types, Undone
  <1> QED BY <1>2, <1>3, <1>4, <1>5 DEF Touched

LEMMA RestoreBeginsInv ==
  ASSUME IInv, StartRestore, UNCHANGED <<before, remote, directory>>,
         disk' \in [Paths -> Kinds], saved' \subseteq Backups', directory,
         journal' \in {"absent", "torn", "whole"}, halfDropped' \in BOOLEAN,
         faults' \in 0 .. MaxFaults,
         \A p \in Paths : IsFile(disk', p) => p \in Targets(before, remote),
         ~halfDropped' => journal' = "whole" /\ saved' = Backups'
  PROVE  IInv'
  <1>1. pc' = "remove" /\ todo' = Targets(before, remote) /\ Types
    BY DEF StartRestore, IInv
  <1>2. todo' \subseteq Paths
    BY <1>1, TargetsCoverFiles DEF Types
  <1>3. Types'
    BY <1>1, <1>2 DEF Types
  <1>4. FilesAreTargets' /\ JournalTells'
    BY <1>1 DEF FilesAreTargets, JournalTells, Undone
  <1>5. LoopsProgress' /\ DoneMeansApplied'
    BY <1>1 DEF LoopsProgress, DoneMeansApplied
  <1> QED BY <1>3, <1>4, <1>5 DEF IInv

LEMMA RecoverInv == ASSUME IInv, Recover PROVE IInv'
  <1>1. /\ Types /\ pc = "idle" /\ directory
        /\ UNCHANGED <<disk, before, remote, faults, halfDropped, history>>
        /\ \/ journal = "absent" /\ DropDirectory /\ UNCHANGED <<pc, todo>>
           \/ journal = "whole" /\ StartRestore /\ UNCHANGED <<directory, journal, saved>>
    BY DEF Recover, IInv, history
  <1>2. CASE journal = "absent" /\ DropDirectory /\ UNCHANGED <<pc, todo>>
    <2>1. ~halfDropped => FilesOf(disk) = FilesOf(before)
      BY <1>1, <1>2 DEF IInv, JournalTells
    <2> QED BY <1>1, <1>2, <2>1, DroppedInv
  <1>3. CASE journal = "whole" /\ StartRestore /\ UNCHANGED <<directory, journal, saved>>
    <2>1. /\ Backups' = Backups /\ saved \subseteq Backups
          /\ \A p \in Paths : IsFile(disk', p) => p \in Targets(before, remote)
      BY <1>1, SameTransaction DEF IInv, Types, FilesAreTargets
    <2>2. disk' \in [Paths -> Kinds] /\ faults' \in 0 .. MaxFaults /\ halfDropped' \in BOOLEAN
      BY <1>1 DEF Types
    <2>3. ~halfDropped' => saved' = Backups'
      BY <1>1, <1>3, <2>1 DEF IInv, JournalTells
    <2> QED BY <1>1, <1>3, <2>1, <2>2, <2>3, RestoreBeginsInv
  <1> QED BY <1>1, <1>2, <1>3

LEMMA ThrowsInv == ASSUME IInv, Throws PROVE IInv'
  <1>1. /\ pc \in {"delete", "write"} /\ faults < MaxFaults /\ faults' = faults + 1
        /\ Touched /\ StartRestore /\ UNCHANGED <<before, remote, directory>> /\ Types
    BY DEF Throws, IInv
  <1>2. faults' \in 0 .. MaxFaults
    BY <1>1, SyncTransactionAssumption DEF Types
  <1>3. Undone /\ pc \notin {"idle", "done"}
    BY <1>1 DEF Undone
  <1> QED BY <1>1, <1>2, <1>3, TouchedKeeps, RestoreBeginsInv

\* The process is gone; the transaction stays as it was left.
LEMMA StoppedInv ==
  ASSUME IInv, pc \notin {"idle", "done"}, pc' = "idle", todo' = {}, Touched,
         faults' \in 0 .. MaxFaults, UNCHANGED <<before, remote, directory>>
  PROVE  IInv'
  <1>1. Types
    BY DEF IInv
  <1>2. Types'
    BY <1>1, TouchedKeeps DEF Types
  <1>3. FilesAreTargets' /\ JournalTells'
    BY TouchedKeeps DEF FilesAreTargets, JournalTells, Undone
  <1>4. LoopsProgress' /\ DoneMeansApplied'
    BY DEF LoopsProgress, DoneMeansApplied
  <1> QED BY <1>2, <1>3, <1>4 DEF IInv

LEMMA CrashInv == ASSUME IInv, Crash PROVE IInv'
  <1>1. faults' \in 0 .. MaxFaults
    BY SyncTransactionAssumption DEF Crash, IInv, Types
  <1> QED BY <1>1, StoppedInv DEF Crash

LEMMA RestoreThrowsInv == ASSUME IInv, RestoreThrows PROVE IInv'
  <1>1. /\ pc \notin {"idle", "done"} /\ pc' = "idle" /\ todo' = {}
        /\ UNCHANGED <<disk, before, remote, directory, journal, saved, faults, halfDropped>>
    BY DEF RestoreThrows, history
  <1>2. Touched /\ faults' \in 0 .. MaxFaults
    BY <1>1 DEF Touched, IInv, Types
  <1> QED BY <1>1, <1>2, StoppedInv

LEMMA InvariantStep == IInv /\ [Next]_vars => IInv'
  <1> SUFFICES ASSUME IInv, [Next]_vars PROVE IInv'
    OBVIOUS
  <1>1. CASE UNCHANGED vars
    <2>1. /\ UNCHANGED <<disk, before, remote, directory, journal, saved, pc, todo, faults,
                         halfDropped>>
          /\ Backups' = Backups /\ After' = After /\ (Undone <=> Undone')
      BY <1>1, SameTransaction DEF vars, history, Undone
    <2>2. Types'
      BY <2>1 DEF IInv, Types
    <2>3. FilesAreTargets' /\ JournalTells'
      BY <2>1 DEF IInv, FilesAreTargets, JournalTells
    <2>4. LoopsProgress' /\ DoneMeansApplied'
      BY <2>1 DEF IInv, LoopsProgress, DoneMeansApplied
    <2> QED BY <2>2, <2>3, <2>4 DEF IInv
  <1>2. CASE \E R \in SUBSET Paths : Apply(R)
    BY <1>2, ApplyInv
  <1>3. CASE \E t \in Paths : Delete(t) \/ Write(t) \/ Remove(t) \/ Copy(t)
    BY <1>3, DeleteInv, WriteInv, RemoveInv, CopyInv
  <1>4. CASE WriteJournal \/ DeletesDone \/ Commit \/ RemovesDone
    BY <1>4, WriteJournalInv, DeletesDoneInv, CommitInv, RemovesDoneInv
  <1>5. CASE RestoreDone \/ RestoreThrows \/ Recover \/ Throws \/ Crash
    BY <1>5, RestoreDoneInv, RestoreThrowsInv, RecoverInv, ThrowsInv, CrashInv
  <1> QED BY <1>1, <1>2, <1>3, <1>4, <1>5 DEF Next, Step

(***************************************************************************)
(* The inductive invariant holds in every behaviour.                       *)
(***************************************************************************)
THEOREM TransactionInvariant == Spec => []IInv
  BY InvariantInit, InvariantStep, PTL DEF Spec

(***************************************************************************)
(* Whatever fails and whenever the process dies, unless the removal of the *)
(* transaction's directory stops half way: the files are as they were, or  *)
(* as the snapshot has them, or everything that was there can be restored. *)
(* An apply that reports success has applied the whole snapshot, always.   *)
(***************************************************************************)
THEOREM ApplyCorrect == Spec => []ApplyIsAtomic
  <1>1. IInv => ApplyIsAtomic
    <2> SUFFICES ASSUME IInv, ~halfDropped PROVE NothingLost
      BY DEF IInv, ApplyIsAtomic, NothingLostUntilDropped
    <2>1. CASE journal = "whole"
      BY <2>1 DEF NothingLost, IInv, JournalTells
    <2>2. CASE pc = "done"
      BY <2>2 DEF NothingLost, IInv, DoneMeansApplied
    <2>3. CASE journal # "whole" /\ pc # "done"
      BY <2>3 DEF NothingLost, IInv, JournalTells
    <2> QED BY <2>1, <2>2, <2>3
  <1> QED BY <1>1, TransactionInvariant, PTL

(***************************************************************************)
(* The safety half of RecoveryRestores: a restoration that ends has undone *)
(* the apply, whatever it is the repetition of, and also if the removal of *)
(* the transaction's directory had stopped half way before.                *)
(***************************************************************************)
THEOREM RestorationCorrect == Spec => RestoresBefore
  <1>1. IInv /\ [Next]_vars =>
          [pc = "copy" /\ pc' = "idle" /\ ~directory' => FilesOf(disk') = FilesOf(before)]_vars
    <2> SUFFICES ASSUME IInv, Next, pc = "copy", pc' = "idle", ~directory'
                 PROVE  FilesOf(disk') = FilesOf(before)
      OBVIOUS
    <2>1. directory
      BY DEF IInv, FilesAreTargets
    <2>2. RestoreDone
      BY <2>1 DEF Next, Step, Apply, WriteJournal, Delete, Write, Remove, Copy, DeletesDone,
                  Commit, RemovesDone, RestoreThrows, Recover, Throws, Crash
    <2>3. FilesOf(disk) = FilesOf(before) /\ disk' = disk
      BY <2>2, RestorationIsExact DEF RestoreDone
    <2> QED BY <2>3
  <1> QED BY <1>1, TransactionInvariant, PTL DEF Spec, RestoresBefore

-----------------------------------------------------------------------------
(***************************************************************************)
(* The lock.  A world in which the guard can be taken from a live process  *)
(* is calm if nobody removes the lock of another: no process dies, so that *)
(* none is stale, and nobody says --stale.                                 *)
(***************************************************************************)
Calm(w) == w.mortal = {} /\ "unlockStale" \notin w.modes

(***************************************************************************)
(* Live processes that refresh their guards in time exclude each other.    *)
(***************************************************************************)
GuardExcludes == \A c \in AllCalls : Alive(c) /\ stage[c] \in Guarded => guard = c

NothingStale ==
    /\ alive = Procs
    /\ \A c \in AllCalls :
         /\ stage[c] = "acquire" => mode[c] # "unlockStale"
         /\ stage[c] \in Guarded => mode[c] # "unlockStale"
         /\ stage[c] \notin {"recheck", "reclaim", "reinspect", "remove"}

Owning == {"writing", "check", "run", "drop", "dropRemove"}

(***************************************************************************)
(* The lock file and the calls of live processes tell the same story.      *)
(***************************************************************************)
LockIsOwned ==
    \A c \in AllCalls : Alive(c) =>
      /\ stage[c] \in Owning \ {"drop"} => lock.owner = c
      /\ lock.owner = c => stage[c] \in Owning /\ lock.complete = (stage[c] # "writing")

LockIInv ==
    /\ LockTypeOK
    /\ guard \notin compromised
    /\ ~world.stalls => GuardExcludes /\ LockIsOwned
    /\ world.stalls /\ Calm(world) => NothingStale /\ LockIsOwned

-----------------------------------------------------------------------------
LEMMA LockInvariantInit == LockInit => LockIInv
<1> SUFFICES ASSUME LockInit PROVE LockIInv
  OBVIOUS
<1> USE SyncLockAssumption DEF LockInit, Missing, AllCalls
<1>1. LockTypeOK /\ guard \notin compromised
  BY DEF LockTypeOK, LockFiles, Modes
<1>2. GuardExcludes /\ NothingStale
  BY DEF GuardExcludes, NothingStale, Guarded
<1>3. LockIsOwned
  BY DEF LockIsOwned, Owning
<1> QED
  BY <1>1, <1>2, <1>3 DEF LockIInv

(***************************************************************************)
(* One step of the lock, whoever makes it.                                 *)
(***************************************************************************)
LockStep ==
    \/ \E c \in AllCalls, m \in Modes : Begin(c, m)
    \/ \E c \in AllCalls : Work(c) \/ NoticeLoss(c)
    \/ \E p \in Procs : Die(p)

(***************************************************************************)
(* The types; a call knows of no lost guard when it is the holder.         *)
(***************************************************************************)
LEMMA LockTypeStep ==
  ASSUME LockTypeOK, guard \notin compromised, LockStep, world' = world
  PROVE  LockTypeOK' /\ guard' \notin compromised'
<1> USE SyncLockAssumption DEF LockTypeOK, At, Goto
<1>1. ASSUME NEW c \in AllCalls, NEW m \in Modes, Begin(c, m)
      PROVE  LockTypeOK' /\ guard' \notin compromised'
  BY <1>1 DEF Begin, Guarded
<1>2. ASSUME NEW c \in AllCalls, AcquireGuard(c) \/ GuardHeld(c) \/ ReleaseGuard(c)
      PROVE  LockTypeOK' /\ guard' \notin compromised'
  <2>1. CASE AcquireGuard(c)
    BY <2>1 DEF AcquireGuard, Guarded, AllCalls
  <2>2. CASE GuardHeld(c)
    BY <2>2 DEF GuardHeld, Guarded, AllCalls, Over
  <2>3. CASE ReleaseGuard(c)
    BY <2>3 DEF ReleaseGuard, Guarded, AllCalls, Over
  <2> QED
    BY <1>2, <2>1, <2>2, <2>3
<1>3. ASSUME NEW c \in AllCalls, NoticeLoss(c)
      PROVE  LockTypeOK' /\ guard' \notin compromised'
  BY <1>3 DEF NoticeLoss, Guarded, AllCalls
<1>4. ASSUME NEW p \in Procs, Die(p)
      PROVE  LockTypeOK' /\ guard' \notin compromised'
  BY <1>4 DEF Die
<1>5. ASSUME NEW c \in AllCalls,
             Inspect(c) \/ Recheck(c) \/ Reclaim(c) \/ Create(c) \/ Fill(c)
      PROVE  LockTypeOK' /\ guard' \notin compromised'
  <2> USE DEF Guarded, AllCalls, LockFiles, Missing
  <2>1. CASE Inspect(c)
    BY <2>1 DEF Inspect
  <2>2. CASE Recheck(c)
    BY <2>2 DEF Recheck
  <2>3. CASE Reclaim(c)
    BY <2>3 DEF Reclaim
  <2>4. CASE Create(c)
    <3>0. [owner |-> c, complete |-> FALSE] \in LockFiles
      OBVIOUS
    <3>1. lock' \in LockFiles
      <4> HIDE DEF LockFiles, Missing
      <4> QED
        BY <2>4, <3>0 DEF Create
    <3>2. \E s \in {"writing", "drop"} : Goto(c, s)
      BY <2>4 DEF Create
    <3>3. stage[c] = "write" /\ UNCHANGED <<alive, mode, seen, guard, compromised>>
      BY <2>4 DEF Create
    <3> HIDE DEF LockFiles
    <3> QED
      BY <3>1, <3>2, <3>3
  <2>5. CASE Fill(c)
    BY <2>5 DEF Fill
  <2> QED
    BY <1>5, <2>1, <2>2, <2>3, <2>4, <2>5
<1>6. ASSUME NEW c \in AllCalls,
             Run(c) \/ Finish(c) \/ Drop(c) \/ DropRemove(c)
      PROVE  LockTypeOK' /\ guard' \notin compromised'
  BY <1>6 DEF Run, Finish, Drop, DropRemove, Guarded, AllCalls, LockFiles, Missing
<1>7. ASSUME NEW c \in AllCalls, UnlockInspect(c) \/ Reinspect(c) \/ RemoveLock(c)
      PROVE  LockTypeOK' /\ guard' \notin compromised'
  BY <1>7 DEF UnlockInspect, Reinspect, RemoveLock, Guarded, AllCalls, LockFiles, Missing
<1> QED
  BY <1>1, <1>2, <1>3, <1>4, <1>5, <1>6, <1>7 DEF LockStep, Work

(***************************************************************************)
(* Only the release and the death of its holder free the guard, so that    *)
(* live processes that refresh theirs exclude each other.                  *)
(***************************************************************************)
LEMMA GuardStep ==
  ASSUME LockTypeOK, guard \notin compromised, ~world.stalls, GuardExcludes, LockStep
  PROVE  GuardExcludes'
<1> USE SyncLockAssumption DEF LockTypeOK, GuardExcludes, At, Goto, Alive
<1>1. ASSUME NEW c \in AllCalls, NEW m \in Modes, Begin(c, m) PROVE GuardExcludes'
  BY <1>1 DEF Begin, Guarded
<1>2. ASSUME NEW c \in AllCalls, AcquireGuard(c) PROVE GuardExcludes'
  <2>1. guard = None \/ ~Alive(guard)
    BY <1>2 DEF AcquireGuard, GuardExpired
  <2>2. \A d \in AllCalls : Alive(d) => stage[d] \notin Guarded
    BY <2>1 DEF AllCalls
  <2> QED
    BY <1>2, <2>2 DEF AcquireGuard
<1>3. ASSUME NEW c \in AllCalls, GuardHeld(c) PROVE GuardExcludes'
  BY <1>3 DEF GuardHeld, Over, Guarded
<1>4. ASSUME NEW c \in AllCalls, ReleaseGuard(c) PROVE GuardExcludes'
  <2>1. guard = c
    BY <1>4 DEF ReleaseGuard, Guarded
  <2>2. \A d \in AllCalls \ {c} : Alive(d) => stage[d] \notin Guarded
    BY <2>1
  <2> QED
    BY <1>4, <2>2 DEF ReleaseGuard, Over, Guarded
<1>5. ASSUME NEW c \in AllCalls,
             \/ Inspect(c) \/ Recheck(c) \/ Reclaim(c) \/ Create(c) \/ Fill(c)
             \/ Run(c) \/ Finish(c) \/ Drop(c) \/ DropRemove(c)
             \/ UnlockInspect(c) \/ Reinspect(c) \/ RemoveLock(c) \/ NoticeLoss(c)
      PROVE  GuardExcludes'
  <2>1. alive' = alive /\ guard' = guard
    BY <1>5 DEF Inspect, Recheck, Reclaim, Create, Fill, Run, Finish, Drop, DropRemove,
                UnlockInspect, Reinspect, RemoveLock, NoticeLoss
  <2>2. \A d \in AllCalls : stage'[d] = stage[d] \/ (d = c /\ stage[d] \in Guarded)
    BY <1>5 DEF Inspect, Recheck, Reclaim, Create, Fill, Run, Finish, Drop, DropRemove,
                UnlockInspect, Reinspect, RemoveLock, NoticeLoss, Guarded
  <2> QED
    BY <2>1, <2>2
<1>6. ASSUME NEW p \in Procs, Die(p) PROVE GuardExcludes'
  BY <1>6 DEF Die
<1> QED
  BY <1>1, <1>2, <1>3, <1>4, <1>5, <1>6 DEF LockStep, Work

(***************************************************************************)
(* What a call of a live process does to the lock file, and where it is    *)
(* then: only Create, Fill, DropRemove, Reclaim and RemoveLock write it.   *)
(***************************************************************************)
LEMMA LockFileWrites ==
  ASSUME LockTypeOK, NEW c \in AllCalls, Work(c)
  PROVE  /\ Alive(c) /\ alive' = alive /\ mode' = mode
         /\ \A d \in AllCalls \ {c} : stage'[d] = stage[d]
         /\ \/ /\ lock' = lock
               /\ stage[c] \notin {"writing", "dropRemove"}
               /\ \/ stage'[c] \notin Owning
                  \/ stage[c] = "check" /\ stage'[c] \in {"run", "drop"}
                  \/ stage[c] = "run" /\ stage'[c] = "drop"
                  \/ stage'[c] = "drop" /\ stage[c] \notin Owning
                  \/ /\ stage[c] = "drop" /\ stage'[c] = "dropRemove"
                     /\ lock.owner = c /\ lock.complete
               /\ stage[c] = "drop" /\ lock.owner = c /\ lock.complete
                    => stage'[c] = "dropRemove"
               /\ stage[c] \in {"check", "run"} => stage'[c] \in Owning
            \/ /\ stage[c] = "write" /\ stage'[c] = "writing" /\ lock = Missing
               /\ lock' = [owner |-> c, complete |-> FALSE]
            \/ /\ stage[c] = "writing" /\ stage'[c] = "check"
               /\ lock' = IF lock.owner = c THEN [lock EXCEPT !.complete = TRUE] ELSE lock
            \/ /\ stage[c] = "dropRemove" /\ stage'[c] = "release" /\ lock' = Missing
            \/ /\ stage[c] = "reclaim" /\ stage'[c] = "write" /\ lock' = Missing
            \/ /\ stage[c] = "remove" /\ stage'[c] = "release" /\ lock' = Missing
<1> USE DEF LockTypeOK, At, Goto, Owning
<1>1. CASE AcquireGuard(c) \/ GuardHeld(c) \/ ReleaseGuard(c)
  BY <1>1 DEF AcquireGuard, GuardHeld, ReleaseGuard, Over
<1>2. CASE Inspect(c) \/ Recheck(c)
  BY <1>2 DEF Inspect, Recheck
<1>3. CASE Reclaim(c) \/ RemoveLock(c) \/ DropRemove(c)
  BY <1>3 DEF Reclaim, RemoveLock, DropRemove
<1>4. CASE Create(c)
  BY <1>4 DEF Create
<1>5. CASE Fill(c)
  BY <1>5 DEF Fill
<1>6. CASE Run(c) \/ Finish(c)
  BY <1>6 DEF Run, Finish
<1>7. CASE Drop(c)
  BY <1>7 DEF Drop
<1>8. CASE UnlockInspect(c) \/ Reinspect(c)
  BY <1>8 DEF UnlockInspect, Reinspect
<1> QED
  BY <1>1, <1>2, <1>3, <1>4, <1>5, <1>6, <1>7, <1>8 DEF Work

(***************************************************************************)
(* The lock file of a live operation survives every step but its own, if   *)
(* no other call comes to a removal.                                       *)
(***************************************************************************)
LEMMA OwnedStep ==
  ASSUME LockTypeOK, LockIsOwned, LockStep,
         \A c \in AllCalls : Alive(c) /\ stage[c] \in {"reclaim", "remove"} =>
           \A d \in AllCalls : Alive(d) /\ stage[d] \in Owning => d = c
  PROVE  LockIsOwned'
<1> USE SyncLockAssumption DEF LockIsOwned
<1> None \notin AllCalls
  BY DEF AllCalls
<1>1. ASSUME NEW c \in AllCalls, Work(c) PROVE LockIsOwned'
  <2>1. \A d \in AllCalls : Alive(d)' = Alive(d)
    BY <1>1, LockFileWrites DEF Alive
  <2>2. Alive(c) /\ \A d \in AllCalls \ {c} : stage'[d] = stage[d]
    BY <1>1, LockFileWrites
  <2> DEFINE Good(d) ==
        Alive(d) =>
          /\ stage'[d] \in Owning \ {"drop"} => lock'.owner = d
          /\ lock'.owner = d
               => stage'[d] \in Owning /\ lock'.complete = (stage'[d] # "writing")
  <2>3. SUFFICES \A d \in AllCalls : Good(d)
    BY <2>1
  <2>4. CASE /\ lock' = lock
             /\ stage[c] \notin {"writing", "dropRemove"}
             /\ \/ stage'[c] \notin Owning
                \/ stage[c] = "check" /\ stage'[c] \in {"run", "drop"}
                \/ stage[c] = "run" /\ stage'[c] = "drop"
                \/ stage'[c] = "drop" /\ stage[c] \notin Owning
                \/ /\ stage[c] = "drop" /\ stage'[c] = "dropRemove"
                   /\ lock.owner = c /\ lock.complete
             /\ stage[c] = "drop" /\ lock.owner = c /\ lock.complete
                  => stage'[c] = "dropRemove"
             /\ stage[c] \in {"check", "run"} => stage'[c] \in Owning
    <3>1. Good(c)
      BY <2>2, <2>4 DEF Owning
    <3> QED
      BY <2>2, <2>4, <3>1
  <2>5. CASE /\ stage[c] = "write" /\ stage'[c] = "writing" /\ lock = Missing
             /\ lock' = [owner |-> c, complete |-> FALSE]
    <3>1. lock.owner = None /\ lock'.owner = c /\ lock'.complete = FALSE
      BY <2>5 DEF Missing
    <3> QED
      BY <2>2, <2>5, <3>1 DEF Owning
  <2>6. CASE /\ stage[c] = "writing" /\ stage'[c] = "check"
             /\ lock' = IF lock.owner = c THEN [lock EXCEPT !.complete = TRUE] ELSE lock
    <3>1. lock.owner = c
      BY <2>2, <2>6 DEF Owning
    <3>2. lock'.owner = c /\ lock'.complete = TRUE
      BY <2>6, <3>1 DEF LockTypeOK, LockFiles, Missing
    <3> QED
      BY <2>2, <2>6, <3>1, <3>2 DEF Owning
  <2>7. CASE stage[c] \in {"dropRemove", "reclaim", "remove"}
             /\ stage'[c] \notin Owning /\ lock' = Missing
    <3>1. lock'.owner = None
      BY <2>7 DEF Missing
    <3>2. \A d \in AllCalls \ {c} : Alive(d) => stage[d] \notin Owning \ {"drop"}
      BY <2>2, <2>7 DEF Owning
    <3> QED
      BY <2>2, <2>7, <3>1, <3>2
  <2> QED
    BY <1>1, <2>4, <2>5, <2>6, <2>7, LockFileWrites DEF Owning
<1>2. ASSUME NEW c \in AllCalls, NEW m \in Modes, Begin(c, m) PROVE LockIsOwned'
  BY <1>2 DEF Begin, At, Goto, Alive, Owning, LockTypeOK
<1>3. ASSUME NEW c \in AllCalls, NoticeLoss(c) PROVE LockIsOwned'
  BY <1>3 DEF NoticeLoss, Alive
<1>4. ASSUME NEW p \in Procs, Die(p) PROVE LockIsOwned'
  BY <1>4 DEF Die, Alive
<1> QED
  BY <1>1, <1>2, <1>3, <1>4 DEF LockStep

(***************************************************************************)
(* Where no process dies and nobody says --stale, no call comes to remove  *)
(* the lock of another one.                                                *)
(***************************************************************************)
LEMMA NothingStaleStep ==
  ASSUME LockTypeOK, Calm(world), NothingStale, LockStep
  PROVE  NothingStale'
<1> USE SyncLockAssumption DEF NothingStale, LockTypeOK, At, Goto, Guarded
<1>1. \A f \in LockFiles : ~IsStale(f)
  BY DEF IsStale, Alive, LockFiles, Missing, AllCalls
<1>2. ASSUME NEW c \in AllCalls, NEW m \in Modes, Begin(c, m) PROVE NothingStale'
  BY <1>2 DEF Begin, Calm
<1>3. ASSUME NEW c \in AllCalls, AcquireGuard(c) \/ GuardHeld(c) \/ ReleaseGuard(c)
      PROVE  NothingStale'
  BY <1>3 DEF AcquireGuard, GuardHeld, ReleaseGuard, Over
<1>4. ASSUME NEW c \in AllCalls, Inspect(c) PROVE NothingStale'
  BY <1>1, <1>4 DEF Inspect
<1>5. ASSUME NEW c \in AllCalls,
             Recheck(c) \/ Reclaim(c) \/ Reinspect(c) \/ RemoveLock(c)
      PROVE  FALSE
  BY <1>5 DEF Recheck, Reclaim, Reinspect, RemoveLock
<1>6. ASSUME NEW c \in AllCalls, Create(c) \/ Fill(c) \/ Run(c) \/ Finish(c)
      PROVE  NothingStale'
  BY <1>6 DEF Create, Fill, Run, Finish
<1>7. ASSUME NEW c \in AllCalls, Drop(c) \/ DropRemove(c) PROVE NothingStale'
  BY <1>7 DEF Drop, DropRemove
<1>8. ASSUME NEW c \in AllCalls, UnlockInspect(c) PROVE NothingStale'
  BY <1>1, <1>8 DEF UnlockInspect
<1>9. ASSUME NEW c \in AllCalls, NoticeLoss(c) PROVE NothingStale'
  BY <1>9 DEF NoticeLoss
<1>10. ASSUME NEW p \in Procs, Die(p) PROVE FALSE
  BY <1>10 DEF Die, Calm
<1> QED
  BY <1>2, <1>3, <1>4, <1>5, <1>6, <1>7, <1>8, <1>9, <1>10 DEF LockStep, Work

-----------------------------------------------------------------------------
LEMMA LockInvariantStep == LockIInv /\ [LockNext]_lockVars => LockIInv'
<1> SUFFICES ASSUME LockIInv, [LockNext]_lockVars PROVE LockIInv'
  OBVIOUS
<1>1. CASE UNCHANGED lockVars
  BY <1>1 DEF lockVars, locks, LockIInv, LockTypeOK, GuardExcludes, LockIsOwned,
              NothingStale, Alive
<1>2. CASE LockNext
  <2>1. LockStep /\ world' = world
    BY <1>2 DEF LockNext, LockStep
  <2>2. LockTypeOK' /\ guard' \notin compromised'
    BY <2>1, LockTypeStep DEF LockIInv
  <2>3. CASE ~world.stalls
    <3>1. \A c, d \in AllCalls :
            Alive(c) /\ stage[c] \in {"reclaim", "remove"} /\ Alive(d) /\ stage[d] \in Owning
              => d = c
      BY <2>3 DEF LockIInv, GuardExcludes, Owning, Guarded
    <3> QED
      BY <2>1, <2>2, <2>3, <3>1, GuardStep, OwnedStep DEF LockIInv
  <2>4. CASE world.stalls /\ Calm(world)
    <3>1. \A c \in AllCalls : stage[c] \notin {"reclaim", "remove"}
      BY <2>4 DEF LockIInv, NothingStale
    <3>2. NothingStale' /\ LockIsOwned'
      BY <2>1, <2>4, <3>1, NothingStaleStep, OwnedStep DEF LockIInv
    <3> QED
      BY <2>1, <2>2, <2>4, <3>2 DEF LockIInv
  <2>5. CASE world.stalls /\ ~Calm(world)
    BY <2>1, <2>2, <2>5 DEF LockIInv, Calm
  <2> QED
    BY <2>3, <2>4, <2>5
<1> QED
  BY <1>1, <1>2

(***************************************************************************)
(* The types of the lock and who holds the guard, for any calls and        *)
(* processes: no way out of a call leaves a guard behind, and whoever      *)
(* knows that it lost its guard does not hold it.                          *)
(***************************************************************************)
THEOREM LockInvariant == LockSpec => []LockIInv
BY LockInvariantInit, LockInvariantStep, PTL DEF LockSpec

(***************************************************************************)
(* A step that takes the lock file of a live operation away is its own: in *)
(* a world without missed refreshes whoever writes the lock file holds the *)
(* guard, and a live owner of the lock file holds it too.                  *)
(***************************************************************************)
LEMMA OwnerRemoves ==
  ASSUME LockIInv, LockNext, ~world.stalls, NEW c \in AllCalls,
         lock.owner = c, Alive(c), lock' # lock, lock'.owner # c
  PROVE  stage[c] = "dropRemove"
<1>1. PICK d \in AllCalls : Work(d)
  BY DEF LockNext, Begin, NoticeLoss, Die
<1>2. Alive(d) /\ stage[d] \in {"write", "writing", "dropRemove", "reclaim", "remove"}
  BY <1>1, LockFileWrites DEF LockIInv
<1>3. stage[c] \in Owning /\ GuardExcludes
  BY DEF LockIInv, LockIsOwned
<1>4. c = d
  BY <1>2, <1>3 DEF GuardExcludes, Owning, Guarded
<1>5. stage[c] # "writing"
  <2>1. CASE stage[c] = "writing"
    <3>1. lock' = [lock EXCEPT !.complete = TRUE]
      BY <1>1, <1>4, <2>1, LockFileWrites DEF LockIInv
    <3>2. lock \in LockFiles
      BY DEF LockIInv, LockTypeOK
    <3> QED
      BY <3>1, <3>2 DEF LockFiles, Missing
  <2> QED
    BY <2>1
<1> QED
  BY <1>2, <1>3, <1>4, <1>5 DEF Owning

(***************************************************************************)
(* Neither a recovery nor unlock --stale removes the lock file of a live   *)
(* operation, in any world whose processes refresh their guards in time.   *)
(***************************************************************************)
THEOREM LiveLockCorrect == LockSpec => LiveLockIsKept
<1>1. LockIInv /\ [LockNext]_lockVars =>
        [~world.stalls =>
           \A c \in AllCalls :
             lock.owner = c /\ Alive(c) /\ lock' # lock /\ lock'.owner # c
               => stage[c] = "dropRemove"]_lockVars
  BY OwnerRemoves
<1> QED
  BY <1>1, LockInvariant, PTL DEF LockSpec, LiveLockIsKept

(***************************************************************************)
(* The lock excludes, and a running operation's lock file is there and     *)
(* whole: with any crashes if guards are refreshed in time, and also with  *)
(* missed refreshes where no process dies and nobody says --stale.  In     *)
(* other worlds it does not: there, a lock that was stale when it was      *)
(* looked at is removed when it may be another one.                        *)
(***************************************************************************)
THEOREM LockCorrect ==
  ASSUME \A w \in Worlds : w.stalls => Calm(w)
  PROVE  LockSpec => LockProtects
<1>1. LockIInv => MutualExclusion
  <2> SUFFICES ASSUME LockIInv, NEW c \in Running
               PROVE  lock = [owner |-> c, complete |-> TRUE]
    BY DEF MutualExclusion
  <2>1. LockIsOwned /\ lock \in LockFiles
    BY DEF LockIInv, LockTypeOK
  <2>2. c \in AllCalls /\ Alive(c) /\ stage[c] = "run"
    BY DEF Running, At
  <2>3. lock.owner = c /\ lock.complete = TRUE
    BY <2>1, <2>2 DEF LockIsOwned, Owning
  <2>4. c # None
    BY <2>2, SyncLockAssumption DEF AllCalls
  <2> QED
    BY <2>1, <2>3, <2>4 DEF LockFiles, Missing
<1> QED
  BY <1>1, LockInvariant, LiveLockCorrect, PTL DEF LockProtects
=============================================================================

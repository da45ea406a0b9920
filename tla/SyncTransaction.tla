-------------------------- MODULE SyncTransaction --------------------------
(***************************************************************************)
(* The transaction in which pi-sync applies a snapshot to the files of     *)
(* this machine: what may be replaced is copied and journalled first, a    *)
(* failure restores it, and a crash leaves a journal that the next start   *)
(* recovers from.                                                          *)
(*                                                                         *)
(* Source: packages/pi-sync/src/snapshot-transaction.ts, and the plan made *)
(* in packages/pi-sync/src/snapshot-apply.ts.                              *)
(*                                                                         *)
(* One process works at a time: see SyncLock.  Each file system call is a  *)
(* step; it may throw after part of its effect, and the process may crash  *)
(* in the middle of it.  Symbolic links are treated like files.            *)
(***************************************************************************)
EXTENDS Naturals, FiniteSets

CONSTANTS
    Paths,      \* the managed paths below the agent directory
    Root,       \* the agent directory
    Parent,     \* the directory of each path
    MaxFaults   \* calls that throw, and crashes

ASSUME SyncTransactionAssumption ==
    /\ Root \notin Paths
    /\ Parent \in [Paths -> Paths \cup {Root}]
    /\ MaxFaults \in Nat

VARIABLES
    disk,       \* what is at each path
    before,     \* what was there when the transaction began; the backups'
                \* contents
    remote,     \* the files of the snapshot that is applied
    directory,  \* the transaction's directory exists
    journal,    \* journal.json in it
    saved,      \* <<t, p>>: the backup of target t contains path p
    pc,         \* where the process is
    todo,       \* the targets its loop has not reached
    faults,
    halfDropped \* history: the removal of the directory stopped half way

history == <<faults, halfDropped>>
vars == <<disk, before, remote, directory, journal, saved, pc, todo, history>>

-----------------------------------------------------------------------------
(***************************************************************************)
(* The file system.                                                        *)
(***************************************************************************)
Kinds == {"absent", "dir", "old", "new", "torn"}

IsFile(d, p) == d[p] \notin {"absent", "dir"}

\* The proper ancestors of each path, up to the depth that Paths can have.
AncestorsOf ==
    [p \in Paths |->
       LET up[n \in 0 .. Cardinality(Paths)] ==
             IF n = 0 THEN {p}
             ELSE up[n - 1] \cup {Parent[q] : q \in up[n - 1] \ {Root}}
       IN up[Cardinality(Paths)] \ {p, Root}]

Ancestors(p) == AncestorsOf[p]

Below(t) == {p \in Paths : p = t \/ t \in Ancestors(p)}

WellFormed(d) ==
    \A p \in Paths : d[p] # "absent" /\ Parent[p] # Root => d[Parent[p]] = "dir"

\* A file is in the way of everything below it: ENOTDIR.
Blocked(d, t) == \E a \in Ancestors(t) : IsFile(d, a)

Removed(d, S) == [p \in Paths |-> IF p \in S THEN "absent" ELSE d[p]]

WithParents(d, t) == [p \in Paths |-> IF p \in Ancestors(t) THEN "dir" ELSE d[p]]

Written(d, t, content) == [WithParents(d, t) EXCEPT ![t] = content]

\* What a recursive removal of t may have left when it is interrupted.
PartlyRemoved(d, t) ==
    {Removed(d, S) : S \in {R \in SUBSET Below(t) :
                              \A p \in R : Below(p) \subseteq R}}

PartlyWritten(d, t) == {d, WithParents(d, t), Written(d, t, "torn")}

\* The contents of the files, whatever directories there are.
FilesOf(d) == [p \in Paths |-> IF IsFile(d, p) THEN d[p] ELSE "absent"]

-----------------------------------------------------------------------------
(***************************************************************************)
(* The plan: preflightSnapshotApply for the snapshot with the files R.     *)
(***************************************************************************)
CurrentFiles(d) == {p \in Paths : IsFile(d, p)}

Deletes(d, R) == (CurrentFiles(d) \ R)
                   \cup {q \in R : \E p \in CurrentFiles(d) : q \in Ancestors(p)}

\* Mutant: only what is written is backed up.
WriteTargets(d, R) == R

Targets(d, R) == Deletes(d, R) \cup R

\* A snapshot lists files, so none is below another; a directory is only
\* overwritten if its files are deleted.
Applicable(d, R) ==
    /\ \A p, q \in R : p \notin Ancestors(q)
    /\ \A p \in R : d[p] = "dir" => p \in Deletes(d, R)

\* ensureSafeDirectory creates the missing directories of the writes.
Prepared(d, R) ==
    [p \in Paths |-> IF /\ d[p] = "absent" /\ ~Blocked(d, p)
                        /\ \E q \in R : p \in Ancestors(q)
                     THEN "dir" ELSE d[p]]

Backups == {e \in Targets(before, remote) \X Paths :
              e[2] \in Below(e[1]) /\ before[e[2]] # "absent"}

-----------------------------------------------------------------------------
Types ==
    /\ disk \in [Paths -> Kinds] /\ before \in [Paths -> Kinds]
    /\ remote \subseteq Paths /\ todo \subseteq Paths
    /\ directory \in BOOLEAN
    /\ journal \in {"absent", "torn", "whole"}
    /\ saved \subseteq Backups
    /\ journal # "absent" => directory
    /\ pc \in {"idle", "prepare", "delete", "write", "remove", "copy", "done"}
    /\ faults \in 0 .. MaxFaults
    /\ halfDropped \in BOOLEAN

TypeOK == Types /\ WellFormed(disk)

Init ==
    /\ disk \in {d \in [Paths -> {"absent", "dir", "old"}] : WellFormed(d)}
    /\ before = disk
    /\ remote = {}
    /\ directory = FALSE /\ journal = "absent" /\ saved = {}
    /\ pc = "idle" /\ todo = {}
    /\ faults = 0
    /\ halfDropped = FALSE

-----------------------------------------------------------------------------
(***************************************************************************)
(* applySnapshotTransaction.                                               *)
(***************************************************************************)
\* No transaction is pending, and the transaction's directory is created.
Apply(R) ==
    /\ pc = "idle"
    /\ ~directory
    /\ Applicable(disk, R)
    /\ disk' = Prepared(disk, R)
    /\ before' = disk'
    /\ remote' = R
    /\ directory' = TRUE
    /\ pc' = "prepare"
    /\ UNCHANGED <<journal, saved, todo, history>>

\* Mutant: the journal comes before the backups.
JournalFirst ==
    /\ pc = "prepare"
    /\ journal' = "whole"
    /\ IF journal = "whole" THEN saved' = Backups /\ pc' = "delete"
       ELSE UNCHANGED <<saved, pc>>
    /\ todo' = Deletes(before, remote)
    /\ UNCHANGED <<disk, before, remote, directory, history>>

\* All targets are copied, and then the journal is written.
WriteJournal ==
    /\ pc = "prepare"
    /\ saved' = Backups
    /\ journal' = "whole"
    /\ pc' = "delete"
    /\ todo' = Deletes(before, remote)
    /\ UNCHANGED <<disk, before, remote, directory, history>>

Delete(t) ==
    /\ pc = "delete" /\ t \in todo
    /\ ~Blocked(disk, t)
    /\ disk' = Removed(disk, Below(t))
    /\ todo' = todo \ {t}
    /\ UNCHANGED <<before, remote, directory, journal, saved, pc, history>>

DeletesDone ==
    /\ pc = "delete" /\ todo = {}
    /\ pc' = "write"
    /\ todo' = remote
    /\ UNCHANGED <<disk, before, remote, directory, journal, saved, history>>

Write(t) ==
    /\ pc = "write" /\ t \in todo
    /\ ~Blocked(disk, t) /\ disk[t] # "dir"
    /\ disk' = Written(disk, t, "new")
    /\ todo' = todo \ {t}
    /\ UNCHANGED <<before, remote, directory, journal, saved, pc, history>>

DropDirectory ==
    /\ directory' = FALSE
    /\ journal' = "absent"
    /\ saved' = {}

\* The transaction is over when its directory is gone.
Commit ==
    /\ pc = "write" /\ todo = {}
    /\ DropDirectory
    /\ pc' = "done"
    /\ UNCHANGED <<disk, before, remote, todo, history>>

-----------------------------------------------------------------------------
(***************************************************************************)
(* restoreTransaction: the deepest targets are removed first, and copied   *)
(* back last.                                                              *)
(***************************************************************************)
StartRestore ==
    /\ pc' = "remove"
    /\ todo' = Targets(before, remote)

DeepestFirst(t) == t \in todo /\ \A p \in todo \ {t} : p \notin Below(t)

Remove(t) ==
    /\ pc = "remove"
    /\ DeepestFirst(t)
    /\ ~Blocked(disk, t)
    /\ disk' = Removed(disk, Below(t))
    /\ todo' = todo \ {t}
    /\ UNCHANGED <<before, remote, directory, journal, saved, pc, history>>

RemovesDone ==
    /\ pc = "remove" /\ todo = {}
    /\ pc' = "copy"
    /\ todo' = Targets(before, remote)
    /\ UNCHANGED <<disk, before, remote, directory, journal, saved, history>>

\* A missing entry is skipped; a directory's backup is copied as it is.
Restored(d, t) ==
    IF before[t] = "absent" THEN d
    ELSE [p \in Paths |-> IF <<t, p>> \in saved THEN before[p] ELSE WithParents(d, t)[p]]

CanCopy(t) ==
    before[t] # "absent" =>
      /\ <<t, t>> \in saved
      /\ ~Blocked(disk, t)
      /\ IF before[t] = "dir" THEN ~IsFile(disk, t) ELSE disk[t] # "dir"

\* Targets are sorted, so a directory comes before what is below it.
Copy(t) ==
    /\ pc = "copy" /\ t \in todo
    /\ Ancestors(t) \cap todo = {}
    /\ CanCopy(t)
    /\ disk' = Restored(disk, t)
    /\ todo' = todo \ {t}
    /\ UNCHANGED <<before, remote, directory, journal, saved, pc, history>>

RestoreDone ==
    /\ pc = "copy" /\ todo = {}
    /\ DropDirectory
    /\ pc' = "idle"
    /\ UNCHANGED <<disk, before, remote, todo, history>>

\* A removal or a copy that cannot be done throws out of the restoration.
RestoreThrows ==
    /\ \/ pc = "remove" /\ \E t \in todo : DeepestFirst(t) /\ Blocked(disk, t)
       \/ /\ pc = "copy"
          /\ \E t \in todo : Ancestors(t) \cap todo = {} /\ ~CanCopy(t)
    /\ pc' = "idle" /\ todo' = {}
    /\ UNCHANGED <<disk, before, remote, directory, journal, saved, history>>

-----------------------------------------------------------------------------
(***************************************************************************)
(* recoverPendingSnapshotTransactions, at the start of a session and       *)
(* before every apply.  A malformed journal throws, and nothing changes.   *)
(***************************************************************************)
Recover ==
    /\ pc = "idle" /\ directory
    /\ \/ journal = "absent" /\ DropDirectory /\ UNCHANGED <<pc, todo>>
       \/ journal = "whole" /\ StartRestore /\ UNCHANGED <<directory, journal, saved>>
    /\ UNCHANGED <<disk, before, remote, history>>

-----------------------------------------------------------------------------
(***************************************************************************)
(* Faults.                                                                 *)
(***************************************************************************)
\* What the call under way may have done to the files.
FilesTouched ==
    disk' \in CASE pc = "delete" -> UNION {PartlyRemoved(disk, t) : t \in todo}
                [] pc = "write"  -> UNION {PartlyWritten(disk, t) :
                                             t \in {u \in todo : ~Blocked(disk, u)}}
                [] pc = "remove" -> UNION {PartlyRemoved(disk, t) :
                                             t \in {u \in todo : DeepestFirst(u)}}
                [] pc = "copy"   -> UNION {PartlyWritten(disk, t) :
                                             t \in {u \in todo : CanCopy(u)
                                                      /\ Ancestors(u) \cap todo = {}}}
                [] OTHER -> {}

\* What it may have left of the transaction's directory, whose entries are
\* removed in no particular order.
DirectoryTouched ==
    /\ pc \in {"write", "copy"} /\ todo = {}
    /\ journal' \in {journal, "absent"}
    /\ saved' \in {S \in SUBSET saved :
                     \A e \in S : \A p \in Ancestors(e[2]) : <<e[1], p>> \in saved
                                                            => <<e[1], p>> \in S}
    /\ <<journal, saved>>' # <<journal, saved>>

JournalTouched == pc = "prepare" /\ journal' = "torn"

Touched ==
    \/ UNCHANGED <<disk, journal, saved, halfDropped>>
    \/ FilesTouched /\ UNCHANGED <<journal, saved, halfDropped>>
    \/ DirectoryTouched /\ halfDropped' = TRUE /\ UNCHANGED disk
    \/ JournalTouched /\ UNCHANGED <<disk, saved, halfDropped>>

\* A call of applySnapshotTransaction throws, and the catch restores.
Throws ==
    /\ pc \in {"delete", "write"}
    /\ faults < MaxFaults /\ faults' = faults + 1
    /\ Touched
    /\ StartRestore
    /\ UNCHANGED <<before, remote, directory>>

\* A crash; or a call of prepareTransaction or restoreTransaction throws,
\* which leaves the directory as it is.
Crash ==
    /\ pc \notin {"idle", "done"}
    /\ faults < MaxFaults /\ faults' = faults + 1
    /\ Touched
    /\ pc' = "idle" /\ todo' = {}
    /\ UNCHANGED <<before, remote, directory>>

-----------------------------------------------------------------------------
Step ==
    \/ WriteJournal
    \/ \E t \in Paths : Delete(t) \/ Write(t) \/ Remove(t) \/ Copy(t)
    \/ DeletesDone \/ Commit \/ RemovesDone \/ RestoreDone \/ RestoreThrows
    \/ Recover

Next ==
    \/ \E R \in SUBSET Paths : Apply(R)
    \/ Step
    \/ Throws \/ Crash

Spec == Init /\ [][Next]_vars

\* The process goes on, and a later session starts a recovery.
FairSpec == Spec /\ WF_vars(Step)

-----------------------------------------------------------------------------
(***************************************************************************)
(* Properties.                                                             *)
(***************************************************************************)
After == [p \in Paths |-> IF p \in remote THEN "new" ELSE "absent"]

(***************************************************************************)
(* Whatever fails and whenever the process dies, the files are as they     *)
(* were, or as the snapshot has them, or everything that was there can     *)
(* still be restored from the journal; unless the removal of the           *)
(* transaction's directory stopped half way.                               *)
(***************************************************************************)
NothingLost ==
    \/ FilesOf(disk) = FilesOf(before)
    \/ FilesOf(disk) = After
    \/ journal = "whole" /\ saved = Backups

NothingLostUntilDropped == ~halfDropped => NothingLost

(***************************************************************************)
(* An apply that reports success has applied the whole snapshot.           *)
(***************************************************************************)
DoneMeansApplied == pc = "done" => FilesOf(disk) = After

(***************************************************************************)
(* A restoration that ends has undone the apply, even if it is the second  *)
(* or third attempt.                                                       *)
(***************************************************************************)
RestoresBefore ==
    [][pc = "copy" /\ pc' = "idle" /\ ~directory' =>
         FilesOf(disk') = FilesOf(before)]_vars

(***************************************************************************)
(* An apply happens whole or can be undone, and one that reports success   *)
(* has happened whole.                                                     *)
(***************************************************************************)
ApplyIsAtomic == NothingLostUntilDropped /\ DoneMeansApplied

\* No file takes the place of a directory, and no directory that of a file.
KeepsKinds == \A p \in remote : before[p] # "dir" /\ ~Blocked(before, p)

(***************************************************************************)
(* Every interrupted transaction is recovered some time, if it replaces    *)
(* files by files and the crash left the journal and the backups whole.    *)
(***************************************************************************)
RecoversInterrupted ==
    directory /\ KeepsKinds ~> ~directory \/ journal = "torn" \/ halfDropped

(***************************************************************************)
(* Recovery comes and is exact.                                            *)
(***************************************************************************)
RecoveryRestores == RestoresBefore /\ RecoversInterrupted

-----------------------------------------------------------------------------
(***************************************************************************)
(* The inductive invariant behind the safety properties.                   *)
(***************************************************************************)
Undone == pc \in {"delete", "write", "remove", "copy"}

\* All files, of before and of now, are targets, whatever fails.
FilesAreTargets ==
    /\ pc \notin {"idle", "done"} => directory
    /\ directory => \A p \in Paths : IsFile(disk, p) => p \in Targets(before, remote)

\* A whole journal comes with all backups, and without one nothing has happened.
JournalTells ==
    /\ ~directory => saved = {}
    /\ pc \in {"delete", "write"} => saved = Backups
    /\ pc = "prepare" => disk = before /\ journal = "absent"
    /\ ~halfDropped =>
          /\ Undone => journal = "whole"
          /\ journal = "whole" => saved = Backups
          /\ journal # "whole" /\ pc # "done" => FilesOf(disk) = FilesOf(before)

\* What each loop has done so far.
LoopsProgress ==
    /\ pc = "delete" =>
          /\ todo \subseteq Deletes(before, remote)
          /\ \A p \in Paths : IsFile(disk, p) => IsFile(before, p)
          /\ \A t \in Deletes(before, remote) \ todo : disk[t] = "absent"
    /\ pc = "write" =>
          /\ todo \subseteq remote
          /\ \A p \in Paths : IsFile(disk, p) => p \in remote
          /\ \A t \in remote \ todo : disk[t] = "new"
    /\ pc = "remove" =>
          /\ todo \subseteq Targets(before, remote)
          /\ \A t \in Targets(before, remote) \ todo : disk[t] = "absent"
    /\ pc = "copy" =>
          /\ todo \subseteq Targets(before, remote)
          /\ \A p \in Paths : IsFile(disk, p) => disk[p] = before[p]
          /\ \A t \in Targets(before, remote) \ todo :
                IsFile(before, t) => disk[t] = before[t]

IInv == Types /\ FilesAreTargets /\ JournalTells /\ LoopsProgress /\ DoneMeansApplied
=============================================================================

-------------------------- MODULE MCSyncTransaction --------------------------
(***************************************************************************)
(* Instances of SyncTransaction for TLC: a directory d with two files in  *)
(* it, and another file; each of them may be a file, a directory or absent. *)
(***************************************************************************)
EXTENDS SyncTransaction, TLC

CONSTANTS d, child, other, file

ParentOf == (d :> Root) @@ (child :> d) @@ (other :> d) @@ (file :> Root)
=============================================================================

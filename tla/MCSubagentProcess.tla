------------------------- MODULE MCSubagentProcess -------------------------
(***************************************************************************)
(* Instances of SubagentProcess for TLC.                                   *)
(***************************************************************************)
EXTENDS SubagentProcess
=============================================================================

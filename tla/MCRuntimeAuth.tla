--------------------------- MODULE MCRuntimeAuth ----------------------------
(***************************************************************************)
(* Instances of RuntimeAuth for TLC.                                       *)
(***************************************************************************)
EXTENDS RuntimeAuth
=============================================================================

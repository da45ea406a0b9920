-------------------------- MODULE MCSubagentBroker --------------------------
(***************************************************************************)
(* Instances of SubagentBroker for TLC.                                    *)
(***************************************************************************)
EXTENDS SubagentBroker, TLC

\* Slots of connections are interchangeable, and so are jobs, the unused
\* field of a blank record aside; request identities are ordered.
ConnSymmetry == Permutations(Conns)
=============================================================================

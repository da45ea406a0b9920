--------------------------- MODULE MCFleetDelivery ---------------------------
(***************************************************************************)
(* Instances of FleetDelivery for TLC.  Two kickoffs compete for a launch; *)
(* two frames of a message are the first delivery and one that repeats it. *)
(***************************************************************************)
EXTENDS FleetDelivery, TLC

CONSTANTS r1, k1, k2

Symmetry == Permutations(Kickoffs)
=============================================================================

--------------------------- MODULE MC_Coordinator ---------------------------
(* Model-checking instance of Coordinator.  Peers, servers, connections   *)
(* and users are model values given in the .cfg; their names carry no    *)
(* meaning, so permuting them is a symmetry.                              *)
EXTENDS Coordinator, TLC

MCSymmetry == Permutations(Peers) \cup Permutations(Users)
              \cup Permutations(Conns) \cup Permutations(Servers)
=============================================================================

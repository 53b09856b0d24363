------------------------ MODULE MCManagerSelection ------------------------
(***************************************************************************)
(* ManagerSelection with a symmetry set for TLC.                           *)
(***************************************************************************)
EXTENDS ManagerSelection, TLC

Symmetry == Permutations(Owners)
============================================================================

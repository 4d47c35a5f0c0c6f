---------------------------- MODULE MC_ConfigMgmt ----------------------------
(***************************************************************************)
(* An instance of ConfigMgmt.  Configurations are only compared with each  *)
(* other, so permuting them changes nothing.                               *)
(***************************************************************************)
EXTENDS ConfigMgmt, TLC

Symmetry == Permutations(Configs)
=============================================================================

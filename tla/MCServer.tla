------------------------------ MODULE MCServer ------------------------------
(***************************************************************************)
(* Instances of Server for TLC; the .cfg files choose the sizes. Ids are   *)
(* model values, and nothing but equality tells two of them apart.         *)
(***************************************************************************)
EXTENDS Server, TLC

Symmetry == Permutations(JobIds) \cup Permutations(AssetIds)
=============================================================================

------------------------------ MODULE MCRuntime ------------------------------
(***************************************************************************)
(* Small instances of TenantRuntime for TLC.                               *)
(***************************************************************************)
EXTENDS TenantRuntime, TLC

RuntimeSymmetry == Permutations(Calls) \cup Permutations(Ids)
=============================================================================

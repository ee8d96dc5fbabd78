----------------------------- MODULE MCConnCtx -----------------------------
(***************************************************************************)
(* ConnCtx for TLC.  Contexts and descriptors are only compared for        *)
(* equality, so both sets are symmetric for the safety properties.         *)
(***************************************************************************)
EXTENDS ConnCtx

Symmetry == Permutations(Ctx) \cup Permutations(Fd)
=============================================================================

---------------------------- MODULE MCFeeEngine ----------------------------
(***************************************************************************)
(* Small instances of FeeEngine for TLC.                                   *)
(***************************************************************************)
EXTENDS FeeEngine, TLC

CONSTANTS m1, o1, o2, v1, v2, v3, weth

\* The vaults differ in nothing but their names.
Vaults == Permutations({v1, v2})
=============================================================================

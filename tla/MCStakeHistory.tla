--------------------------- MODULE MCStakeHistory ---------------------------
(***************************************************************************)
(* Small instances of StakeHistory for TLC.                                *)
(***************************************************************************)
EXTENDS StakeHistory

CONSTANTS c, m1
=============================================================================

------------------------------ MODULE MCCanary ------------------------------
(***************************************************************************)
(* A small instance of Canary: its constants are all numbers.              *)
(***************************************************************************)
EXTENDS Canary, TLC
=============================================================================

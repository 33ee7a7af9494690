---------------------------- MODULE MCSignQueue ----------------------------
(***************************************************************************)
(* The Arc launch on a small scale: a contract the deployer creates, the   *)
(* read-back that checks it, and the two calls of the first vault through  *)
(* the Safe, the second with the vault's address from the first's receipt. *)
(***************************************************************************)
EXTENDS SignQueue

CONSTANTS deploy, readback, make, register

ItemDef == {deploy, readback, make, register}

KindDef ==
    [i \in ItemDef |-> CASE i = deploy   -> "create"
                         [] i = readback -> "check"
                         [] OTHER        -> "safe"]

DependsOnDef ==
    [i \in ItemDef |-> CASE i = deploy   -> {}
                         [] i = readback -> {deploy}
                         [] i = make     -> {readback}
                         [] OTHER        -> {make}]

ReadsDef == [i \in ItemDef |-> IF i = register THEN {make} ELSE {}]

SlotDef == [i \in ItemDef |-> IF i = register THEN 1 ELSE 0]

RebuiltDef == {make, register}

===========================================================================

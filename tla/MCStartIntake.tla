---------------------------- MODULE MCStartIntake ----------------------------
(* The instance of StartIntake for TLC: one direct start and one resume      *)
(* competing for one slot.                                                   *)
EXTENDS StartIntake

CONSTANTS d1, r1
=============================================================================

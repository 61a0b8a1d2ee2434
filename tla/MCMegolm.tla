------------------------------- MODULE MCMegolm -------------------------------
(***************************************************************************)
(* MegolmWalk for TLC: digits of two bits, so a counter of eight bits, and *)
(* every pair of a start and a target.                                     *)
(***************************************************************************)
EXTENDS MegolmWalk
==============================================================================

--------------------------- MODULE MCDoubleRatchet ---------------------------
(***************************************************************************)
(* DoubleRatchet for TLC: every limit is within reach of four messages an  *)
(* end.                                                                    *)
(***************************************************************************)
EXTENDS DoubleRatchet
==============================================================================

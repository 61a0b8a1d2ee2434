--------------------------- MODULE MCSessionSetup ---------------------------
(***************************************************************************)
(* SessionSetup with one one-time key each: both users may start at once.  *)
(***************************************************************************)
EXTENDS SessionSetup
==============================================================================

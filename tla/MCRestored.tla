----------------------------- MODULE MCRestored -----------------------------
(***************************************************************************)
(* RestoredSessions for TLC, at the tightest limits: one receiver chain    *)
(* and one skipped key, so that both lists are full almost always.         *)
(***************************************************************************)
EXTENDS RestoredSessions
=============================================================================

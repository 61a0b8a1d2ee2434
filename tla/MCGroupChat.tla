----------------------------- MODULE MCGroupChat -----------------------------
(* GroupChat for TLC.  Digits of one bit make a counter of four bits: half of *)
(* its range, beyond which indices are ordered the wrong way round, is eight, *)
(* more than the messages of the cfg.  The lowest part is reseeded from index *)
(* two on, the highest never is.  A counter is moved by one either way, or to *)
(* where the conversation is reached only around the end of the range.        *)
EXTENDS GroupChat

Damage(parts, shift, other_key) ==
    [parts |-> parts, shift |-> shift, other_key |-> other_key]

MCDamages ==
    { Damage({3}, 0, FALSE), Damage(Parts, 0, FALSE), Damage({}, 0, TRUE),
      Damage({}, 1, FALSE), Damage({}, 15, FALSE), Damage({}, 12, FALSE),
      Damage({3}, 15, FALSE), Damage({0}, 12, TRUE) }
==============================================================================

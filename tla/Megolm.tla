-------------------------------- MODULE Megolm --------------------------------
(***************************************************************************)
(* The hash ratchet of group sessions, src/megolm.c: a counter of four     *)
(* digits and one value per digit.  A digit that ticks rehashes its own    *)
(* value and reseeds the values of the lower digits from it.  The code has *)
(* digits of eight bits, a Radix of 256.                                   *)
(*                                                                         *)
(* A value is the record of how it was derived: the name of its random     *)
(* seed, then the seed of each HMAC applied.  HMAC has no collisions, so   *)
(* two values are equal only if they were derived in the same way.         *)
(***************************************************************************)
EXTENDS Integers, Sequences

CONSTANT Radix                         \* the values of a digit of the counter

ASSUME RadixAssumption == Radix \in Nat \ {0, 1}

Parts   == 0..3                        \* MEGOLM_RATCHET_PARTS

\* 1 << shift, where shift = (MEGOLM_RATCHET_PARTS - j - 1) * 8
Unit(j) == <<Radix * Radix * Radix, Radix * Radix, Radix, 1>>[j + 1]

Period  == Radix * Unit(0)             \* the counter is a uint32_t
Counter == 0 .. Period - 1

\* counter & mask
RoundedTo(counter, j) == (counter \div Unit(j)) * Unit(j)

MegolmInit(random_data, counter) == [counter |-> counter, data |-> random_data]

\* data[to] = HMAC(data[from], seed of to), for each to from `from` up: all the
\* parts below a part are rehashed from the value it had.
RehashFrom(data, from) ==
    [i \in Parts |-> IF i < from THEN data[i] ELSE Append(data[from], i)]

\* data[part] rehashed from itself a number of times.
RehashPart(data, part, times) ==
    [data EXCEPT ![part] = @ \o [n \in 1..times |-> part]]

\* The highest digit that ticks is the first whose lower digits are all zero.
Advance(megolm) ==
    LET counter == (megolm.counter + 1) % Period
        h       == CHOOSE j \in Parts : /\ counter % Unit(j) = 0
                                        /\ \A k \in 0 .. j - 1 : counter % Unit(k) # 0
    IN  [counter |-> counter, data |-> RehashFrom(megolm.data, h)]

\* Mutant: a way around the end of the counter does not turn R(0).
StepsWithoutWrap(megolm, advance_to, j) ==
    ((advance_to \div Unit(j)) - (megolm.counter \div Unit(j))) % Radix

\* How often the digit j ticks on the way: its difference, except that a way
\* around the end of the counter that leaves R(0)'s digit where it was is a
\* whole turn of it.
Steps(megolm, advance_to, j) ==
    LET steps == ((advance_to \div Unit(j)) - (megolm.counter \div Unit(j))) % Radix
    IN  IF steps = 0 /\ advance_to < megolm.counter THEN Radix ELSE steps

\* Mutant: the counter is not brought up to the digit that was advanced.
AdvancePartKeepsCounter(megolm, advance_to, j) ==
    LET steps == Steps(megolm, advance_to, j)
    IN  IF steps = 0 THEN megolm
        ELSE [counter |-> megolm.counter,
              data    |-> RehashFrom(RehashPart(megolm.data, j, steps - 1), j)]

\* One iteration of the loop over the parts: all but the last step rehash R(j)
\* alone, the last one reseeds the lower parts as well.
AdvancePart(megolm, advance_to, j) ==
    LET steps == Steps(megolm, advance_to, j)
    IN  IF steps = 0 THEN megolm
        ELSE [counter |-> RoundedTo(advance_to, j),
              data    |-> RehashFrom(RehashPart(megolm.data, j, steps - 1), j)]

\* The loop, j from 0 to 3.
AdvanceTo(megolm, advance_to) ==
    LET R0 == AdvancePart(megolm, advance_to, 0)
        R1 == AdvancePart(R0, advance_to, 1)
        R2 == AdvancePart(R1, advance_to, 2)
    IN  AdvancePart(R2, advance_to, 3)

\* The HMACs that one iteration and a whole call compute.
PartHashes(megolm, advance_to, j) ==
    LET steps == Steps(megolm, advance_to, j)
    IN  IF steps = 0 THEN 0 ELSE steps - 1 + (4 - j)

Hashes(megolm, advance_to) ==
    LET R0 == AdvancePart(megolm, advance_to, 0)
        R1 == AdvancePart(R0, advance_to, 1)
        R2 == AdvancePart(R1, advance_to, 2)
    IN  PartHashes(megolm, advance_to, 0) + PartHashes(R0, advance_to, 1)
            + PartHashes(R1, advance_to, 2) + PartHashes(R2, advance_to, 3)
==============================================================================

------------------------------ MODULE MegolmWalk ------------------------------
(***************************************************************************)
(* A ratchet that starts at any counter and is advanced one step at a time,*)
(* the reference definition of where megolm_advance_to must arrive.  A walk*)
(* is shorter than a turn of the counter: a call that is to go nowhere goes*)
(* nowhere, not around.                                                    *)
(***************************************************************************)
EXTENDS Megolm

VARIABLES start,     \* the ratchet as it was initialised
          here,      \* the ratchet now
          distance   \* how many steps lie between them

vars == <<start, here, distance>>

\* Random data: one seed for each part.
Seeds == [i \in Parts |-> <<i>>]

Init ==
    /\ start \in { MegolmInit(Seeds, counter) : counter \in Counter }
    /\ here = start
    /\ distance = 0

Step ==
    /\ distance < Period - 1
    /\ here' = Advance(here)
    /\ distance' = distance + 1
    /\ UNCHANGED start

Next == Step

Spec == Init /\ [][Next]_vars

-----------------------------------------------------------------------------

\* megolm_advance_to reaches in one call what megolm_advance reaches in as many
\* steps as lie between, also around the end of the 32-bit counter.
JumpIsWalk == AdvanceTo(start, here.counter) = here

\* A call computes at most 1026 HMACs with digits of eight bits, and the one from the
\* first index to the last computes as many: each digit ticks less than a turn, R(0)
\* at most one turn, and the last tick of a digit reseeds the ones below it too.
\* docs/megolm.rst says that 1023 are enough.
HashesBounded ==
    /\ Hashes(start, here.counter) <= 4 * (Radix - 1) + 6
    /\ start.counter = 0 /\ here.counter = Period - 1
          => Hashes(start, here.counter) = 4 * (Radix - 1) + 6
==============================================================================

--------------------------- MODULE MegolmWalkProofs ---------------------------
(***************************************************************************)
(* megolm_advance_to against single steps, for digits of any radix, any    *)
(* start and any number of steps short of a whole turn of the counter.     *)
(***************************************************************************)
EXTENDS MegolmWalk, MegolmProofs

\* The walk knows where it is; that a jump would be there too is kept by JumpTwice.
WalkInv ==
    /\ start \in MegolmState
    /\ here \in MegolmState
    /\ distance \in 0 .. Period - 1
    /\ here.counter = (start.counter + distance) % Period
    /\ here = AdvanceTo(start, here.counter)

\* Random data is a ratchet's data.
LEMMA SeedsType == Seeds \in Data
<1>1. \A i \in Parts : <<i>> \in Seq(Nat)
  BY DEF Parts
<1> QED  BY <1>1 DEF Seeds, Data, Value

LEMMA WalkStarts == Init => WalkInv
<1> SUFFICES ASSUME Init PROVE WalkInv
  OBVIOUS
<1>1. start \in MegolmState
  BY SeedsType DEF Init, MegolmInit, MegolmState
<1>2. distance \in 0 .. Period - 1 /\ here.counter = (start.counter + distance) % Period
  <2>1. PICK c \in Nat : c = start.counter /\ c <= Period - 1
    BY <1>1, UnitFacts DEF MegolmState, Counter
  <2>2. c % Period = c
    <3>1. c \in 0 .. Period - 1
      BY <2>1
    <3> QED  BY <3>1, UnitFacts, Remainder
  <2> QED  BY <2>1, <2>2, UnitFacts DEF Init
<1>3. here = AdvanceTo(start, here.counter)
  BY <1>1, JumpNowhere DEF Init
<1> QED  BY <1>1, <1>2, <1>3 DEF Init, WalkInv

\* A walk of less than a turn does not pass its start.
LEMMA WalkOrdered ==
    ASSUME NEW s \in Counter, NEW d \in Nat, d < Period - 1, NEW a, NEW b,
           a = (s + d) % Period, b = (a + 1) % Period
    PROVE  Ordered(s, a, b) /\ b = (s + (d + 1)) % Period
<1>0. PICK n \in Nat \ {0} : n = Period /\ s \in Nat /\ s <= n - 1
  BY UnitFacts DEF Counter
<1>1. \A x \in Nat : x < n => x % n = x
  <2>1. \A x \in Nat : x < n => x \in 0 .. n - 1
    OBVIOUS
  <2> QED  BY <2>1, Remainder
<1>2. \A x \in Nat : n <= x /\ x < 2 * n => x % n = x - n
  <2> SUFFICES ASSUME NEW x \in Nat, n <= x, x < 2 * n PROVE x % n = x - n
    OBVIOUS
  <2>1. 1 * n <= x /\ x < 1 * n + n
    OBVIOUS
  <2>2. x \div n = 1
    BY <2>1, DivisionUnique
  <2>3. x = (x \div n) * n + (x % n) /\ x % n \in Int
    BY DivisionWhole
  <2> QED  BY <2>2, <2>3
<1>3. CASE s + d + 1 < n
  <2>1. a = s + d /\ b = s + d + 1
    BY <1>0, <1>1, <1>3
  <2> QED  BY <1>0, <1>1, <1>3, <2>1 DEF Ordered
<1>4. CASE s + d + 1 = n
  <2>1. a = s + d
    BY <1>0, <1>1, <1>4
  <2>2. n % n = 0
    BY <1>2
  <2>3. b = 0 /\ s > 0
    BY <1>0, <1>4, <2>1, <2>2
  <2> QED  BY <1>0, <1>4, <2>1, <2>2, <2>3 DEF Ordered
<1>5. CASE s + d + 1 > n
  <2>1. a = s + d - n
    BY <1>0, <1>2, <1>5
  <2>2. b = s + d + 1 - n
    BY <1>0, <1>1, <1>5, <2>1
  <2>3. (s + (d + 1)) % n = s + d + 1 - n
    BY <1>0, <1>2, <1>5
  <2> QED  BY <1>0, <1>5, <2>1, <2>2, <2>3 DEF Ordered
<1> QED  BY <1>0, <1>3, <1>4, <1>5

LEMMA WalkGoesOn == WalkInv /\ [Next]_vars => WalkInv'
<1> SUFFICES ASSUME WalkInv, [Next]_vars PROVE WalkInv'
  OBVIOUS
<1>1. CASE UNCHANGED vars
  BY <1>1 DEF WalkInv, vars
<1>2. CASE Step
  <2>1. PICK s \in Counter, a \in Counter :
           s = start.counter /\ a = here.counter /\ start \in MegolmState /\ here \in MegolmState
    BY DEF WalkInv, MegolmState
  <2>2. PICK b \in Counter : b = (a + 1) % Period /\ here' = AdvanceTo(here, b)
    BY <1>2, <2>1, StepIsJump DEF Step
  <2>3. /\ distance \in Nat /\ distance < Period - 1
        /\ distance' = distance + 1 /\ distance' \in 0 .. Period - 1
    BY <1>2, UnitFacts DEF WalkInv, Step
  <2>4. Ordered(s, a, b) /\ b = (s + distance') % Period
    <3>1. a = (s + distance) % Period
      BY <2>1 DEF WalkInv
    <3> QED  BY <2>2, <2>3, <3>1, WalkOrdered
  <2>5. here' \in MegolmState /\ here'.counter = b
    BY <2>1, <2>2, JumpArrives
  <2>6. here' = AdvanceTo(start, b)
    <3>1. here = AdvanceTo(start, a)
      BY <2>1 DEF WalkInv
    <3> QED  BY <2>1, <2>2, <2>4, <3>1, JumpTwice
  <2>7. start' = start
    BY <1>2 DEF Step
  <2> QED  BY <2>1, <2>3, <2>4, <2>5, <2>6, <2>7 DEF WalkInv
<1> QED  BY <1>1, <1>2 DEF Next

LEMMA WalkAlways == Spec => []WalkInv
BY WalkStarts, WalkGoesOn, PTL DEF Spec

\* megolm_advance_to computes what as many calls of megolm_advance would, from any
\* counter and also around its end.
THEOREM JumpIsWalkAlways == Spec => []JumpIsWalk
<1>1. WalkInv => JumpIsWalk
  BY DEF WalkInv, JumpIsWalk
<1> QED  BY <1>1, WalkAlways, PTL

\* No call computes more HMACs than each digit can tick, and the reseeds; the way from
\* the first index to the last takes that many.
THEOREM HashesBoundedAlways == Spec => []HashesBounded
<1>1. WalkInv => HashesBounded
  <2> SUFFICES ASSUME WalkInv PROVE HashesBounded
    OBVIOUS
  <2>1. PICK m \in MegolmState, t \in Counter : m = start /\ t = here.counter
    BY DEF WalkInv, MegolmState
  <2>2. Hashes(m, t) <= 4 * (Radix - 1) + 6
    BY HashesOfACall
  <2>3. m.counter = 0 /\ t = Period - 1 => Hashes(m, t) = 4 * (Radix - 1) + 6
    BY HashesAttained
  <2> QED  BY <2>1, <2>2, <2>3 DEF HashesBounded
<1> QED  BY <1>1, WalkAlways, PTL
==============================================================================

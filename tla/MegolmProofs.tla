----------------------------- MODULE MegolmProofs -----------------------------
(***************************************************************************)
(* Facts about megolm_advance and megolm_advance_to, for every radix: a    *)
(* jump arrives at its target, two jumps in a row are one, and a single    *)
(* step is the jump to the next index.                                     *)
(***************************************************************************)
EXTENDS Megolm, SequenceTheorems, TLAPS

USE RadixAssumption

Value       == Seq(Nat)
Data        == [Parts -> Value]
MegolmState == [counter : Counter, data : Data]

-----------------------------------------------------------------------------
(* Division *)

LEMMA Division ==
    ASSUME NEW c \in Nat, NEW n \in Nat \ {0}
    PROVE  c \div n \in Nat /\ (c \div n) * n <= c /\ c < (c \div n) * n + n
OBVIOUS

LEMMA DivisionWhole ==
    ASSUME NEW c \in Nat, NEW n \in Nat \ {0}
    PROVE  c = (c \div n) * n + (c % n) /\ c % n \in 0 .. n - 1
OBVIOUS

LEMMA DivisionUnique ==
    ASSUME NEW c \in Nat, NEW n \in Nat \ {0}, NEW q \in Nat, q * n <= c, c < q * n + n
    PROVE  c \div n = q
<1>1. PICK d \in Nat : d = c \div n /\ d * n <= c /\ c < d * n + n
  BY Division
<1>2. ASSUME d < q PROVE FALSE
  <2>1. (d + 1) * n <= q * n
    BY <1>2
  <2> QED  BY <1>1, <2>1
<1>3. ASSUME q < d PROVE FALSE
  <2>1. (q + 1) * n <= d * n
    BY <1>3
  <2> QED  BY <1>1, <2>1
<1> QED  BY <1>1, <1>2, <1>3

LEMMA Remainder ==
    ASSUME NEW c \in Int, NEW n \in Nat \ {0}
    PROVE  /\ c \in 0 .. n - 1 => c % n = c
           /\ c \in -n .. -1   => c % n = c + n
OBVIOUS

\* Each digit counts the turns of the next lower one.
LEMMA UnitFacts ==
    /\ Unit(3) = 1
    /\ \A j \in Parts : Unit(j) \in Nat \ {0}
    /\ \A j \in 0..2 : Unit(j) = Radix * Unit(j + 1)
    /\ Period = Radix * Unit(0) /\ Period \in Nat \ {0}
    /\ Counter \subseteq Nat
<1>1. Radix * Radix \in Nat \ {0} /\ Radix * Radix * Radix \in Nat \ {0}
  OBVIOUS
<1>2. /\ Unit(0) = Radix * Radix * Radix /\ Unit(1) = Radix * Radix
      /\ Unit(2) = Radix /\ Unit(3) = 1
  BY DEF Unit
<1>3. Radix * Radix * Radix = Radix * (Radix * Radix)
  OBVIOUS
<1>4. \A j \in Parts : j = 0 \/ j = 1 \/ j = 2 \/ j = 3
  BY DEF Parts
<1>5. \A j \in 0..2 : Unit(j) = Radix * Unit(j + 1)
  <2> SUFFICES ASSUME NEW j \in 0..2 PROVE Unit(j) = Radix * Unit(j + 1)
    OBVIOUS
  <2>1. CASE j = 0  BY <2>1, <1>2, <1>3
  <2>2. CASE j = 1  BY <2>2, <1>2
  <2>3. CASE j = 2  BY <2>3, <1>2
  <2> QED  BY <2>1, <2>2, <2>3
<1>6. Period \in Nat \ {0}
  BY <1>1, <1>2 DEF Period
<1> QED  BY <1>1, <1>2, <1>4, <1>5, <1>6 DEF Period, Counter

\* The digits of a counter from the top to digit j, as one number.
Upper(c, j) == c \div Unit(j)

LEMMA UpperType ==
    ASSUME NEW c \in Nat, NEW j \in Parts
    PROVE  /\ Upper(c, j) \in Nat
           /\ Upper(c, j) * Unit(j) <= c /\ c < Upper(c, j) * Unit(j) + Unit(j)
BY UnitFacts, Division DEF Upper

LEMMA UpperMonotone ==
    ASSUME NEW c \in Nat, NEW t \in Nat, c <= t, NEW j \in Parts
    PROVE  Upper(c, j) <= Upper(t, j)
<1> DEFINE u == Unit(j)
<1>1. PICK p \in Nat, q \in Nat : p = Upper(c, j) /\ q = Upper(t, j)
  BY UpperType
<1>2. u \in Nat \ {0} /\ p * u <= c /\ t < q * u + u
  BY <1>1, UpperType, UnitFacts
<1> HIDE DEF u
<1>3. ASSUME q < p PROVE FALSE
  <2>1. (q + 1) * u <= p * u
    BY <1>2, <1>3
  <2> QED  BY <1>2, <2>1
<1> QED  BY <1>1, <1>3

\* Digit j lies in 0 .. Radix - 1.
LEMMA UpperNext ==
    ASSUME NEW c \in Nat, NEW j \in 0..2
    PROVE  /\ Upper(c, j) * Radix <= Upper(c, j + 1)
           /\ Upper(c, j + 1) < Upper(c, j) * Radix + Radix
<1>1. j \in Parts /\ j + 1 \in Parts
  BY DEF Parts
<1>2. PICK p \in Nat, q \in Nat, u \in Nat \ {0} :
         p = Upper(c, j) /\ q = Upper(c, j + 1) /\ u = Unit(j + 1)
  BY <1>1, UpperType, UnitFacts
<1>3. /\ p * (Radix * u) <= c /\ c < p * (Radix * u) + Radix * u
      /\ q * u <= c /\ c < q * u + u
  BY <1>1, <1>2, UpperType, UnitFacts
<1>4. p * Radix \in Nat /\ (p * Radix) * u = p * (Radix * u)
  OBVIOUS
<1>5. ASSUME q < p * Radix PROVE FALSE
  <2>1. (q + 1) * u <= (p * Radix) * u
    BY <1>4, <1>5
  <2> QED  BY <1>3, <1>4, <2>1
<1>6. ASSUME p * Radix + Radix <= q PROVE FALSE
  <2>1. (p * Radix + Radix) * u <= q * u
    BY <1>4, <1>6
  <2>2. (p * Radix + Radix) * u = p * (Radix * u) + Radix * u
    OBVIOUS
  <2> QED  BY <1>3, <2>1, <2>2
<1> QED  BY <1>2, <1>4, <1>5, <1>6

\* Counters with the same digits down to j + 1 have the same digits down to j.
LEMMA UpperSame ==
    ASSUME NEW a \in Nat, NEW b \in Nat, NEW j \in 0..2, Upper(a, j + 1) = Upper(b, j + 1)
    PROVE  Upper(a, j) = Upper(b, j)
<1>0. j \in Parts /\ j + 1 \in Parts
  BY DEF Parts
<1>1. PICK p \in Nat, q \in Nat : p = Upper(a, j) /\ q = Upper(b, j)
  BY <1>0, UpperType
<1>2. PICK d \in Nat : d = Upper(a, j + 1)
  BY <1>0, UpperType
<1>3. /\ p * Radix <= d /\ d < p * Radix + Radix
      /\ q * Radix <= d /\ d < q * Radix + Radix
  BY <1>1, <1>2, UpperNext
<1>4. ASSUME p < q PROVE FALSE
  <2>1. (p + 1) * Radix <= q * Radix
    BY <1>4
  <2> QED  BY <1>3, <2>1
<1>5. ASSUME q < p PROVE FALSE
  <2>1. (q + 1) * Radix <= p * Radix
    BY <1>5
  <2> QED  BY <1>3, <2>1
<1> QED  BY <1>1, <1>4, <1>5

LEMMA Rounding ==
    ASSUME NEW t \in Counter, NEW j \in Parts
    PROVE  /\ RoundedTo(t, j) \in Counter /\ RoundedTo(t, j) <= t
           /\ Upper(RoundedTo(t, j), j) = Upper(t, j)
<1>1. PICK q \in Nat, u \in Nat \ {0} : q = Upper(t, j) /\ u = Unit(j)
  BY UpperType, UnitFacts
<1>2. RoundedTo(t, j) = q * u /\ q * u \in Nat /\ q * u <= t
  <2>1. t \in Nat
    BY UnitFacts
  <2>2. RoundedTo(t, j) = q * u
    BY <1>1 DEF RoundedTo, Upper
  <2>3. q * u <= t
    BY <1>1, <2>1, UpperType
  <2> QED  BY <2>2, <2>3
<1>3. (q * u) \div u = q
  BY <1>2, DivisionUnique
<1> QED  BY <1>1, <1>2, <1>3, UnitFacts DEF Counter, Upper

-----------------------------------------------------------------------------
(* Hashing.  Run(x, n) is what n rehashes of part x from itself append. *)

Run(x, n) == [k \in 1..n |-> x]

LEMMA RunType ==
    ASSUME NEW x \in Nat, NEW n \in Nat
    PROVE  Run(x, n) \in Value /\ Len(Run(x, n)) = n /\ \A k \in 1..n : Run(x, n)[k] = x
<1>1. Run(x, n) \in [1..n -> Nat]
  BY DEF Run
<1> QED  BY <1>1, IsASeq, LenProperties DEF Run, Value

\* A run, one more rehash and another run are one run.
LEMMA RunsJoin ==
    ASSUME NEW s \in Value, NEW x \in Nat, NEW p \in Nat, NEW q \in Nat
    PROVE  Append(s \o Run(x, p), x) \o Run(x, q) = s \o Run(x, p + q + 1)
<1>1. PICK r \in Seq(Nat) : r = Run(x, p) /\ Len(r) = p /\ \A k \in 1..p : r[k] = x
  BY RunType DEF Value
<1>2. PICK t \in Seq(Nat) : t = Run(x, q) /\ Len(t) = q /\ \A k \in 1..q : t[k] = x
  BY RunType DEF Value
<1>3. PICK n \in Nat : n = p + q + 1
  OBVIOUS
<1>4. PICK u \in Seq(Nat) : u = Run(x, p + q + 1) /\ Len(u) = n /\ \A k \in 1..n : u[k] = x
  BY <1>3, RunType DEF Value
<1>5. PICK l \in Nat : l = Len(s) /\ s \in Seq(Nat)
  BY LenProperties DEF Value
<1>6. PICK v : v = s \o r
  OBVIOUS
<1>7. /\ v \in Seq(Nat) /\ Len(v) = l + p
      /\ \A k \in 1 .. l + p : v[k] = IF k <= l THEN s[k] ELSE r[k - l]
  <2>1. /\ s \o r \in Seq(Nat) /\ Len(s \o r) = Len(s) + Len(r)
        /\ \A k \in 1 .. Len(s) + Len(r) :
              (s \o r)[k] = IF k <= Len(s) THEN s[k] ELSE r[k - Len(s)]
    BY <1>5, ConcatProperties, Zenon
  <2> QED  BY <1>1, <1>5, <1>6, <2>1, Zenon
<1>8. PICK w : w = Append(v, x)
  OBVIOUS
<1>9. /\ w \in Seq(Nat) /\ Len(w) = l + p + 1
      /\ \A k \in 1 .. l + p : w[k] = v[k]
      /\ w[l + p + 1] = x
  <2>1. /\ Append(v, x) \in Seq(Nat) /\ Len(Append(v, x)) = Len(v) + 1
        /\ \A k \in 1 .. Len(v) : Append(v, x)[k] = v[k]
        /\ Append(v, x)[Len(v) + 1] = x
    BY <1>7, AppendProperties, SMT
  <2> QED  BY <1>7, <1>8, <2>1, Zenon
<1>10. PICK left : left = w \o t
  OBVIOUS
<1>11. /\ left \in Seq(Nat) /\ Len(left) = l + p + 1 + q
       /\ \A k \in 1 .. l + p + 1 + q :
             left[k] = IF k <= l + p + 1 THEN w[k] ELSE t[k - (l + p + 1)]
  <2>1. /\ w \o t \in Seq(Nat) /\ Len(w \o t) = Len(w) + Len(t)
        /\ \A k \in 1 .. Len(w) + Len(t) :
              (w \o t)[k] = IF k <= Len(w) THEN w[k] ELSE t[k - Len(w)]
    BY <1>9, ConcatProperties, Zenon
  <2> QED  BY <1>2, <1>9, <1>10, <2>1, Zenon
<1>12. PICK right : right = s \o u
  OBVIOUS
<1>13. /\ right \in Seq(Nat) /\ Len(right) = l + n
       /\ \A k \in 1 .. l + n : right[k] = IF k <= l THEN s[k] ELSE u[k - l]
  <2>1. /\ s \o u \in Seq(Nat) /\ Len(s \o u) = Len(s) + Len(u)
        /\ \A k \in 1 .. Len(s) + Len(u) :
              (s \o u)[k] = IF k <= Len(s) THEN s[k] ELSE u[k - Len(s)]
    BY <1>5, ConcatProperties, Zenon
  <2> QED  BY <1>4, <1>5, <1>12, <2>1, Zenon
<1>14. ASSUME NEW k \in 1..Len(left)
       PROVE  left[k] = right[k]
  <2>0. k \in Nat /\ 1 <= k /\ k <= l + p + 1 + q /\ k \in 1 .. l + n
    BY <1>3, <1>11
  <2>a. /\ left[k] = IF k <= l + p + 1 THEN w[k] ELSE t[k - (l + p + 1)]
        /\ right[k] = IF k <= l THEN s[k] ELSE u[k - l]
    <3>1. k \in 1 .. l + p + 1 + q
      BY <2>0
    <3> QED  BY <1>11, <1>13, <2>0, <3>1, Zenon
  <2>1. CASE k <= l
    <3>1. k \in 1 .. l + p /\ k <= l + p + 1
      BY <2>0, <2>1
    <3>2. w[k] = v[k] /\ v[k] = IF k <= l THEN s[k] ELSE r[k - l]
      BY <1>7, <1>9, <3>1, Zenon
    <3> QED  BY <2>a, <2>1, <3>1, <3>2, Zenon
  <2>2. CASE k > l
    <3>1. k - l \in 1..n
      BY <1>3, <2>0, <2>2
    <3>2. right[k] = x
      <4>1. right[k] = u[k - l]
        BY <2>0, <2>a, <2>2
      <4> QED  BY <1>4, <3>1, <4>1
    <3>3. CASE k <= l + p
      <4>1. k - l \in 1..p /\ k \in 1 .. l + p
        BY <2>0, <2>2, <3>3
      <4> QED  BY <1>1, <1>7, <1>9, <1>11, <2>0, <2>2, <3>2, <3>3, <4>1
    <3>4. CASE k = l + p + 1
      BY <1>9, <1>11, <2>0, <3>2, <3>4
    <3>5. CASE k > l + p + 1
      <4>1. k - (l + p + 1) \in 1..q
        BY <2>0, <3>5
      <4> QED  BY <1>2, <1>11, <2>0, <3>2, <3>5, <4>1
    <3> QED  BY <2>0, <3>3, <3>4, <3>5
  <2> QED  BY <2>0, <2>1, <2>2
<1>15. left = right
  <2>1. Len(left) = Len(right)
    BY <1>3, <1>11, <1>13
  <2> QED  BY <1>11, <1>13, <1>14, <2>1, SeqEqual, Zenon
<1> QED  BY <1>1, <1>2, <1>4, <1>6, <1>8, <1>10, <1>12, <1>15, Zenon

LEMMA RunsJoinInData ==
    ASSUME NEW data \in Data, NEW j \in Parts
    PROVE  \A p, q \in Nat :
              Append(data[j] \o Run(j, p), j) \o Run(j, q) = data[j] \o Run(j, p + q + 1)
<1>1. PICK s \in Value, x \in Nat : s = data[j] /\ x = j
  BY DEF Data, Parts
<1>2. \A p, q \in Nat : Append(s \o Run(x, p), x) \o Run(x, q) = s \o Run(x, p + q + 1)
  BY RunsJoin
<1> QED  BY <1>1, <1>2

\* The data after a digit has ticked n times.
Ticked(data, j, n) == IF n = 0 THEN data ELSE RehashFrom(RehashPart(data, j, n - 1), j)

LEMMA TickedFields ==
    ASSUME NEW data \in Data, NEW j \in Parts, NEW n \in Nat
    PROVE  /\ Ticked(data, j, n) \in Data
           /\ \A i \in Parts : i < j => Ticked(data, j, n)[i] = data[i]
           /\ n > 0 => \A i \in Parts :
                 i >= j => Ticked(data, j, n)[i] = Append(data[j] \o Run(j, n - 1), i)
<1>1. CASE n = 0
  BY <1>1 DEF Ticked
<1>2. CASE n > 0
  <2>1. PICK more : more = data[j] \o Run(j, n - 1)
    OBVIOUS
  <2>2. j \in Nat /\ n - 1 \in Nat /\ Parts \subseteq Nat /\ data[j] \in Seq(Nat)
    BY <1>2 DEF Parts, Data, Value
  <2>3. more \in Seq(Nat)
    <3>1. Run(j, n - 1) \in Seq(Nat)
      BY <2>2, RunType DEF Value
    <3> QED  BY <2>1, <2>2, <3>1
  <2>4. RehashPart(data, j, n - 1) = [data EXCEPT ![j] = more]
    BY <2>1 DEF RehashPart, Run
  <2>5. PICK ran : ran = [data EXCEPT ![j] = more]
    OBVIOUS
  <2>6. ran[j] = more /\ \A i \in Parts : i # j => ran[i] = data[i]
    BY <2>5 DEF Data
  <2>7. Ticked(data, j, n) = [i \in Parts |-> IF i < j THEN ran[i] ELSE Append(ran[j], i)]
    <3>1. Ticked(data, j, n) = RehashFrom(ran, j)
      BY <1>2, <2>4, <2>5 DEF Ticked
    <3> QED  BY <3>1 DEF RehashFrom
  <2>8. \A i \in Parts : Append(more, i) \in Seq(Nat)
    BY <2>2, <2>3
  <2>9. \A i \in Parts : i < j => i # j
    BY <2>2
  <2>10. \A i \in Parts : /\ i < j => Ticked(data, j, n)[i] = data[i]
                          /\ ~(i < j) => Ticked(data, j, n)[i] = Append(more, i)
    BY <2>6, <2>7, <2>9
  <2>11. Ticked(data, j, n) \in Data
    BY <2>6, <2>7, <2>8, <2>9 DEF Data, Value
  <2>12. \A i \in Parts : i >= j => ~(i < j)
    BY <2>2
  <2> QED  BY <2>1, <2>10, <2>11, <2>12
<1> QED  BY <1>1, <1>2, n = 0 \/ n > 0

\* Ticking once more after the lower digits may have ticked: only the part itself
\* matters, and the ticks add up.
LEMMA TicksJoin ==
    ASSUME NEW data \in Data, NEW after \in Data, NEW j \in Parts,
           NEW p \in Nat, NEW q \in Nat, q > 0,
           \A i \in Parts : i <= j => after[i] = Ticked(data, j, p)[i]
    PROVE  Ticked(after, j, q) = Ticked(data, j, p + q)
<1>0. j \in Nat /\ Parts \subseteq Nat /\ data[j] \in Value /\ p + q \in Nat /\ p + q > 0
  BY DEF Parts, Data
<1>1. Ticked(after, j, q) \in Data /\ Ticked(data, j, p + q) \in Data
  BY <1>0, TickedFields
<1>2. \A i \in Parts : i < j => after[i] = data[i]
  <2>1. \A i \in Parts : i < j => Ticked(data, j, p)[i] = data[i]
    BY TickedFields
  <2>2. \A i \in Parts : i < j => i <= j
    BY DEF Parts
  <2> QED  BY <2>1, <2>2, Zenon
<1>3. after[j] = Ticked(data, j, p)[j]
  BY <1>0
<1>6. /\ \A i \in Parts : i < j => Ticked(after, j, q)[i] = after[i]
      /\ \A i \in Parts : i >= j =>
            Ticked(after, j, q)[i] = Append(after[j] \o Run(j, q - 1), i)
  BY TickedFields
<1>7. PICK n : n = p + q
  OBVIOUS
<1>8. /\ \A i \in Parts : i < j => Ticked(data, j, n)[i] = data[i]
      /\ \A i \in Parts : i >= j =>
            Ticked(data, j, n)[i] = Append(data[j] \o Run(j, n - 1), i)
  <2>1. n \in Nat /\ n > 0
    BY <1>0, <1>7
  <2> QED  BY <2>1, TickedFields
<1>4. after[j] \o Run(j, q - 1) = data[j] \o Run(j, p + q - 1)
  <2>1. CASE p = 0
    <3>1. Ticked(data, j, p) = data
      BY <2>1 DEF Ticked
    <3>2. p + q - 1 = q - 1
      BY <2>1
    <3> QED  BY <1>3, <3>1, <3>2
  <2>2. CASE p > 0
    <3>1. after[j] = Append(data[j] \o Run(j, p - 1), j)
      <4>1. \A i \in Parts :
               i >= j => Ticked(data, j, p)[i] = Append(data[j] \o Run(j, p - 1), i)
        BY <2>2, TickedFields
      <4>2. j >= j
        BY DEF Parts
      <4> QED  BY <1>3, <4>1, <4>2
    <3>2. PICK a \in Nat, b \in Nat : a = p - 1 /\ b = q - 1
      BY <2>2
    <3>3. Append(data[j] \o Run(j, a), j) \o Run(j, b) = data[j] \o Run(j, a + b + 1)
      BY RunsJoinInData
    <3>4. a + b + 1 = p + q - 1
      BY <3>2
    <3> QED  BY <3>1, <3>2, <3>3, <3>4
  <2> QED  BY <2>1, <2>2, p = 0 \/ p > 0
<1>5. ASSUME NEW i \in Parts
      PROVE  Ticked(after, j, q)[i] = Ticked(data, j, p + q)[i]
  <2>1. CASE i < j
    BY <1>2, <1>6, <1>7, <1>8, <2>1, Zenon
  <2>2. CASE i >= j
    <3>1. n - 1 = p + q - 1
      BY <1>7
    <3> QED  BY <1>4, <1>6, <1>7, <1>8, <2>2, <3>1, Zenon
  <2>3. i < j \/ i >= j
    BY DEF Parts
  <2> QED  BY <2>1, <2>2, <2>3, Zenon
<1> QED  BY <1>1, <1>5 DEF Data

-----------------------------------------------------------------------------
(* One part of a jump *)

LEMMA UpperBound ==
    ASSUME NEW c \in Counter
    PROVE  Upper(c, 0) \in 0 .. Radix - 1
<1>1. 0 \in Parts /\ c \in Nat
  BY UnitFacts DEF Parts
<1>2. PICK p \in Nat, u \in Nat \ {0} : p = Upper(c, 0) /\ u = Unit(0)
  BY <1>1, UpperType, UnitFacts
<1>3. p * u <= c /\ c < Radix * u
  <2>1. c <= Period - 1
    BY <1>1, UnitFacts DEF Counter
  <2> QED  BY <1>1, <1>2, <2>1, UpperType, UnitFacts
<1>4. Radix <= p => Radix * u <= p * u
  OBVIOUS
<1> QED  BY <1>1, <1>2, <1>3, <1>4

\* A way around the end of the counter is one more turn of R(0).
Lap(c, t) == IF t < c THEN Radix ELSE 0

LEMMA StepsTop ==
    ASSUME NEW m \in MegolmState, NEW t \in Counter
    PROVE  /\ Steps(m, t, 0) = Upper(t, 0) - Upper(m.counter, 0) + Lap(m.counter, t)
           /\ Steps(m, t, 0) \in 0..Radix
<1>1. PICK c \in Counter : c = m.counter
  BY DEF MegolmState
<1>2. 0 \in Parts /\ c \in Nat /\ t \in Nat
  BY UnitFacts DEF Parts
<1>3. PICK p \in Nat, q \in Nat, u \in Nat \ {0} :
         p = Upper(c, 0) /\ q = Upper(t, 0) /\ u = Unit(0)
  BY <1>2, UpperType, UnitFacts
<1>4. p * u <= c /\ c < p * u + u /\ q * u <= t /\ t < q * u + u
  BY <1>2, <1>3, UpperType
<1>6. p < Radix /\ q < Radix
  BY <1>3, UpperBound
<1>7. PICK steps : steps = (q - p) % Radix
  OBVIOUS
<1>8. Steps(m, t, 0) = IF steps = 0 /\ t < c THEN Radix ELSE steps
  BY <1>1, <1>3, <1>7 DEF Steps, Upper
<1>9. CASE p < q
  <2>1. steps = q - p
    <3>1. q - p \in 0 .. Radix - 1
      BY <1>6, <1>9
    <3> QED  BY <1>7, <3>1, Remainder
  <2>2. c < t
    <3>1. (p + 1) * u <= q * u
      BY <1>9
    <3> QED  BY <1>2, <1>4, <3>1
  <2> QED  BY <1>1, <1>2, <1>3, <1>6, <1>8, <1>9, <2>1, <2>2 DEF Lap
<1>10. CASE q < p
  <2>1. steps = q - p + Radix
    <3>1. q - p \in -Radix .. -1
      BY <1>6, <1>10
    <3> QED  BY <1>7, <3>1, Remainder
  <2>2. t < c
    <3>1. (q + 1) * u <= p * u
      BY <1>10
    <3> QED  BY <1>2, <1>4, <3>1
  <2> QED  BY <1>1, <1>2, <1>3, <1>6, <1>8, <1>10, <2>1, <2>2 DEF Lap
<1>11. CASE p = q
  <2>1. steps = 0
    BY <1>7, <1>11, Remainder
  <2> QED  BY <1>1, <1>2, <1>3, <1>6, <1>8, <1>11, <2>1 DEF Lap
<1> QED  BY <1>9, <1>10, <1>11

\* Below R(0) a part is reached with the digits above it already at the target.
Reached(m, t, j) == j = 0 \/ (m.counter <= t /\ Upper(m.counter, j - 1) = Upper(t, j - 1))

LEMMA StepsBelow ==
    ASSUME NEW m \in MegolmState, NEW t \in Counter, NEW j \in 1..3, Reached(m, t, j)
    PROVE  /\ Steps(m, t, j) = Upper(t, j) - Upper(m.counter, j)
           /\ Steps(m, t, j) \in 0 .. Radix - 1
<1>1. PICK c \in Counter : c = m.counter
  BY DEF MegolmState
<1>2. PICK i \in 0..2 : i = j - 1
  OBVIOUS
<1>3. j \in Parts /\ i \in Parts /\ j = i + 1 /\ c \in Nat /\ t \in Nat
  BY <1>2, UnitFacts DEF Parts
<1>4. c <= t /\ Upper(c, i) = Upper(t, i)
  BY <1>1, <1>2 DEF Reached
<1>5. PICK p \in Nat, q \in Nat, d \in Nat :
         p = Upper(c, j) /\ q = Upper(t, j) /\ d = Upper(t, i)
  BY <1>3, UpperType
<1>6. p <= q
  BY <1>3, <1>4, <1>5, UpperMonotone
<1>7. /\ d * Radix <= p /\ p < d * Radix + Radix
      /\ d * Radix <= q /\ q < d * Radix + Radix
  BY <1>3, <1>4, <1>5, UpperNext
<1>8. q - p \in 0 .. Radix - 1
  <2>1. PICK e \in Int : e = d * Radix
    OBVIOUS
  <2> QED  BY <1>6, <1>7, <2>1
<1>9. (q - p) % Radix = q - p
  BY <1>8, Remainder
<1>10. Steps(m, t, j) = q - p
  <2>1. ~(t < c)
    BY <1>3, <1>4
  <2> QED  BY <1>1, <1>5, <1>9, <2>1 DEF Steps, Upper
<1> QED  BY <1>1, <1>5, <1>8, <1>10

\* What one iteration of the loop does.
LEMMA PartAdvanced ==
    ASSUME NEW m \in MegolmState, NEW t \in Counter, NEW j \in Parts, Reached(m, t, j)
    PROVE  /\ Steps(m, t, j) \in Nat
           /\ AdvancePart(m, t, j) \in MegolmState
           /\ AdvancePart(m, t, j).data = Ticked(m.data, j, Steps(m, t, j))
           /\ AdvancePart(m, t, j).counter
                  = IF Steps(m, t, j) = 0 THEN m.counter ELSE RoundedTo(t, j)
           /\ AdvancePart(m, t, j).counter <= t
           /\ Upper(AdvancePart(m, t, j).counter, j) = Upper(t, j)
           /\ Steps(m, t, j) = 0 => AdvancePart(m, t, j) = m
<1>1. m.counter \in Counter /\ m.data \in Data /\ m.counter \in Nat /\ t \in Nat
  BY UnitFacts DEF MegolmState
<1>2. j = 0 \/ j \in 1..3
  BY DEF Parts
<1>3. PICK n \in Nat : n = Steps(m, t, j)
  BY <1>2, StepsTop, StepsBelow
<1>4. Ticked(m.data, j, n) \in Data
  BY <1>1, TickedFields
<1>5. RoundedTo(t, j) \in Counter /\ RoundedTo(t, j) <= t
      /\ Upper(RoundedTo(t, j), j) = Upper(t, j)
  BY Rounding
<1>6. CASE n > 0
  <2>1. AdvancePart(m, t, j) = [counter |-> RoundedTo(t, j), data |-> Ticked(m.data, j, n)]
    BY <1>3, <1>6 DEF AdvancePart, Ticked
  <2> QED  BY <1>3, <1>4, <1>5, <1>6, <2>1 DEF MegolmState
<1>7. CASE n = 0
  <2>1. AdvancePart(m, t, j) = m
    BY <1>3, <1>7 DEF AdvancePart
  <2>2. Ticked(m.data, j, n) = m.data
    BY <1>7 DEF Ticked
  <2>3. m.counter <= t /\ Upper(m.counter, j) = Upper(t, j)
    <3>1. CASE j = 0
      <4>1. PICK p \in Nat, q \in Nat : p = Upper(m.counter, 0) /\ q = Upper(t, 0)
        BY <1>1, <3>1, UpperType
      <4>2. 0 = q - p + Lap(m.counter, t)
        BY <1>3, <1>7, <3>1, <4>1, StepsTop
      <4>3. CASE t < m.counter
        <5>1. q - p + Radix = 0
          BY <4>2, <4>3 DEF Lap
        <5>2. p < Radix
          BY <1>1, <4>1, UpperBound
        <5> QED  BY <5>1, <5>2
      <4>4. CASE ~(t < m.counter)
        <5>1. 0 = q - p
          BY <4>2, <4>4 DEF Lap
        <5>2. p = q /\ m.counter <= t
          BY <1>1, <4>4, <5>1
        <5> QED  BY <3>1, <4>1, <5>2
      <4> QED  BY <4>3, <4>4
    <3>2. CASE j \in 1..3
      <4>1. PICK p \in Nat, q \in Nat : p = Upper(m.counter, j) /\ q = Upper(t, j)
        BY <1>1, UpperType
      <4>2. 0 = q - p
        BY <1>3, <1>7, <3>2, <4>1, StepsBelow
      <4>3. m.counter <= t
        BY <3>2 DEF Reached
      <4> QED  BY <4>1, <4>2, <4>3
    <3> QED  BY <1>2, <3>1, <3>2
  <2> QED  BY <1>3, <1>7, <2>1, <2>2, <2>3
<1> QED  BY <1>6, <1>7, n = 0 \/ n > 0

-----------------------------------------------------------------------------
(* The whole call *)

\* The ratchet before part j of the loop; j = 4 is after the loop.
Pass(m, t, j) ==
    IF j = 0 THEN m
    ELSE IF j = 1 THEN AdvancePart(m, t, 0)
    ELSE IF j = 2 THEN AdvancePart(AdvancePart(m, t, 0), t, 1)
    ELSE IF j = 3 THEN AdvancePart(AdvancePart(AdvancePart(m, t, 0), t, 1), t, 2)
    ELSE AdvanceTo(m, t)

LEMMA PassNext ==
    ASSUME NEW m, NEW t, NEW j \in Parts
    PROVE  Pass(m, t, j + 1) = AdvancePart(Pass(m, t, j), t, j)
<1>1. j = 0 \/ j = 1 \/ j = 2 \/ j = 3
  BY DEF Parts
<1>2. CASE j = 0
  BY <1>2 DEF Pass
<1>3. CASE j = 1
  BY <1>3 DEF Pass
<1>4. CASE j = 2
  BY <1>4 DEF Pass
<1>5. CASE j = 3
  BY <1>5 DEF Pass, AdvanceTo
<1> QED  BY <1>1, <1>2, <1>3, <1>4, <1>5

LEMMA PassStep ==
    ASSUME NEW m, NEW t \in Counter, NEW j \in Parts,
           Pass(m, t, j) \in MegolmState, Reached(Pass(m, t, j), t, j)
    PROVE  Pass(m, t, j + 1) \in MegolmState /\ Reached(Pass(m, t, j + 1), t, j + 1)
<1>1. PICK p : p = Pass(m, t, j)
  OBVIOUS
<1>2. PICK n : n = AdvancePart(p, t, j)
  OBVIOUS
<1>3. n \in MegolmState /\ n.counter <= t /\ Upper(n.counter, j) = Upper(t, j)
  BY <1>1, <1>2, PartAdvanced
<1>4. Pass(m, t, j + 1) = n
  BY <1>1, <1>2, PassNext
<1>5. PICK k \in Nat : k = j + 1 /\ k - 1 = j
  BY DEF Parts
<1>6. Reached(n, t, k)
  BY <1>3, <1>5 DEF Reached
<1> QED  BY <1>3, <1>4, <1>5, <1>6, Zenon

LEMMA Passes ==
    ASSUME NEW m \in MegolmState, NEW t \in Counter
    PROVE  \A j \in 0..4 : Pass(m, t, j) \in MegolmState /\ Reached(Pass(m, t, j), t, j)
<1>0. Pass(m, t, 0) \in MegolmState /\ Reached(Pass(m, t, 0), t, 0)
  BY DEF Pass, Reached
<1>1. Pass(m, t, 1) \in MegolmState /\ Reached(Pass(m, t, 1), t, 1)
  <2>1. 0 \in Parts /\ 0 + 1 = 1
    BY DEF Parts
  <2> QED  BY <1>0, <2>1, PassStep, Zenon
<1>2. Pass(m, t, 2) \in MegolmState /\ Reached(Pass(m, t, 2), t, 2)
  <2>1. 1 \in Parts /\ 1 + 1 = 2
    BY DEF Parts
  <2> QED  BY <1>1, <2>1, PassStep, Zenon
<1>3. Pass(m, t, 3) \in MegolmState /\ Reached(Pass(m, t, 3), t, 3)
  <2>1. 2 \in Parts /\ 2 + 1 = 3
    BY DEF Parts
  <2> QED  BY <1>2, <2>1, PassStep, Zenon
<1>4. Pass(m, t, 4) \in MegolmState /\ Reached(Pass(m, t, 4), t, 4)
  <2>1. 3 \in Parts /\ 3 + 1 = 4
    BY DEF Parts
  <2> QED  BY <1>3, <2>1, PassStep, Zenon
<1> QED  BY <1>0, <1>1, <1>2, <1>3, <1>4

\* megolm_advance_to arrives at the index it is given.
THEOREM JumpArrives ==
    ASSUME NEW m \in MegolmState, NEW t \in Counter
    PROVE  AdvanceTo(m, t) \in MegolmState /\ AdvanceTo(m, t).counter = t
<1>1. AdvanceTo(m, t) = Pass(m, t, 4)
  BY DEF Pass
<1>2. /\ AdvanceTo(m, t) \in MegolmState
      /\ Upper(AdvanceTo(m, t).counter, 3) = Upper(t, 3)
  <2>1. Pass(m, t, 4) \in MegolmState /\ Reached(Pass(m, t, 4), t, 4)
    BY Passes
  <2> QED  BY <1>1, <2>1 DEF Reached
<1>3. PICK c \in Nat : c = AdvanceTo(m, t).counter
  BY <1>2, UnitFacts DEF MegolmState
<1>4. t \in Nat
  BY UnitFacts
<1>5. \A n \in Nat : Upper(n, 3) = n
  <2>1. \A n \in Nat : n \div 1 = n
    OBVIOUS
  <2> QED  BY <2>1, UnitFacts DEF Upper
<1> QED  BY <1>2, <1>3, <1>4, <1>5

\* The later parts leave the higher values alone.
LEMMA PassKeeps ==
    ASSUME NEW m \in MegolmState, NEW t \in Counter, NEW j \in Parts, NEW k, k = j + 1
    PROVE  \A i \in Parts : i < j => Pass(m, t, k).data[i] = Pass(m, t, j).data[i]
<1>1. PICK p \in MegolmState : p = Pass(m, t, j) /\ Reached(p, t, j)
  BY Passes DEF Parts
<1>2. PICK n \in Nat : n = Steps(p, t, j)
  BY <1>1, PartAdvanced
<1>3. Pass(m, t, k).data = Ticked(p.data, j, n)
  BY <1>1, <1>2, PartAdvanced, PassNext
<1>4. PICK data \in Data : data = p.data
  BY DEF MegolmState
<1>5. \A i \in Parts : i < j => Ticked(data, j, n)[i] = data[i]
  BY TickedFields
<1> QED  BY <1>1, <1>3, <1>4, <1>5, Zenon

LEMMA JumpKeeps ==
    ASSUME NEW m \in MegolmState, NEW t \in Counter, NEW j \in Parts
    PROVE  \A i \in Parts : i <= j => AdvanceTo(m, t).data[i] = Pass(m, t, j + 1).data[i]
<1>0. AdvanceTo(m, t) = Pass(m, t, 4)
  BY DEF Pass
<1>1. \A i \in Parts : i < 3 => Pass(m, t, 4).data[i] = Pass(m, t, 3).data[i]
  <2>1. PICK p \in Parts, q \in Nat : p = 3 /\ q = 4 /\ q = p + 1
    BY DEF Parts
  <2>2. \A i \in Parts : i < p => Pass(m, t, q).data[i] = Pass(m, t, p).data[i]
    BY <2>1, PassKeeps
  <2> QED  BY <2>1, <2>2
<1>2. \A i \in Parts : i < 2 => Pass(m, t, 3).data[i] = Pass(m, t, 2).data[i]
  <2>1. PICK p \in Parts, q \in Nat : p = 2 /\ q = 3 /\ q = p + 1
    BY DEF Parts
  <2>2. \A i \in Parts : i < p => Pass(m, t, q).data[i] = Pass(m, t, p).data[i]
    BY <2>1, PassKeeps
  <2> QED  BY <2>1, <2>2
<1>3. \A i \in Parts : i < 1 => Pass(m, t, 2).data[i] = Pass(m, t, 1).data[i]
  <2>1. PICK p \in Parts, q \in Nat : p = 1 /\ q = 2 /\ q = p + 1
    BY DEF Parts
  <2>2. \A i \in Parts : i < p => Pass(m, t, q).data[i] = Pass(m, t, p).data[i]
    BY <2>1, PassKeeps
  <2> QED  BY <2>1, <2>2
<1>4. j = 0 \/ j = 1 \/ j = 2 \/ j = 3
  BY DEF Parts
<1>5. CASE j = 3
  BY <1>0, <1>5
<1>6. CASE j = 2
  BY <1>0, <1>1, <1>6 DEF Parts
<1>7. CASE j = 1
  BY <1>0, <1>1, <1>2, <1>7 DEF Parts
<1>8. CASE j = 0
  BY <1>0, <1>1, <1>2, <1>3, <1>8 DEF Parts
<1> QED  BY <1>4, <1>5, <1>6, <1>7, <1>8

-----------------------------------------------------------------------------
(* Two calls in a row *)

\* Going from c to a and on to b does not pass c again.
Ordered(c, a, b) == (c <= a /\ a <= b) \/ (a <= b /\ b < c) \/ (b < c /\ c <= a)

\* Before part j, the call that starts at a has still nothing to do, and the call
\* that goes to b directly has gone where the first call went.
Together(m, a, b, j) ==
    /\ Pass(AdvanceTo(m, a), b, j) = AdvanceTo(m, a)
    /\ Pass(m, a, j) = Pass(m, b, j)
    /\ Reached(AdvanceTo(m, a), b, j)

\* Before part j, the second call and the direct one have met.
Met(m, a, b, j) == Pass(AdvanceTo(m, a), b, j) = Pass(m, b, j)

LEMMA LapsAdd ==
    ASSUME NEW c \in Nat, NEW a \in Nat, NEW b \in Nat, Ordered(c, a, b)
    PROVE  Lap(c, b) = Lap(c, a) + Lap(a, b)
BY DEF Ordered, Lap

LEMMA StepsAdd ==
    ASSUME NEW p \in MegolmState, NEW q \in MegolmState,
           NEW a \in Counter, NEW b \in Counter, NEW j \in Parts,
           q.counter = a, Reached(p, a, j), Reached(p, b, j), Reached(q, b, j),
           j = 0 => Ordered(p.counter, a, b)
    PROVE  Steps(p, b, j) = Steps(p, a, j) + Steps(q, b, j)
<1>0. PICK c \in Nat : c = p.counter
  BY UnitFacts DEF MegolmState
<1>1. a \in Nat /\ b \in Nat /\ (j = 0 \/ j \in 1..3)
  BY UnitFacts DEF Parts
<1>2. PICK x \in Nat, y \in Nat, z \in Nat :
         x = Upper(c, j) /\ y = Upper(a, j) /\ z = Upper(b, j)
  BY <1>0, <1>1, UpperType
<1>3. CASE j = 0
  <2>1. /\ Steps(p, b, 0) = z - x + Lap(c, b)
        /\ Steps(p, a, 0) = y - x + Lap(c, a)
        /\ Steps(q, b, 0) = z - y + Lap(a, b)
    BY <1>0, <1>2, <1>3, StepsTop
  <2>2. Lap(c, b) = Lap(c, a) + Lap(a, b)
    BY <1>0, <1>1, <1>3, LapsAdd
  <2>3. Lap(c, a) \in Nat /\ Lap(a, b) \in Nat
    BY DEF Lap
  <2> QED  BY <1>3, <2>1, <2>2, <2>3
<1>4. CASE j \in 1..3
  <2>1. /\ Steps(p, b, j) = z - x
        /\ Steps(p, a, j) = y - x
        /\ Steps(q, b, j) = z - y
    BY <1>0, <1>2, <1>4, StepsBelow
  <2> QED  BY <2>1
<1> QED  BY <1>1, <1>3, <1>4

LEMMA StatesEqual ==
    ASSUME NEW p \in MegolmState, NEW q \in MegolmState,
           p.counter = q.counter, p.data = q.data
    PROVE  p = q
BY DEF MegolmState

LEMMA JumpPart ==
    ASSUME NEW m \in MegolmState, NEW a \in Counter, NEW b \in Counter, NEW j \in Parts,
           Ordered(m.counter, a, b), Together(m, a, b, j)
    PROVE  Together(m, a, b, j + 1) \/ Met(m, a, b, j + 1)
<1>1. PICK first \in MegolmState : first = AdvanceTo(m, a) /\ first.counter = a
  BY JumpArrives
<1>2. PICK p \in MegolmState :
         p = Pass(m, a, j) /\ p = Pass(m, b, j) /\ Reached(p, a, j) /\ Reached(p, b, j)
  <2>1. /\ Pass(m, a, j) \in MegolmState /\ Reached(Pass(m, a, j), a, j)
        /\ Pass(m, b, j) \in MegolmState /\ Reached(Pass(m, b, j), b, j)
    <3>1. j \in 0..4
      BY DEF Parts
    <3> QED  BY <3>1, Passes, Zenon
  <2> QED  BY <2>1 DEF Together
<1>3. Pass(first, b, j) = first /\ Reached(first, b, j)
  BY <1>1 DEF Together
<1>4. /\ Pass(first, b, j + 1) = AdvancePart(first, b, j)
      /\ Pass(m, a, j + 1) = AdvancePart(p, a, j)
      /\ Pass(m, b, j + 1) = AdvancePart(p, b, j)
  BY <1>2, <1>3, PassNext
<1>5. PICK more \in Nat, one \in Nat, two \in Nat :
         /\ more = Steps(first, b, j) /\ one = Steps(p, a, j) /\ two = Steps(p, b, j)
         /\ two = one + more
  <2>1. j = 0 => p = m
    BY <1>2 DEF Pass
  <2>2. Steps(p, b, j) = Steps(p, a, j) + Steps(first, b, j)
    BY <1>1, <1>2, <1>3, <2>1, StepsAdd
  <2>3. Steps(first, b, j) \in Nat /\ Steps(p, a, j) \in Nat /\ Steps(p, b, j) \in Nat
    BY <1>2, <1>3, PartAdvanced
  <2> QED  BY <2>2, <2>3
<1>6. p.data \in Data /\ first.data \in Data
  BY DEF MegolmState
<1>7. CASE more = 0
  <2>1. AdvancePart(first, b, j) = first
    <3>1. Steps(first, b, j) = 0
      BY <1>5, <1>7
    <3> QED  BY <1>3, <3>1, PartAdvanced, Zenon
  <2>2. a <= b /\ Upper(a, j) = Upper(b, j)
    BY <1>1, <1>3, <2>1, PartAdvanced
  <2>3. AdvancePart(p, a, j) = AdvancePart(p, b, j)
    <3>1. two = one
      BY <1>5, <1>7
    <3>2. RoundedTo(a, j) = RoundedTo(b, j)
      BY <2>2 DEF RoundedTo, Upper
    <3> QED  BY <1>5, <3>1, <3>2 DEF AdvancePart
  <2>4. Reached(first, b, j + 1)
    <3>1. PICK k \in Nat : k = j + 1 /\ k - 1 = j
      BY DEF Parts
    <3>2. Reached(first, b, k)
      BY <1>1, <2>2, <3>1 DEF Reached
    <3> QED  BY <3>1, <3>2
  <2> QED  BY <1>1, <1>4, <2>1, <2>3, <2>4 DEF Together
<1>8. CASE more > 0
  <2>1. two > 0 /\ two # 0 /\ more # 0
    BY <1>5, <1>8
  <2>2. PICK p1 \in MegolmState, p2 \in MegolmState, p3 \in MegolmState :
           p1 = AdvancePart(first, b, j) /\ p2 = AdvancePart(p, b, j) /\ p3 = AdvancePart(p, a, j)
    BY <1>2, <1>3, PartAdvanced
  <2>3. p1.counter = RoundedTo(b, j) /\ p1.data = Ticked(first.data, j, more)
    BY <1>3, <1>5, <2>1, <2>2, PartAdvanced
  <2>4. p2.counter = RoundedTo(b, j) /\ p2.data = Ticked(p.data, j, two)
    <3>1. /\ AdvancePart(p, b, j).data = Ticked(p.data, j, Steps(p, b, j))
          /\ AdvancePart(p, b, j).counter
                 = IF Steps(p, b, j) = 0 THEN p.counter ELSE RoundedTo(b, j)
      BY <1>2, PartAdvanced, Zenon
    <3> QED  BY <1>5, <2>1, <2>2, <3>1
  <2>5. p3.data = Ticked(p.data, j, one)
    BY <1>2, <1>5, <2>2, PartAdvanced
  <2>6. \A i \in Parts : i <= j => first.data[i] = p3.data[i]
    BY <1>1, <1>4, <2>2, JumpKeeps
  <2>7. Ticked(first.data, j, more) = Ticked(p.data, j, two)
    <3>1. PICK data \in Data, after \in Data : data = p.data /\ after = first.data
      BY <1>6
    <3>2. \A i \in Parts : i <= j => after[i] = Ticked(data, j, one)[i]
      BY <2>5, <2>6, <3>1
    <3>3. Ticked(after, j, more) = Ticked(data, j, one + more)
      BY <1>8, <3>2, TicksJoin
    <3> QED  BY <1>5, <3>1, <3>3
  <2>8. p1 = p2
    BY <2>3, <2>4, <2>7, StatesEqual
  <2> QED  BY <1>1, <1>4, <2>2, <2>8 DEF Met
<1> QED  BY <1>7, <1>8, more = 0 \/ more > 0

LEMMA MetStays ==
    ASSUME NEW m, NEW a, NEW b, NEW j \in Parts, Met(m, a, b, j)
    PROVE  Met(m, a, b, j + 1)
BY PassNext DEF Met

\* Two calls of megolm_advance_to in a row are one, also around the end of the
\* counter: so a copy of a ratchet that went by another way agrees with it.
THEOREM JumpTwice ==
    ASSUME NEW m \in MegolmState, NEW a \in Counter, NEW b \in Counter,
           Ordered(m.counter, a, b)
    PROVE  AdvanceTo(AdvanceTo(m, a), b) = AdvanceTo(m, b)
<1> DEFINE Good(j) == Together(m, a, b, j) \/ Met(m, a, b, j)
<1>0. Good(0)
  BY DEF Together, Pass, Reached
<1>1. ASSUME NEW j \in Parts, Good(j) PROVE Good(j + 1)
  BY <1>1, JumpPart, MetStays
<1> HIDE DEF Good
<1>2. Good(1)
  <2>1. 0 \in Parts /\ 0 + 1 = 1
    BY DEF Parts
  <2> QED  BY <1>0, <1>1, <2>1, Zenon
<1>3. Good(2)
  <2>1. 1 \in Parts /\ 1 + 1 = 2
    BY DEF Parts
  <2> QED  BY <1>1, <1>2, <2>1, Zenon
<1>4. Good(3)
  <2>1. 2 \in Parts /\ 2 + 1 = 3
    BY DEF Parts
  <2> QED  BY <1>1, <1>3, <2>1, Zenon
<1>5. Good(4)
  <2>1. 3 \in Parts /\ 3 + 1 = 4
    BY DEF Parts
  <2> QED  BY <1>1, <1>4, <2>1, Zenon
<1>6. \A x, t : Pass(x, t, 4) = AdvanceTo(x, t)
  BY DEF Pass
<1> QED  BY <1>5, <1>6 DEF Good, Together, Met

-----------------------------------------------------------------------------
(* No step and one step *)

\* A part whose digits are at the target does not tick.
LEMMA PartIdle ==
    ASSUME NEW p \in MegolmState, NEW t \in Counter, NEW j \in Parts,
           Reached(p, t, j), p.counter <= t, Upper(p.counter, j) = Upper(t, j)
    PROVE  AdvancePart(p, t, j) = p
<1>1. PICK c \in Nat, x \in Nat : c = p.counter /\ x = Upper(c, j)
  BY UpperType, UnitFacts DEF MegolmState
<1>2. t \in Nat /\ (j = 0 \/ j \in 1..3)
  BY UnitFacts DEF Parts
<1>3. Steps(p, t, j) = 0
  <2>1. CASE j = 0
    <3>1. Steps(p, t, 0) = x - x + Lap(c, t)
      BY <1>1, <2>1, StepsTop
    <3>2. Lap(c, t) = 0
      BY <1>1, <1>2 DEF Lap
    <3> QED  BY <2>1, <3>1, <3>2
  <2>2. CASE j \in 1..3
    <3>1. Steps(p, t, j) = x - x
      BY <1>1, <2>2, StepsBelow
    <3> QED  BY <3>1
  <2> QED  BY <1>2, <2>1, <2>2
<1> QED  BY <1>3 DEF AdvancePart

LEMMA PartDone ==
    ASSUME NEW p \in MegolmState, NEW t \in Counter, NEW j \in Parts, p.counter = t
    PROVE  AdvancePart(p, t, j) = p
<1>1. t <= t
  BY UnitFacts
<1> QED  BY <1>1, PartIdle DEF Reached

THEOREM JumpNowhere ==
    ASSUME NEW m \in MegolmState
    PROVE  AdvanceTo(m, m.counter) = m
<1>1. PICK t \in Counter : t = m.counter
  BY DEF MegolmState
<1>2. \A j \in Parts : AdvancePart(m, t, j) = m
  BY <1>1, PartDone
<1> QED  BY <1>1, <1>2 DEF AdvanceTo, Parts

LEMMA TickedOnce ==
    ASSUME NEW data \in Data, NEW j \in Parts
    PROVE  Ticked(data, j, 1) = RehashFrom(data, j)
<1>1. PICK s \in Value : s = data[j]
  BY DEF Data
<1>2. Run(j, 0) = << >>
  BY DEF Run
<1>3. s \o << >> = s
  BY ConcatEmptySeq DEF Value
<1>4. RehashPart(data, j, 0) = [data EXCEPT ![j] = data[j]]
  <2>1. data[j] \o Run(j, 0) = data[j]
    BY <1>1, <1>2, <1>3
  <2> QED  BY <2>1 DEF RehashPart, Run
<1>5. [data EXCEPT ![j] = data[j]] = data
  BY DEF Data
<1> QED  BY <1>4, <1>5 DEF Ticked

\* The counter before a multiple of a digit's unit has that digit one lower; any
\* other counter has the digit of its successor.
LEMMA UpperBefore ==
    ASSUME NEW c \in Nat, NEW j \in Parts
    PROVE  /\ (c + 1) % Unit(j) = 0 =>
                  Upper(c + 1, j) = Upper(c, j) + 1 /\ RoundedTo(c + 1, j) = c + 1
           /\ (c + 1) % Unit(j) # 0 => Upper(c + 1, j) = Upper(c, j)
<1>1. PICK p \in Nat, q \in Nat, u \in Nat \ {0} :
         p = Upper(c, j) /\ q = Upper(c + 1, j) /\ u = Unit(j)
  BY UpperType, UnitFacts
<1>2. p * u <= c /\ c < p * u + u /\ q * u <= c + 1 /\ c + 1 < q * u + u
  BY <1>1, UpperType
<1>3. c + 1 = q * u + ((c + 1) % u) /\ (c + 1) % u \in 0 .. u - 1
  <2>1. c + 1 \in Nat
    OBVIOUS
  <2>2. c + 1 = ((c + 1) \div u) * u + ((c + 1) % u) /\ (c + 1) % u \in 0 .. u - 1
    BY <2>1, DivisionWhole
  <2> QED  BY <1>1, <2>2 DEF Upper
<1>4. CASE (c + 1) % u = 0
  <2>1. c + 1 = q * u
    BY <1>3, <1>4
  <2>2. q = p + 1
    <3>1. ASSUME q <= p PROVE FALSE
      <4>1. q * u <= p * u
        BY <3>1
      <4> QED  BY <1>2, <2>1, <4>1
    <3>2. ASSUME p + 2 <= q PROVE FALSE
      <4>1. (p + 2) * u <= q * u
        BY <3>2
      <4> QED  BY <1>2, <2>1, <4>1
    <3> QED  BY <3>1, <3>2
  <2> QED  BY <1>1, <1>4, <2>1, <2>2 DEF RoundedTo, Upper
<1>5. CASE (c + 1) % u # 0
  <2>1. q * u <= c
    <3>1. PICK e \in Nat, r \in Nat : e = q * u /\ r = (c + 1) % u
      BY <1>3
    <3> QED  BY <1>3, <1>5, <3>1
  <2>2. q = p
    BY <1>1, <1>2, <2>1, DivisionUnique DEF Upper
  <2> QED  BY <1>1, <1>5, <2>2
<1> QED  BY <1>4, <1>5

\* The only part of a single step that ticks is the highest whose lower digits are
\* all zero.
LEMMA StepParts ==
    ASSUME NEW m \in MegolmState, NEW t \in Counter, NEW h \in Parts,
           t = (m.counter + 1) % Period,
           t % Unit(h) = 0, \A k \in 0 .. h - 1 : t % Unit(k) # 0
    PROVE  AdvanceTo(m, t) = [counter |-> t, data |-> RehashFrom(m.data, h)]
<1>1. PICK c \in Nat : c = m.counter /\ c <= Period - 1
  BY UnitFacts DEF MegolmState, Counter
<1>2. PICK next : next = [counter |-> t, data |-> RehashFrom(m.data, h)]
  OBVIOUS
<1>3. m.data \in Data /\ RehashFrom(m.data, h) \in Data
  <2>1. m.data \in Data
    BY DEF MegolmState
  <2>2. Ticked(m.data, h, 1) \in Data
    BY <2>1, TickedFields
  <2> QED  BY <2>1, <2>2, TickedOnce
<1>4. next \in MegolmState /\ next.counter = t
  BY <1>2, <1>3 DEF MegolmState
<1>5. CASE c = Period - 1
  <2>1. t = 0
    BY <1>1, <1>5, UnitFacts
  <2>2. h = 0
    <3>1. ASSUME h # 0 PROVE FALSE
      <4>1. 0 \in 0 .. h - 1
        BY <3>1 DEF Parts
      <4>2. 0 % Unit(0) = 0
        BY UnitFacts DEF Parts
      <4> QED  BY <2>1, <4>1, <4>2
    <3> QED  BY <3>1
  <2>3. Steps(m, t, 0) = 1
    <3>0. 0 \in Parts /\ 0 \in Nat
      BY DEF Parts
    <3>1. PICK x \in Nat, y \in Nat, u \in Nat \ {0} :
             x = Upper(c, 0) /\ y = Upper(0, 0) /\ u = Unit(0) /\ Period = Radix * u
      BY <3>0, UpperType, UnitFacts
    <3>2. x = Radix - 1
      <4>1. (Radix - 1) * u = Radix * u - u
        OBVIOUS
      <4>2. (Radix - 1) * u <= c /\ c < (Radix - 1) * u + u
        BY <1>5, <3>1, <4>1
      <4>3. c \div u = Radix - 1
        <5>1. PICK d \in Nat : d = Radix - 1
          OBVIOUS
        <5>2. d * u <= c /\ c < d * u + u
          BY <4>2, <5>1
        <5> QED  BY <5>1, <5>2, DivisionUnique
      <4> QED  BY <3>1, <4>3 DEF Upper
    <3>3. y = 0
      <4>1. 0 * u <= 0 /\ 0 < 0 * u + u
        OBVIOUS
      <4> QED  BY <3>1, <4>1, DivisionUnique DEF Upper
    <3>4. Lap(c, t) = Radix
      <4>1. c > 0
        <5>1. Radix * u >= 2 * u
          OBVIOUS
        <5> QED  BY <1>5, <3>1, <5>1
      <4> QED  BY <2>1, <4>1 DEF Lap
    <3> QED  BY <1>1, <2>1, <3>1, <3>2, <3>3, <3>4, StepsTop
  <2>4. AdvancePart(m, t, 0) = next
    <3>1. PICK p \in MegolmState : p = AdvancePart(m, t, 0)
      BY PartAdvanced DEF Reached, Parts
    <3>2. 0 \in Parts /\ Reached(m, t, 0)
      BY DEF Reached, Parts
    <3>3. p.data = Ticked(m.data, 0, 1) /\ p.counter = RoundedTo(t, 0)
      BY <2>3, <3>1, <3>2, PartAdvanced
    <3>4. RoundedTo(0, 0) = 0
      BY <3>2, Rounding, <2>1, UnitFacts DEF Counter
    <3>5. p.data = next.data
      BY <1>2, <1>3, <2>2, <3>2, <3>3, TickedOnce
    <3> QED  BY <1>4, <2>1, <3>1, <3>3, <3>4, <3>5, StatesEqual
  <2>5. \A j \in Parts : AdvancePart(next, t, j) = next
    BY <1>4, PartDone
  <2> QED  BY <1>2, <2>4, <2>5 DEF AdvanceTo, Parts
<1>6. CASE c < Period - 1
  <2>1. t = c + 1 /\ t \in Nat /\ c <= t
    BY <1>1, <1>6, UnitFacts
  <2>2. \A j \in Parts : j < h => Upper(c, j) = Upper(t, j)
    <3>1. \A j \in Parts : j < h => j \in 0 .. h - 1
      BY DEF Parts
    <3> QED  BY <2>1, <3>1, UpperBefore
  <2>3. \A j \in Parts : j <= h => Reached(m, t, j)
    <3> SUFFICES ASSUME NEW j \in Parts, j <= h, j # 0 PROVE Reached(m, t, j)
      BY DEF Reached
    <3>1. j - 1 \in Parts /\ j - 1 < h
      BY DEF Parts
    <3> QED  BY <1>1, <2>1, <2>2, <3>1 DEF Reached
  <2>4. \A j \in Parts : j < h => AdvancePart(m, t, j) = m
    <3>1. \A j \in Parts : j < h => j <= h
      BY DEF Parts
    <3> QED  BY <1>1, <2>1, <2>2, <2>3, <3>1, PartIdle
  <2>5. AdvancePart(m, t, h) = next
    <3>0. Reached(m, t, h)
      BY <2>3 DEF Parts
    <3>1. PICK x \in Nat : x = Upper(c, h)
      BY UpperType
    <3>2. Upper(t, h) = x + 1 /\ RoundedTo(t, h) = t
      BY <2>1, <3>1, UpperBefore
    <3>3. Steps(m, t, h) = 1
      <4>1. CASE h = 0
        <5>1. Steps(m, t, 0) = x + 1 - x + Lap(c, t)
          BY <1>1, <3>1, <3>2, <4>1, StepsTop
        <5>2. Lap(c, t) = 0
          BY <2>1 DEF Lap
        <5> QED  BY <4>1, <5>1, <5>2
      <4>2. CASE h \in 1..3
        <5>1. Steps(m, t, h) = x + 1 - x
          BY <1>1, <3>0, <3>1, <3>2, <4>2, StepsBelow
        <5> QED  BY <5>1
      <4> QED  BY <4>1, <4>2 DEF Parts
    <3>4. PICK p \in MegolmState : p = AdvancePart(m, t, h)
      BY <3>0, PartAdvanced
    <3>5. p.data = Ticked(m.data, h, 1) /\ p.counter = t
      BY <3>0, <3>2, <3>3, <3>4, PartAdvanced
    <3>6. p.data = next.data
      BY <1>2, <1>3, <3>5, TickedOnce
    <3> QED  BY <1>4, <3>4, <3>5, <3>6, StatesEqual
  <2>6. \A j \in Parts : AdvancePart(next, t, j) = next
    BY <1>4, PartDone
  <2>7. h = 0 \/ h = 1 \/ h = 2 \/ h = 3
    BY DEF Parts
  <2>8. CASE h = 0
    BY <1>2, <2>5, <2>6, <2>8 DEF AdvanceTo, Parts
  <2>9. CASE h = 1
    BY <1>2, <2>4, <2>5, <2>6, <2>9 DEF AdvanceTo, Parts
  <2>10. CASE h = 2
    BY <1>2, <2>4, <2>5, <2>6, <2>10 DEF AdvanceTo, Parts
  <2>11. CASE h = 3
    BY <1>2, <2>4, <2>5, <2>6, <2>11 DEF AdvanceTo, Parts
  <2> QED  BY <2>7, <2>8, <2>9, <2>10, <2>11
<1>7. c = Period - 1 \/ c < Period - 1
  BY <1>1, UnitFacts
<1> QED  BY <1>2, <1>5, <1>6, <1>7

\* megolm_advance is megolm_advance_to the next index.
THEOREM StepIsJump ==
    ASSUME NEW m \in MegolmState
    PROVE  /\ (m.counter + 1) % Period \in Counter
           /\ Advance(m) = AdvanceTo(m, (m.counter + 1) % Period)
<1>1. PICK t \in Counter : t = (m.counter + 1) % Period
  BY UnitFacts DEF MegolmState, Counter
<1> DEFINE Highest(j) == t % Unit(j) = 0 /\ \A k \in 0 .. j - 1 : t % Unit(k) # 0
<1>2. \E j \in Parts : Highest(j)
  <2>1. t % Unit(3) = 0
    <3>1. t \in Nat /\ t % 1 = 0
      BY UnitFacts
    <3> QED  BY <3>1, UnitFacts
  <2>2. CASE t % Unit(0) = 0
    BY <2>2 DEF Parts
  <2>3. CASE t % Unit(0) # 0 /\ t % Unit(1) = 0
    <3>1. \A k \in 0 .. 1 - 1 : k = 0
      OBVIOUS
    <3>2. Highest(1)
      BY <2>3, <3>1
    <3> QED  BY <3>2 DEF Parts
  <2>4. CASE t % Unit(0) # 0 /\ t % Unit(1) # 0 /\ t % Unit(2) = 0
    <3>1. \A k \in 0 .. 2 - 1 : k = 0 \/ k = 1
      OBVIOUS
    <3>2. Highest(2)
      BY <2>4, <3>1
    <3> QED  BY <3>2 DEF Parts
  <2>5. CASE t % Unit(0) # 0 /\ t % Unit(1) # 0 /\ t % Unit(2) # 0
    <3>1. \A k \in 0 .. 3 - 1 : k = 0 \/ k = 1 \/ k = 2
      OBVIOUS
    <3>2. Highest(3)
      BY <2>1, <2>5, <3>1
    <3> QED  BY <3>2 DEF Parts
  <2> QED  BY <2>2, <2>3, <2>4, <2>5
<1>3. PICK h \in Parts : h = CHOOSE j \in Parts : Highest(j)
  BY <1>2
<1>4. Highest(h)
  BY <1>2, <1>3
<1>5. Advance(m) = [counter |-> t, data |-> RehashFrom(m.data, h)]
  BY <1>1, <1>3 DEF Advance
<1>6. AdvanceTo(m, t) = [counter |-> t, data |-> RehashFrom(m.data, h)]
  BY <1>1, <1>4, StepParts
<1> QED  BY <1>1, <1>5, <1>6

-----------------------------------------------------------------------------
(* The work of one call *)

\* A digit that ticks as often as it can ends with its highest value.
LEMMA DigitFull ==
    ASSUME NEW c \in Nat, NEW t \in Nat, NEW b \in Nat, NEW j \in 0..2,
           Upper(b, j) = Upper(t, j), Upper(t, j + 1) - Upper(b, j + 1) = Radix - 1,
           Upper(c, j) <= Upper(t, j)
    PROVE  Upper(c, j + 1) <= Upper(t, j + 1)
<1>1. j \in Parts /\ j + 1 \in Parts
  BY DEF Parts
<1>2. PICK x \in Nat, y \in Nat, u \in Nat, v \in Nat, w \in Nat :
         /\ x = Upper(c, j) /\ y = Upper(t, j)
         /\ u = Upper(c, j + 1) /\ v = Upper(t, j + 1) /\ w = Upper(b, j + 1)
  BY <1>1, UpperType
<1>3. u < x * Radix + Radix /\ y * Radix <= w
  <2>1. Upper(b, j) * Radix <= Upper(b, j + 1)
    BY UpperNext
  <2> QED  BY <1>2, <2>1, UpperNext
<1>4. x * Radix <= y * Radix
  <2>1. x <= y
    BY <1>2
  <2>2. \A k \in Nat : x * k <= y * k
    BY <2>1
  <2> QED  BY <2>2
<1>5. v = w + (Radix - 1)
  BY <1>2
<1> QED  BY <1>2, <1>3, <1>4, <1>5

\* After a whole turn of R(0) the other digits cannot all tick as often as they can:
\* the call would end where it began, or after it.
LEMMA NotAllFull ==
    ASSUME NEW m \in MegolmState, NEW t \in Counter, NEW p \in MegolmState,
           NEW q \in MegolmState, NEW r \in MegolmState,
           p = AdvancePart(m, t, 0), Reached(p, t, 1),
           q = AdvancePart(p, t, 1), Reached(q, t, 2),
           r = AdvancePart(q, t, 2), Reached(r, t, 3),
           Steps(m, t, 0) = Radix
    PROVE  ~ /\ Steps(p, t, 1) = Radix - 1 /\ Steps(q, t, 2) = Radix - 1
             /\ Steps(r, t, 3) = Radix - 1
<1> SUFFICES ASSUME Steps(p, t, 1) = Radix - 1, Steps(q, t, 2) = Radix - 1,
                    Steps(r, t, 3) = Radix - 1
             PROVE  FALSE
  OBVIOUS
<1>1. PICK c \in Counter, a \in Counter, b \in Counter, d \in Counter :
         c = m.counter /\ a = p.counter /\ b = q.counter /\ d = r.counter
  BY DEF MegolmState
<1>2. c \in Nat /\ t \in Nat /\ a \in Nat /\ b \in Nat /\ d \in Nat
  BY UnitFacts
<1>3. Upper(c, 0) \in 0 .. Radix - 1 /\ Upper(t, 0) \in 0 .. Radix - 1
  BY UpperBound
<1>4. Upper(c, 0) <= Upper(t, 0) /\ t < c
  <2>1. Upper(t, 0) - Upper(c, 0) + Lap(c, t) = Radix
    BY <1>1, StepsTop
  <2> QED  BY <1>2, <1>3, <2>1 DEF Lap
<1>5. /\ Upper(a, 0) = Upper(t, 0) /\ Upper(b, 1) = Upper(t, 1) /\ Upper(d, 2) = Upper(t, 2)
  BY <1>1 DEF Reached
<1>6. /\ Upper(t, 1) - Upper(a, 1) = Radix - 1
      /\ Upper(t, 2) - Upper(b, 2) = Radix - 1
      /\ Upper(t, 3) - Upper(d, 3) = Radix - 1
  BY <1>1, StepsBelow
<1>7. Upper(c, 1) <= Upper(t, 1)
  <2>1. 0 \in 0..2 /\ 0 + 1 = 1
    OBVIOUS
  <2> QED  BY <1>2, <1>4, <1>5, <1>6, <2>1, DigitFull
<1>8. Upper(c, 2) <= Upper(t, 2)
  <2>1. 1 \in 0..2 /\ 1 + 1 = 2
    OBVIOUS
  <2> QED  BY <1>2, <1>5, <1>6, <1>7, <2>1, DigitFull
<1>9. Upper(c, 3) <= Upper(t, 3)
  <2>1. 2 \in 0..2 /\ 2 + 1 = 3
    OBVIOUS
  <2> QED  BY <1>2, <1>5, <1>6, <1>8, <2>1, DigitFull
<1>10. Upper(c, 3) = c /\ Upper(t, 3) = t
  BY <1>2, UnitFacts DEF Upper
<1> QED  BY <1>2, <1>4, <1>9, <1>10

\* Each digit ticks less than a turn, R(0) at most one, and then another one less.
THEOREM HashesOfACall ==
    ASSUME NEW m \in MegolmState, NEW t \in Counter
    PROVE  Hashes(m, t) <= 4 * (Radix - 1) + 6
<1>1. PICK p \in MegolmState, q \in MegolmState, r \in MegolmState :
         /\ p = AdvancePart(m, t, 0) /\ Reached(p, t, 1)
         /\ q = AdvancePart(p, t, 1) /\ Reached(q, t, 2)
         /\ r = AdvancePart(q, t, 2) /\ Reached(r, t, 3)
  <2>1. \A j \in {1, 2, 3} : Pass(m, t, j) \in MegolmState /\ Reached(Pass(m, t, j), t, j)
    BY Passes
  <2> QED  BY <2>1 DEF Pass
<1>2. PICK a \in 0..Radix, b \in 0 .. Radix - 1, c \in 0 .. Radix - 1, d \in 0 .. Radix - 1 :
         /\ a = Steps(m, t, 0) /\ b = Steps(p, t, 1)
         /\ c = Steps(q, t, 2) /\ d = Steps(r, t, 3)
  BY <1>1, StepsTop, StepsBelow
<1>3. Hashes(m, t) = (IF a = 0 THEN 0 ELSE a + 3) + (IF b = 0 THEN 0 ELSE b + 2)
                        + (IF c = 0 THEN 0 ELSE c + 1) + (IF d = 0 THEN 0 ELSE d)
  BY <1>1, <1>2 DEF Hashes, PartHashes
<1>4. ~(a = Radix /\ b = Radix - 1 /\ c = Radix - 1 /\ d = Radix - 1)
  BY <1>1, <1>2, NotAllFull
<1> QED  BY <1>2, <1>3, <1>4

\* Just before a multiple of a unit.
LEMMA BeforeMultiple ==
    ASSUME NEW k \in Nat \ {0}, NEW n \in Nat \ {0}
    PROVE  k * n - 1 \in Nat /\ (k * n - 1) \div n = k - 1
<1>1. (k - 1) * n = k * n - n /\ k - 1 \in Nat
  OBVIOUS
<1>2. (k - 1) * n \in Nat
  BY <1>1
<1>3. PICK x \in Nat, y \in Nat : x = (k - 1) * n /\ y = k * n - 1
  BY <1>1, <1>2
<1>4. (k - 1) * n <= y /\ y < (k - 1) * n + n
  BY <1>1, <1>3
<1> QED  BY <1>1, <1>3, <1>4, DivisionUnique

LEMMA FullBelow ==
    ASSUME NEW t \in Nat, NEW j \in 0..2, NEW k \in Nat \ {0}, t + 1 = k * Unit(j)
    PROVE  /\ Upper(t, j) = k - 1
           /\ t + 1 = (k * Radix) * Unit(j + 1) /\ k * Radix \in Nat \ {0}
           /\ Upper(t, j + 1) = k * Radix - 1
           /\ Upper(RoundedTo(t, j), j + 1) = (k - 1) * Radix
<1>1. j \in Parts /\ j + 1 \in Parts
  BY DEF Parts
<1>2. PICK u \in Nat \ {0}, n \in Nat \ {0} :
         u = Unit(j + 1) /\ n = Unit(j) /\ n = Radix * u
  BY <1>1, UnitFacts
<1>3. PICK h \in Nat \ {0} : h = k * Radix
  OBVIOUS
<1>4. t + 1 = h * u
  BY <1>2, <1>3
<1>5. t = k * n - 1 /\ t = h * u - 1
  BY <1>2, <1>4
<1>6. Upper(t, j) = k - 1 /\ Upper(t, j + 1) = h - 1
  BY <1>2, <1>5, BeforeMultiple DEF Upper
<1>7. PICK x \in Nat, y \in Nat : x = (k - 1) * Radix /\ y = x * u
  OBVIOUS
<1>8. RoundedTo(t, j) = y
  <2>1. RoundedTo(t, j) = (k - 1) * (Radix * u)
    BY <1>2, <1>6 DEF RoundedTo, Upper
  <2> QED  BY <1>7, <2>1
<1>9. y \div u = x
  <2>1. x * u <= y /\ y < x * u + u
    BY <1>2, <1>7
  <2> QED  BY <1>2, <1>7, <2>1, DivisionUnique
<1> QED  BY <1>2, <1>3, <1>4, <1>6, <1>7, <1>8, <1>9 DEF Upper

\* From the first index to the last every digit ticks as often as it can.
THEOREM HashesAttained ==
    ASSUME NEW m \in MegolmState, NEW t \in Counter, m.counter = 0, t = Period - 1
    PROVE  Hashes(m, t) = 4 * (Radix - 1) + 6
<1>0. t \in Nat /\ 0 \in 0..2 /\ 1 \in 0..2 /\ 2 \in 0..2 /\ 0 + 1 = 1 /\ 1 + 1 = 2 /\ 2 + 1 = 3
  BY UnitFacts
<1>1. PICK p \in MegolmState, q \in MegolmState, r \in MegolmState :
         /\ p = AdvancePart(m, t, 0) /\ Reached(p, t, 1)
         /\ q = AdvancePart(p, t, 1) /\ Reached(q, t, 2)
         /\ r = AdvancePart(q, t, 2) /\ Reached(r, t, 3)
  <2>1. \A j \in {1, 2, 3} : Pass(m, t, j) \in MegolmState /\ Reached(Pass(m, t, j), t, j)
    BY Passes
  <2> QED  BY <2>1 DEF Pass
<1>2. PICK n \in Nat \ {0} : n = Radix /\ n > 1
  OBVIOUS
<1>3. PICK k \in Nat \ {0}, l \in Nat \ {0} : k = n * Radix /\ l = k * Radix
  BY <1>2
<1>4. /\ Upper(t, 0) = n - 1 /\ t + 1 = k * Unit(1)
      /\ Upper(t, 1) = k - 1 /\ Upper(RoundedTo(t, 0), 1) = (n - 1) * Radix
  <2>1. t + 1 = n * Unit(0)
    BY <1>0, <1>2, UnitFacts
  <2> QED  BY <1>0, <1>3, <2>1, FullBelow
<1>5. /\ t + 1 = l * Unit(2)
      /\ Upper(t, 2) = l - 1 /\ Upper(RoundedTo(t, 1), 2) = (k - 1) * Radix
  BY <1>0, <1>3, <1>4, FullBelow
<1>6. /\ Upper(t, 3) = l * Radix - 1 /\ Upper(RoundedTo(t, 2), 3) = (l - 1) * Radix
  BY <1>0, <1>3, <1>5, FullBelow
<1>7. Steps(m, t, 0) = Radix - 1
  <2>1. Upper(0, 0) = 0
    <3>1. PICK u \in Nat \ {0} : u = Unit(0)
      BY UnitFacts DEF Parts
    <3>2. 0 \div u = 0
      <4>1. 0 * u <= 0 /\ 0 < 0 * u + u
        OBVIOUS
      <4> QED  BY <4>1, DivisionUnique
    <3> QED  BY <3>1, <3>2 DEF Upper
  <2>2. Lap(0, t) = 0
    BY <1>0 DEF Lap
  <2> QED  BY <1>2, <1>4, <2>1, <2>2, StepsTop
<1>8. Steps(p, t, 1) = Radix - 1
  <2>1. p.counter = RoundedTo(t, 0)
    <3>1. Steps(m, t, 0) # 0
      BY <1>2, <1>7
    <3> QED  BY <1>1, <3>1 DEF AdvancePart
  <2>2. Steps(p, t, 1) = (k - 1) - (n - 1) * Radix
    BY <1>1, <1>4, <2>1, StepsBelow
  <2> QED  BY <1>2, <1>3, <2>2
<1>9. Steps(q, t, 2) = Radix - 1
  <2>1. q.counter = RoundedTo(t, 1)
    <3>1. Steps(p, t, 1) # 0
      BY <1>2, <1>8
    <3> QED  BY <1>1, <3>1 DEF AdvancePart
  <2>2. Steps(q, t, 2) = (l - 1) - (k - 1) * Radix
    BY <1>1, <1>5, <2>1, StepsBelow
  <2> QED  BY <1>2, <1>3, <2>2
<1>10. Steps(r, t, 3) = Radix - 1
  <2>1. r.counter = RoundedTo(t, 2)
    <3>1. Steps(q, t, 2) # 0
      BY <1>2, <1>9
    <3> QED  BY <1>1, <3>1 DEF AdvancePart
  <2>2. Steps(r, t, 3) = (l * Radix - 1) - (l - 1) * Radix
    BY <1>1, <1>6, <2>1, StepsBelow
  <2> QED  BY <1>2, <1>3, <2>2
<1>11. Hashes(m, t) = (Radix - 1 + 3) + (Radix - 1 + 2) + (Radix - 1 + 1) + (Radix - 1)
  <2>1. PICK s \in Nat \ {0} : s = Radix - 1
    BY <1>2
  <2>2. /\ PartHashes(m, t, 0) = s + 3 /\ PartHashes(p, t, 1) = s + 2
        /\ PartHashes(q, t, 2) = s + 1 /\ PartHashes(r, t, 3) = s
    BY <1>7, <1>8, <1>9, <1>10, <2>1 DEF PartHashes
  <2> QED  BY <1>1, <2>1, <2>2 DEF Hashes
<1> QED  BY <1>2, <1>11
==============================================================================

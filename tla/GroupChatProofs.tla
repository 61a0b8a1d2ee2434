---------------------------- MODULE GroupChatProofs ----------------------------
(***************************************************************************)
(* A group conversation with any number of readers, messages and keys, and *)
(* any damage to the keys: a reader opens and hands on exactly the indices *)
(* where its initial ratchet has met the sender's, and says that it is     *)
(* verified only with evidence of such an index.                           *)
(***************************************************************************)
EXTENDS GroupChat, MegolmProofs

USE ChatBounds, DamageAssumption, WithinHalf

Index == 0..MaxMessages

-----------------------------------------------------------------------------
(* The inductive invariant *)

\* The sender goes through its own ratchet values, and each message has an index of
\* its own; what was let go lies before the last pickle, what was not after it.
MessageInv(m) ==
    /\ m = [index     |-> m.index,     sealed_with |-> m.sealed_with,
            plaintext |-> m.plaintext, signed_by   |-> SigningKey]
    /\ m.index \in Index /\ m.plaintext \in 0 .. MaxMessages - 1
    /\ m.sealed_with = RatchetAt[m.index].data

SenderInv ==
    /\ written \in Index
    /\ saved_outbound.counter \in Nat /\ saved_outbound.counter <= outbound.counter
    /\ outbound.counter \in 0..written
    /\ outbound = RatchetAt[outbound.counter]
    /\ saved_outbound = RatchetAt[saved_outbound.counter]
    /\ \A m \in sent : MessageInv(m) /\ m.index < saved_outbound.counter
    /\ \A m \in outbox : MessageInv(m) /\ m.index >= saved_outbound.counter
                                       /\ m.index < outbound.counter
    /\ \A m, n \in sent \union outbox : m.index = n.index => m = n

\* Nothing is known of a key on its way but that its ratchet is one, unless it is
\* signed.
KeyInv(key) ==
    /\ key = [version |-> key.version, counter     |-> key.counter,
              data    |-> key.data,    signing_key |-> key.signing_key,
              signed  |-> key.signed]
    /\ key.counter \in Counter /\ key.data \in Data /\ Len(key.data[0]) > 0
    /\ key.signing_key # NoKey
    /\ key.signed \in BOOLEAN
    /\ key.signed => key.counter \in Index /\ OfSender(key, key.counter)

\* The highest part of a ratchet is never reseeded, so it is as long as its counter and
\* the turns it made say.  One that went around the end of the counter is longer than
\* the sender's at any index of the conversation, and stays so.
Past(m) == Len(m.data[0]) > 1 + Upper(m.counter, 0)

\* The latest ratchet of a session is on the way of the initial one; from a damaged
\* counter that no message has, it may have gone around the end.
OnWay(initial, latest) ==
    IF initial.counter \in Index
    THEN /\ latest.counter \in Index /\ initial.counter <= latest.counter
         /\ latest = AdvanceTo(initial, latest.counter)
    ELSE latest = initial \/ (latest.counter \in Index /\ Past(latest))

SessionInv(s) ==
    /\ s = [initial_ratchet      |-> s.initial_ratchet,
            latest_ratchet       |-> s.latest_ratchet,
            signing_key          |-> s.signing_key,
            signing_key_verified |-> s.signing_key_verified]
    /\ s.signing_key # NoKey /\ s.signing_key_verified \in BOOLEAN
    /\ s.initial_ratchet \in MegolmState /\ s.latest_ratchet \in MegolmState
    /\ Len(s.initial_ratchet.data[0]) > 0
    /\ OnWay(s.initial_ratchet, s.latest_ratchet)

\* Why a session is verified: what it was given was signed, or a message was.
JoinsIndex(s, i) == i \in Index /\ Joins(s, i)

Evidence(s, seen) ==
    s.signing_key_verified =>
        JoinsIndex(s, FirstKnownIndex(s)) \/ \E e \in seen : JoinsIndex(s, e.index)

ReaderInv(s, seen) == SessionInv(s) /\ Evidence(s, seen)

ReadersInv ==
    /\ ready \in [Readers -> BOOLEAN]
    /\ DOMAIN inbound = Readers /\ DOMAIN saved_inbound = Readers
    /\ DOMAIN opened = Readers
    /\ \A r \in Readers :
          /\ IF ready[r] THEN ReaderInv(inbound[r], opened[r])
                         ELSE inbound[r].signing_key_verified = FALSE
          /\ saved_inbound[r] # Cleared => ReaderInv(saved_inbound[r], opened[r])

ChatInv == SenderInv /\ (\A key \in keys : KeyInv(key)) /\ ReadersInv

-----------------------------------------------------------------------------
(* Indices *)

LEMMA HalfRange ==
    /\ MaxMessages \in Nat /\ Index \subseteq Nat /\ Index \subseteq Counter
    /\ \A i \in Index : i <= MaxMessages
    /\ \A i \in Nat : i <= MaxMessages => i \in Index
    /\ \A i \in Index : i < MaxMessages => (i + 1) % Period = i + 1
<1>1. PICK n \in Nat \ {0} : n = Period
  BY UnitFacts
<1>2. MaxMessages < n /\ MaxMessages \in Nat
  <2>1. n \div 2 <= n
    OBVIOUS
  <2> QED  BY <1>1, <2>1
<1>3. \A i \in Nat : i < n => i % n = i
  <2>1. \A i \in Nat : i < n => i \in 0 .. n - 1
    OBVIOUS
  <2> QED  BY <2>1, Remainder
<1> QED  BY <1>1, <1>2, <1>3 DEF Index, Counter

\* Within half the range, indices are ordered as numbers.
LEMMA Ordering ==
    ASSUME NEW a \in Index, NEW b \in Index
    PROVE  AtOrAfter(a, b) <=> a >= b
<1>1. PICK n \in Nat \ {0}, h \in Nat : n = Period /\ h = n \div 2
  BY UnitFacts
<1>2. MaxMessages \in Nat /\ MaxMessages < h /\ 2 * h <= n
  <2>1. 2 * (n \div 2) <= n
    OBVIOUS
  <2> QED  BY <1>1, <2>1
<1>3. a \in Nat /\ b \in Nat /\ a <= MaxMessages /\ b <= MaxMessages
  BY HalfRange
<1>4. CASE a >= b
  <2>1. a - b \in 0 .. n - 1
    BY <1>2, <1>3, <1>4
  <2>2. Difference(a, b) = a - b
    BY <1>1, <2>1, Remainder DEF Difference
  <2> QED  BY <1>1, <1>2, <1>3, <1>4, <2>2 DEF AtOrAfter
<1>5. CASE a < b
  <2>1. a - b \in -n .. -1
    BY <1>2, <1>3, <1>5
  <2>2. Difference(a, b) = a - b + n
    BY <1>1, <2>1, Remainder DEF Difference
  <2> QED  BY <1>1, <1>2, <1>3, <1>5, <2>2 DEF AtOrAfter
<1> QED  BY <1>3, <1>4, <1>5

-----------------------------------------------------------------------------
(* The ratchet of the sender *)

LEMMA SeedsFacts == Seeds \in Data /\ Seeds[0] = <<0>>
<1>1. \A i \in Parts : <<i>> \in Seq(Nat)
  BY DEF Parts
<1>2. 0 \in Parts
  BY DEF Parts
<1> QED  BY <1>1, <1>2 DEF Seeds, Data, Value

LEMMA NewFacts == NewOutbound(Seeds) \in MegolmState /\ NewOutbound(Seeds).counter = 0
<1>1. 0 \in Counter
  BY UnitFacts DEF Counter
<1> QED  BY <1>1, SeedsFacts DEF NewOutbound, MegolmInit, MegolmState

LEMMA RatchetFacts ==
    /\ \A i \in Counter : /\ RatchetAt[i] = AdvanceTo(NewOutbound(Seeds), i)
                          /\ RatchetAt[i] \in MegolmState
                          /\ RatchetAt[i].counter = i
    /\ 0 \in Counter /\ RatchetAt[0] = NewOutbound(Seeds)
<1>1. \A i \in Counter : RatchetAt[i] = AdvanceTo(NewOutbound(Seeds), i)
  BY DEF RatchetAt
<1>2. 0 \in Counter
  BY UnitFacts DEF Counter
<1>3. RatchetAt[0] = NewOutbound(Seeds)
  BY <1>1, <1>2, NewFacts, JumpNowhere
<1> QED  BY <1>1, <1>2, <1>3, NewFacts, JumpArrives

\* From any of its values on, the ratchet goes through the others.
LEMMA RatchetOn ==
    ASSUME NEW i \in Counter, NEW j \in Counter, i <= j
    PROVE  AdvanceTo(RatchetAt[i], j) = RatchetAt[j]
<1>1. Ordered(0, i, j)
  BY UnitFacts DEF Ordered
<1>2. PICK m \in MegolmState : m = NewOutbound(Seeds) /\ m.counter = 0
  BY NewFacts
<1>3. AdvanceTo(AdvanceTo(m, i), j) = AdvanceTo(m, j)
  BY <1>1, <1>2, JumpTwice
<1> QED  BY <1>2, <1>3, RatchetFacts

LEMMA RatchetNext ==
    ASSUME NEW i \in Index, i < MaxMessages
    PROVE  i + 1 \in Index /\ Advance(RatchetAt[i]) = RatchetAt[i + 1]
<1>1. i \in Counter /\ i \in Nat /\ i + 1 \in Index /\ i + 1 \in Counter
  BY HalfRange DEF Index
<1>2. (i + 1) % Period = i + 1
  BY HalfRange
<1>3. PICK m \in MegolmState : m = RatchetAt[i] /\ m.counter = i
  BY <1>1, RatchetFacts
<1>4. Advance(m) = AdvanceTo(m, i + 1)
  BY <1>2, <1>3, StepIsJump
<1>5. AdvanceTo(RatchetAt[i], i + 1) = RatchetAt[i + 1]
  BY <1>1, RatchetOn
<1> QED  BY <1>1, <1>3, <1>4, <1>5

-----------------------------------------------------------------------------
(* The highest part *)

LEMMA TopLength ==
    ASSUME NEW m \in MegolmState, NEW t \in Counter
    PROVE  /\ Len(m.data[0]) \in Nat
           /\ Len(AdvanceTo(m, t).data[0])
                 = Len(m.data[0]) + (Upper(t, 0) - Upper(m.counter, 0) + Lap(m.counter, t))
           /\ Len(AdvanceTo(m, t).data[0]) >= Len(m.data[0])
<1>1. 0 \in Parts /\ 0 \in 0..4 /\ 0 + 1 = 1
  BY DEF Parts
<1>2. PICK data \in Data, n \in Nat : data = m.data /\ n = Steps(m, t, 0)
  BY StepsTop DEF MegolmState
<1>3. AdvanceTo(m, t).data[0] = Ticked(data, 0, n)[0]
  <2>1. Reached(m, t, 0)
    BY DEF Reached
  <2>2. AdvancePart(m, t, 0).data = Ticked(data, 0, n)
    BY <1>1, <1>2, <2>1, PartAdvanced
  <2>3. Pass(m, t, 0 + 1) = AdvancePart(m, t, 0)
    BY DEF Pass
  <2>4. AdvanceTo(m, t).data[0] = Pass(m, t, 0 + 1).data[0]
    BY <1>1, JumpKeeps
  <2> QED  BY <2>2, <2>3, <2>4
<1>4. PICK s \in Seq(Nat), l \in Nat : s = data[0] /\ l = Len(s)
  <2>1. data[0] \in Seq(Nat)
    BY <1>1 DEF Data, Value
  <2> QED  BY <2>1, LenProperties
<1>5. Len(Ticked(data, 0, n)[0]) = l + n
  <2>1. CASE n = 0
    BY <1>4, <2>1 DEF Ticked
  <2>2. CASE n > 0
    <3>1. PICK r \in Seq(Nat) : r = Run(0, n - 1) /\ Len(r) = n - 1
      <4>1. n - 1 \in Nat
        BY <2>2
      <4> QED  BY <4>1, RunType DEF Value
    <3>2. Ticked(data, 0, n)[0] = Append(s \o r, 0)
      <4>1. n > 0 => \A i \in Parts :
               i >= 0 => Ticked(data, 0, n)[i] = Append(data[0] \o Run(0, n - 1), i)
        BY <1>1, TickedFields
      <4>2. PICK w : w = Append(data[0] \o Run(0, n - 1), 0)
        OBVIOUS
      <4>3. 0 >= 0
        OBVIOUS
      <4>4. Ticked(data, 0, n)[0] = w
        BY <1>1, <2>2, <4>1, <4>2, <4>3, Zenon
      <4>5. w = Append(s \o r, 0)
        BY <1>4, <3>1, <4>2, Zenon
      <4> QED  BY <4>4, <4>5
    <3>3. s \o r \in Seq(Nat) /\ Len(s \o r) = l + (n - 1)
      <4>1. s \o r \in Seq(Nat) /\ Len(s \o r) = Len(s) + Len(r)
        BY ConcatProperties, Zenon
      <4> QED  BY <1>4, <3>1, <4>1
    <3>4. Len(Append(s \o r, 0)) = Len(s \o r) + 1
      BY <3>3, AppendProperties
    <3> QED  BY <3>2, <3>3, <3>4
  <2> QED  BY <2>1, <2>2
<1>6. n = Upper(t, 0) - Upper(m.counter, 0) + Lap(m.counter, t)
  BY <1>2, StepsTop
<1> QED  BY <1>2, <1>3, <1>4, <1>5, <1>6

LEMMA SenderTop ==
    ASSUME NEW i \in Counter
    PROVE  Len(RatchetAt[i].data[0]) = 1 + Upper(i, 0)
<1>1. PICK m \in MegolmState : m = NewOutbound(Seeds) /\ m.counter = 0
  BY NewFacts
<1>2. Len(m.data[0]) = 1
  BY <1>1, SeedsFacts DEF NewOutbound, MegolmInit
<1>3. Upper(0, 0) = 0 /\ Lap(0, i) = 0 /\ Upper(i, 0) \in Nat
  <2>1. Upper(0, 0) \in Nat /\ Upper(0, 0) * Unit(0) <= 0 /\ Unit(0) \in Nat \ {0}
    BY UpperType, UnitFacts DEF Parts
  <2>2. PICK p \in Nat, u \in Nat \ {0} : p = Upper(0, 0) /\ u = Unit(0) /\ p * u <= 0
    BY <2>1
  <2>3. p = 0
    <3>1. p >= 1 => p * u >= 1 * u
      OBVIOUS
    <3> QED  BY <2>2, <3>1
  <2>4. i \in Nat
    BY UnitFacts
  <2>5. Upper(i, 0) \in Nat
    BY UpperBound
  <2> QED  BY <2>2, <2>3, <2>4, <2>5 DEF Lap
<1>4. Len(AdvanceTo(m, i).data[0]) = Len(m.data[0]) + (Upper(i, 0) - Upper(m.counter, 0)
                                                        + Lap(m.counter, i))
  BY TopLength
<1> QED  BY <1>1, <1>2, <1>3, <1>4, RatchetFacts

LEMMA PastFacts ==
    ASSUME NEW m \in MegolmState, NEW t \in Counter
    PROVE  /\ Len(m.data[0]) > 0 /\ t < m.counter => Past(AdvanceTo(m, t))
           /\ Past(m) /\ m.counter <= t => Past(AdvanceTo(m, t))
           /\ Past(m) => Len(m.data[0]) > 0 /\ m.data # RatchetAt[m.counter].data
<1>1. PICK c \in Counter : c = m.counter /\ c \in Nat /\ t \in Nat
  BY UnitFacts DEF MegolmState
<1>2. PICK after : after = AdvanceTo(m, t) /\ after.counter = t
  BY JumpArrives
<1>3. PICK p \in 0 .. Radix - 1, q \in 0 .. Radix - 1 : p = Upper(c, 0) /\ q = Upper(t, 0)
  BY UpperBound
<1>4. PICK l \in Nat : /\ l = Len(m.data[0])
                       /\ Len(after.data[0]) = l + (q - p + Lap(c, t))
  BY <1>1, <1>2, <1>3, TopLength
<1>5. Past(after) <=> l + (q - p + Lap(c, t)) > 1 + q
  BY <1>2, <1>3, <1>4 DEF Past
<1>6. Past(m) <=> l > 1 + p
  BY <1>1, <1>3, <1>4 DEF Past
<1>7. l > 0 /\ t < c => Past(after)
  <2>1. t < c => Lap(c, t) = Radix
    BY DEF Lap
  <2> QED  BY <1>5, <2>1, RadixAssumption
<1>8. Past(m) /\ c <= t => Past(after)
  <2>1. c <= t => Lap(c, t) = 0
    BY <1>1 DEF Lap
  <2> QED  BY <1>5, <1>6, <2>1
<1>9. Past(m) => m.data # RatchetAt[c].data
  BY <1>3, <1>4, <1>6, SenderTop
<1> QED  BY <1>1, <1>2, <1>4, <1>6, <1>7, <1>8, <1>9

-----------------------------------------------------------------------------
(* A session at an index *)

\* Joins, without the signing key.
Meets(s, i) ==
    i >= FirstKnownIndex(s) /\ AdvanceTo(s.initial_ratchet, i) = RatchetAt[i]

GotRatchet(s, i, megolm) ==
    /\ megolm.data \in Data /\ Len(megolm.data[0]) > 0
    /\ megolm.data = RatchetAt[i].data <=> Meets(s, i)

\* What the calls of a session leave as it is.
SameOrigin(s, after) ==
    /\ after.initial_ratchet = s.initial_ratchet
    /\ after.signing_key = s.signing_key

LEMMA SessionFacts ==
    ASSUME NEW s, SessionInv(s)
    PROVE  /\ FirstKnownIndex(s) \in Counter
           /\ FirstKnownIndex(s) = s.initial_ratchet.counter
           /\ \A i \in Index : FirstKnownIndex(s) \notin Index
                                  => i < FirstKnownIndex(s) /\ ~Meets(s, i)
<1>1. PICK a \in Counter : a = s.initial_ratchet.counter /\ a = FirstKnownIndex(s)
  BY DEF SessionInv, MegolmState, FirstKnownIndex
<1>2. a \in Nat
  BY UnitFacts
<1>3. ASSUME NEW i \in Index, a \notin Index
      PROVE  i < a /\ ~(i >= a)
  BY <1>2, <1>3, HalfRange
<1> QED  BY <1>1, <1>3 DEF Meets

LEMMA RatchetOnWay ==
    ASSUME NEW s, SessionInv(s), NEW i \in Index, i >= FirstKnownIndex(s)
    PROVE  GotRatchet(s, i, AdvanceTo(s.initial_ratchet, i))
<1>1. PICK initial \in MegolmState :
         initial = s.initial_ratchet /\ Len(initial.data[0]) > 0
  BY DEF SessionInv
<1>2. i \in Counter
  BY HalfRange
<1>3. PICK megolm \in MegolmState : megolm = AdvanceTo(initial, i) /\ megolm.counter = i
  BY <1>2, JumpArrives
<1>4. Len(megolm.data[0]) > 0
  <2>1. PICK p, q : p = Len(initial.data[0]) /\ q = Len(megolm.data[0])
    OBVIOUS
  <2>2. p \in Nat /\ q >= p
    BY <1>2, <1>3, <2>1, TopLength
  <2>3. q \in Nat
    <3>1. q \in Int
      BY <1>2, <1>3, <2>1, TopLength
    <3> QED  BY <2>2, <3>1
  <2> QED  BY <1>1, <2>1, <2>2, <2>3
<1>5. megolm.data = RatchetAt[i].data <=> megolm = RatchetAt[i]
  <2>1. PICK m \in MegolmState : m = RatchetAt[i] /\ m.counter = i
    BY <1>2, RatchetFacts
  <2> QED  BY <1>3, <2>1, StatesEqual
<1>6. megolm.data \in Data
  BY DEF MegolmState
<1> QED  BY <1>1, <1>3, <1>4, <1>5, <1>6 DEF GotRatchet, Meets

LEMMA RatchetPast ==
    ASSUME NEW s, SessionInv(s), NEW i \in Index, FirstKnownIndex(s) \notin Index,
           NEW megolm \in MegolmState, megolm.counter = i, Past(megolm)
    PROVE  GotRatchet(s, i, megolm)
<1>1. Len(megolm.data[0]) > 0 /\ megolm.data # RatchetAt[i].data
  <2>1. i \in Counter
    BY HalfRange
  <2> QED  BY <2>1, PastFacts
<1>2. ~Meets(s, i)
  BY SessionFacts
<1> QED  BY <1>1, <1>2 DEF GotRatchet, MegolmState

\* What a call of _get_megolm has done.
Got(s, i, got) ==
    /\ got.ok \in BOOLEAN
    /\ SessionInv(got.session) /\ SameOrigin(s, got.session)
    /\ got.session.signing_key_verified = s.signing_key_verified
    /\ FirstKnownIndex(s) \in Index => (got.ok <=> i >= FirstKnownIndex(s))
    /\ got.ok => GotRatchet(s, i, got.result)
    /\ ~got.ok => ~Meets(s, i)

LEMMA GotMoved ==
    ASSUME NEW s, SessionInv(s), NEW i \in Index, NEW megolm \in MegolmState,
           OnWay(s.initial_ratchet, megolm), GotRatchet(s, i, megolm),
           FirstKnownIndex(s) \in Index => i >= FirstKnownIndex(s)
    PROVE  Got(s, i, Succeed([s EXCEPT !.latest_ratchet = megolm], megolm))
<1>1. PICK after : after = [s EXCEPT !.latest_ratchet = megolm]
  OBVIOUS
<1>2. after = [initial_ratchet      |-> s.initial_ratchet,
               latest_ratchet       |-> megolm,
               signing_key          |-> s.signing_key,
               signing_key_verified |-> s.signing_key_verified]
  BY <1>1 DEF SessionInv
<1>3. SessionInv(after) /\ SameOrigin(s, after)
      /\ after.signing_key_verified = s.signing_key_verified
  BY <1>2 DEF SessionInv, SameOrigin
<1> QED  BY <1>1, <1>3 DEF Got, Succeed

LEMMA GotBefore ==
    ASSUME NEW s, SessionInv(s), NEW i \in Index, NEW megolm,
           GotRatchet(s, i, megolm), FirstKnownIndex(s) \in Index => i >= FirstKnownIndex(s)
    PROVE  Got(s, i, Succeed(s, megolm))
BY DEF Got, Succeed, SameOrigin, SessionInv

LEMMA GotNothing ==
    ASSUME NEW s, SessionInv(s), NEW i \in Index,
           FirstKnownIndex(s) \in Index => ~(i >= FirstKnownIndex(s))
    PROVE  Got(s, i, Fail(s, UNKNOWN_MESSAGE_INDEX))
<1>1. ~Meets(s, i)
  BY SessionFacts DEF Meets
<1> QED  BY <1>1 DEF Got, Fail, SameOrigin, SessionInv

LEMMA GotMegolm ==
    ASSUME NEW s, SessionInv(s), NEW i \in Index
    PROVE  Got(s, i, GetMegolm(s, i))
<1>1. PICK initial \in MegolmState, latest \in MegolmState, a \in Counter, b \in Counter :
         /\ initial = s.initial_ratchet /\ latest = s.latest_ratchet
         /\ a = initial.counter /\ b = latest.counter /\ FirstKnownIndex(s) = a
         /\ Len(initial.data[0]) > 0 /\ OnWay(initial, latest)
  BY DEF SessionInv, MegolmState, FirstKnownIndex
<1>2. a \in Nat /\ b \in Nat /\ i \in Nat /\ i \in Counter
  BY UnitFacts, HalfRange
<1>3. PICK megolm \in MegolmState : megolm = AdvanceTo(latest, i) /\ megolm.counter = i
  BY <1>2, JumpArrives
<1>4. PICK copy \in MegolmState : copy = AdvanceTo(initial, i) /\ copy.counter = i
  BY <1>2, JumpArrives
<1>5. GetMegolm(s, i) =
         IF AtOrAfter(i, b) THEN Succeed([s EXCEPT !.latest_ratchet = megolm], megolm)
         ELSE IF ~AtOrAfter(i, a) THEN Fail(s, UNKNOWN_MESSAGE_INDEX)
         ELSE Succeed(s, copy)
  BY <1>1, <1>3, <1>4 DEF GetMegolm
<1>6. CASE a \in Index
  <2>1. b \in Index /\ a <= b /\ latest = AdvanceTo(initial, b)
    BY <1>1, <1>6 DEF OnWay
  <2>2. (AtOrAfter(i, b) <=> i >= b) /\ (AtOrAfter(i, a) <=> i >= a)
    BY <1>6, <2>1, Ordering
  <2>3. CASE i >= b
    <3>1. i >= a
      BY <1>2, <2>1, <2>3
    <3>2. megolm = copy
      <4>1. Ordered(a, b, i)
        BY <1>2, <2>1, <2>3 DEF Ordered
      <4>2. AdvanceTo(AdvanceTo(initial, b), i) = AdvanceTo(initial, i)
        BY <1>1, <1>2, <4>1, JumpTwice
      <4> QED  BY <1>3, <1>4, <2>1, <4>2
    <3>3. GotRatchet(s, i, megolm)
      BY <1>1, <1>4, <3>1, <3>2, RatchetOnWay
    <3>4. OnWay(initial, megolm)
      BY <1>1, <1>2, <1>3, <1>4, <1>6, <3>1, <3>2 DEF OnWay
    <3>5. Got(s, i, Succeed([s EXCEPT !.latest_ratchet = megolm], megolm))
      BY <1>1, <3>1, <3>3, <3>4, GotMoved
    <3> QED  BY <1>5, <2>2, <2>3, <3>5
  <2>4. CASE ~(i >= b) /\ i >= a
    <3>1. GotRatchet(s, i, copy)
      BY <1>1, <1>4, <2>4, RatchetOnWay
    <3>2. Got(s, i, Succeed(s, copy))
      BY <1>1, <2>4, <3>1, GotBefore
    <3> QED  BY <1>5, <2>2, <2>4, <3>2
  <2>5. CASE ~(i >= b) /\ ~(i >= a)
    <3>1. Got(s, i, Fail(s, UNKNOWN_MESSAGE_INDEX))
      BY <1>1, <2>5, GotNothing
    <3> QED  BY <1>5, <2>2, <2>5, <3>1
  <2> QED  BY <2>3, <2>4, <2>5
<1>7. CASE a \notin Index
  <2>1. i < a
    BY <1>1, <1>7, SessionFacts
  <2>2. latest = initial \/ (b \in Index /\ Past(latest))
    BY <1>1, <1>7 DEF OnWay
  <2>3. Past(copy)
    BY <1>1, <1>2, <1>4, <2>1, PastFacts
  <2>4. CASE AtOrAfter(i, b)
    <3>1. Past(megolm)
      <4>1. CASE latest = initial
        BY <1>3, <1>4, <2>3, <4>1
      <4>2. CASE b \in Index /\ Past(latest)
        <5>1. b <= i
          BY <1>2, <2>4, <4>2, Ordering
        <5> QED  BY <1>1, <1>2, <1>3, <4>2, <5>1, PastFacts
      <4> QED  BY <2>2, <4>1, <4>2
    <3>2. GotRatchet(s, i, megolm)
      BY <1>1, <1>3, <1>7, <3>1, RatchetPast
    <3>3. OnWay(initial, megolm)
      BY <1>1, <1>3, <1>7, <3>1 DEF OnWay
    <3>4. Got(s, i, Succeed([s EXCEPT !.latest_ratchet = megolm], megolm))
      BY <1>1, <1>7, <3>2, <3>3, GotMoved
    <3> QED  BY <1>5, <2>4, <3>4
  <2>5. CASE ~AtOrAfter(i, b) /\ AtOrAfter(i, a)
    <3>1. GotRatchet(s, i, copy)
      BY <1>1, <1>4, <1>7, <2>3, RatchetPast
    <3>2. Got(s, i, Succeed(s, copy))
      BY <1>1, <1>7, <3>1, GotBefore
    <3> QED  BY <1>5, <2>5, <3>2
  <2>6. CASE ~AtOrAfter(i, b) /\ ~AtOrAfter(i, a)
    <3>1. Got(s, i, Fail(s, UNKNOWN_MESSAGE_INDEX))
      BY <1>1, <1>7, GotNothing
    <3> QED  BY <1>5, <2>6, <3>1
  <2> QED  BY <2>4, <2>5, <2>6
<1> QED  BY <1>6, <1>7

-----------------------------------------------------------------------------
(* The calls of a reader *)

\* Once the ratchets have met they stay together.
LEMMA JoinsUp ==
    ASSUME NEW s, SessionInv(s), NEW i \in Index, NEW j \in Index, i <= j, Joins(s, i)
    PROVE  Joins(s, j)
<1>1. PICK initial \in MegolmState, a \in Counter :
         initial = s.initial_ratchet /\ a = initial.counter /\ a = FirstKnownIndex(s)
  BY DEF SessionInv, MegolmState, FirstKnownIndex
<1>2. /\ a \in Nat /\ i \in Nat /\ j \in Nat /\ i \in Counter /\ j \in Counter
      /\ a <= i /\ a <= j
  <2>1. a \in Nat /\ i \in Nat /\ j \in Nat /\ i \in Counter /\ j \in Counter
    BY UnitFacts, HalfRange
  <2> QED  BY <1>1, <2>1 DEF Joins
<1>3. AdvanceTo(AdvanceTo(initial, i), j) = AdvanceTo(initial, j)
  <2>1. Ordered(a, i, j)
    BY <1>2 DEF Ordered
  <2> QED  BY <1>1, <1>2, <2>1, JumpTwice
<1>4. AdvanceTo(RatchetAt[i], j) = RatchetAt[j]
  BY <1>2, RatchetOn
<1>5. AdvanceTo(initial, i) = RatchetAt[i] /\ s.signing_key = SigningKey
  BY <1>1 DEF Joins
<1> QED  BY <1>1, <1>2, <1>3, <1>4, <1>5 DEF Joins

LEMMA JoinsMeets ==
    ASSUME NEW s, NEW i
    PROVE  Joins(s, i) <=> s.signing_key = SigningKey /\ Meets(s, i)
BY DEF Joins, Meets

LEMMA JoinsSame ==
    ASSUME NEW s, NEW after, SameOrigin(s, after), NEW i
    PROVE  /\ Joins(after, i) <=> Joins(s, i)
           /\ FirstKnownIndex(after) = FirstKnownIndex(s)
BY DEF Joins, SameOrigin, FirstKnownIndex

\* A message on its way: as it was written, or damaged and signed by nobody.
Arrived(m) ==
    /\ m.index \in Index /\ m.signed_by \in {SigningKey, NoKey}
    /\ m.sealed_with = RatchetAt[m.index].data

Decrypted(s, m, result) ==
    /\ result.ok \in BOOLEAN
    /\ result.ok <=> m.signed_by = SigningKey /\ JoinsIndex(s, m.index)
    /\ result.ok => result.result = m.plaintext
    /\ SessionInv(result.session) /\ SameOrigin(s, result.session)
    /\ result.session.signing_key_verified => s.signing_key_verified \/ result.ok

LEMMA DecryptFacts ==
    ASSUME NEW s, SessionInv(s), NEW m, Arrived(m)
    PROVE  Decrypted(s, m, GroupDecrypt(s, m))
<1>1. PICK i \in Index : i = m.index
  BY DEF Arrived
<1>2. PICK got : got = GetMegolm(s, i)
  OBVIOUS
<1>3. Got(s, i, got)
  BY <1>2, GotMegolm
<1>4. s.signing_key # NoKey
  BY DEF SessionInv
<1>5. CASE m.signed_by # s.signing_key
  <2>1. GroupDecrypt(s, m) = [session |-> s, ok |-> FALSE, last_error |-> BAD_SIGNATURE]
    BY <1>5 DEF GroupDecrypt, Fail
  <2>2. ~(m.signed_by = SigningKey /\ JoinsIndex(s, m.index))
    BY <1>5 DEF JoinsIndex, Joins
  <2> QED  BY <2>1, <2>2 DEF Decrypted, SameOrigin
<1>6. CASE m.signed_by = s.signing_key
  <2>1. m.signed_by = SigningKey /\ s.signing_key = SigningKey
    BY <1>4, <1>6 DEF Arrived
  <2>2. JoinsIndex(s, i) <=> Meets(s, i)
    BY <2>1 DEF JoinsIndex, Joins, Meets
  <2>3. CASE ~got.ok
    <3>1. GroupDecrypt(s, m) = got
      BY <1>1, <1>2, <1>6, <2>3 DEF GroupDecrypt
    <3>2. ~Meets(s, i)
      BY <1>3, <2>3 DEF Got
    <3> QED  BY <1>1, <1>3, <2>2, <2>3, <3>1, <3>2 DEF Decrypted, Got
  <2>4. CASE got.ok /\ got.result.data # m.sealed_with
    <3>1. GroupDecrypt(s, m) = [session |-> got.session, ok |-> FALSE,
                                last_error |-> BAD_MESSAGE_MAC]
      BY <1>1, <1>2, <1>6, <2>4 DEF GroupDecrypt, Fail
    <3>2. ~Meets(s, i)
      BY <1>1, <1>3, <2>4 DEF Got, GotRatchet, Arrived
    <3> QED  BY <1>1, <1>3, <2>2, <3>1, <3>2 DEF Decrypted, Got
  <2>5. CASE got.ok /\ got.result.data = m.sealed_with
    <3>1. PICK after : after = [got.session EXCEPT !.signing_key_verified = TRUE]
      OBVIOUS
    <3>2. GroupDecrypt(s, m) = [session |-> after, ok |-> TRUE, last_error |-> SUCCESS,
                                result |-> m.plaintext]
      BY <1>1, <1>2, <1>6, <2>5, <3>1 DEF GroupDecrypt, Succeed
    <3>3. Meets(s, i)
      BY <1>1, <1>3, <2>5 DEF Got, GotRatchet, Arrived
    <3>4. after = [initial_ratchet      |-> got.session.initial_ratchet,
                   latest_ratchet       |-> got.session.latest_ratchet,
                   signing_key          |-> got.session.signing_key,
                   signing_key_verified |-> TRUE]
      BY <1>3, <3>1 DEF Got, SessionInv
    <3>5. SessionInv(after) /\ SameOrigin(s, after)
      BY <1>3, <3>4 DEF Got, SessionInv, SameOrigin
    <3> QED  BY <1>1, <2>1, <2>2, <3>2, <3>3, <3>5 DEF Decrypted
  <2> QED  BY <2>3, <2>4, <2>5
<1> QED  BY <1>5, <1>6

Exported(s, i, result) ==
    /\ result.ok \in BOOLEAN
    /\ SessionInv(result.session) /\ SameOrigin(s, result.session)
    /\ result.session.signing_key_verified = s.signing_key_verified
    /\ FirstKnownIndex(s) \in Index => (result.ok <=> i >= FirstKnownIndex(s))
    /\ result.ok => /\ KeyInv(result.result)
                    /\ OfSender(result.result, i) <=> Joins(s, i)

LEMMA ExportFacts ==
    ASSUME NEW s, SessionInv(s), NEW i \in Index
    PROVE  Exported(s, i, Export(s, i))
<1>1. PICK got : got = GetMegolm(s, i)
  OBVIOUS
<1>2. Got(s, i, got)
  BY <1>1, GotMegolm
<1>3. CASE ~got.ok
  <2>1. Export(s, i) = got
    BY <1>1, <1>3 DEF Export
  <2> QED  BY <1>2, <1>3, <2>1 DEF Got, Exported
<1>4. CASE got.ok
  <2>1. PICK key : key = [version     |-> SESSION_EXPORT_VERSION,
                          counter     |-> i,
                          data        |-> got.result.data,
                          signing_key |-> s.signing_key,
                          signed      |-> FALSE]
    OBVIOUS
  <2>2. Export(s, i) = [session |-> got.session, ok |-> TRUE, last_error |-> SUCCESS,
                        result |-> key]
    BY <1>1, <1>4, <2>1 DEF Export, Succeed
  <2>3. GotRatchet(s, i, got.result)
    BY <1>2, <1>4 DEF Got
  <2>4. KeyInv(key)
    <3>1. i \in Counter /\ s.signing_key # NoKey
      BY HalfRange DEF SessionInv
    <3> QED  BY <2>1, <2>3, <3>1 DEF KeyInv, GotRatchet
  <2>5. OfSender(key, i) <=> Joins(s, i)
    BY <2>1, <2>3, JoinsMeets DEF OfSender, GotRatchet
  <2> QED  BY <1>2, <1>4, <2>2, <2>4, <2>5 DEF Got, Exported
<1> QED  BY <1>3, <1>4

Created(result, seen) ==
    /\ result.ok \in BOOLEAN
    /\ IF result.ok THEN ReaderInv(result.session, seen)
                    ELSE result.session.signing_key_verified = FALSE

LEMMA CreateFacts ==
    ASSUME NEW s, s.signing_key_verified = FALSE, NEW key, KeyInv(key), NEW version, NEW seen
    PROVE  Created(InitGroupSessionKeys(s, key, version), seen)
<1>0. PICK result : result = InitGroupSessionKeys(s, key, version)
  OBVIOUS
<1>1. CASE key.version # version
  <2>1. result = [session |-> s, ok |-> FALSE, last_error |-> BAD_SESSION_KEY]
    BY <1>0, <1>1 DEF InitGroupSessionKeys, Fail
  <2> QED  BY <1>0, <2>1 DEF Created
<1>2. PICK m : m = [counter |-> key.counter, data |-> key.data]
  OBVIOUS
<1>3. PICK v \in BOOLEAN : v = (key.version = SESSION_KEY_VERSION)
  OBVIOUS
<1>4. KeysTaken(s, key) = [initial_ratchet |-> m, latest_ratchet |-> m,
                           signing_key |-> key.signing_key, signing_key_verified |-> v]
  BY <1>2, <1>3 DEF KeysTaken, MegolmInit
<1>5. CASE key.version = version /\ version = SESSION_KEY_VERSION /\ ~key.signed
  <2>1. result = [session |-> [KeysTaken(s, key) EXCEPT
                                  !.signing_key_verified = s.signing_key_verified],
                  ok |-> FALSE, last_error |-> BAD_SIGNATURE]
    BY <1>0, <1>5 DEF InitGroupSessionKeys, Fail
  <2> QED  BY <1>0, <1>4, <2>1 DEF Created
<1>6. CASE key.version = version /\ ~(version = SESSION_KEY_VERSION /\ ~key.signed)
  <2>1. PICK taken : taken = KeysTaken(s, key)
    OBVIOUS
  <2>2. result = [session |-> taken, ok |-> TRUE, last_error |-> SUCCESS, result |-> 0]
    BY <1>0, <1>6, <2>1 DEF InitGroupSessionKeys, Succeed
  <2>3. /\ taken = [initial_ratchet |-> m, latest_ratchet |-> m,
                    signing_key |-> key.signing_key, signing_key_verified |-> v]
        /\ FirstKnownIndex(taken) = key.counter
    BY <1>2, <1>4, <2>1 DEF FirstKnownIndex
  <2>4. /\ m \in MegolmState /\ m.counter = key.counter /\ m.data = key.data
        /\ Len(m.data[0]) > 0
    BY <1>2 DEF KeyInv, MegolmState
  <2>5. m = AdvanceTo(m, m.counter)
    BY <2>4, JumpNowhere
  <2>6. OnWay(m, m)
    <3>1. m.counter \in Nat
      BY <2>4, UnitFacts DEF KeyInv
    <3> QED  BY <2>5, <3>1 DEF OnWay
  <2>7. SessionInv(taken)
    BY <2>3, <2>4, <2>6 DEF SessionInv, KeyInv
  <2>8. v => JoinsIndex(taken, FirstKnownIndex(taken))
    <3> SUFFICES ASSUME v PROVE JoinsIndex(taken, FirstKnownIndex(taken))
      OBVIOUS
    <3>1. PICK i \in Index : /\ i = key.counter /\ key.data = RatchetAt[i].data
                             /\ key.signing_key = SigningKey
      BY <1>3, <1>6 DEF KeyInv, OfSender
    <3>2. m = RatchetAt[i]
      <4>1. PICK n \in MegolmState : n = RatchetAt[i] /\ n.counter = i
        BY HalfRange, RatchetFacts
      <4> QED  BY <2>4, <3>1, <4>1, StatesEqual
    <3>3. i >= i
      BY HalfRange
    <3> QED  BY <2>3, <2>4, <2>5, <3>1, <3>2, <3>3 DEF JoinsIndex, Joins
  <2>9. Evidence(taken, seen)
    BY <2>3, <2>8 DEF Evidence
  <2> QED  BY <1>0, <2>2, <2>7, <2>9 DEF Created, ReaderInv
<1> QED  BY <1>1, <1>5, <1>6

LEMMA DamagedKey ==
    ASSUME NEW key, KeyInv(key), NEW damage \in Damages
    PROVE  KeyInv(Damaged(key, damage))
<1>1. damage.shift \in Counter
  OBVIOUS
<1>2. (key.counter + damage.shift) % Period \in Counter
  <2>1. PICK c \in Nat, n \in Nat \ {0} : c = key.counter + damage.shift /\ n = Period
    BY <1>1, UnitFacts DEF KeyInv
  <2>2. c % n \in 0 .. n - 1
    BY DivisionWhole
  <2> QED  BY <2>1, <2>2 DEF Counter
<1>3. ASSUME NEW i \in Parts
      PROVE  /\ key.data[i] \in Value /\ Append(key.data[i], 4) \in Value
             /\ Len(Append(key.data[i], 4)) > 0
  <2>1. PICK s \in Seq(Nat) : s = key.data[i]
    BY DEF KeyInv, Data, Value
  <2>2. /\ Append(s, 4) \in Seq(Nat) /\ Len(Append(s, 4)) = Len(s) + 1 /\ Len(s) \in Nat
    BY AppendProperties, LenProperties
  <2> QED  BY <2>1, <2>2 DEF Value
<1>4. PICK data : data = [i \in Parts |-> IF i \in damage.parts THEN Append(key.data[i], 4)
                                                                ELSE key.data[i]]
  OBVIOUS
<1>5. data \in Data
  BY <1>3, <1>4 DEF Data
<1>6. Len(data[0]) > 0
  <2>1. 0 \in Parts /\ Len(key.data[0]) > 0
    BY DEF Parts, KeyInv
  <2> QED  BY <1>3, <1>4, <2>1
<1>7. PICK k : k = Damaged(key, damage)
  OBVIOUS
<1>8. k = [version |-> key.version, counter |-> (key.counter + damage.shift) % Period,
           data |-> data,
           signing_key |-> IF damage.other_key THEN OtherKey ELSE key.signing_key,
           signed |-> FALSE]
  BY <1>4, <1>7 DEF Damaged
<1>9. k.signing_key # NoKey
  BY <1>8 DEF KeyInv, OtherKey, NoKey
<1> QED  BY <1>2, <1>5, <1>6, <1>7, <1>8, <1>9 DEF KeyInv

-----------------------------------------------------------------------------
(* ChatInv is inductive *)

LEMMA EvidenceKept ==
    ASSUME NEW s, NEW seen, Evidence(s, seen), NEW after, SameOrigin(s, after),
           NEW later, seen \subseteq later,
           after.signing_key_verified =>
               s.signing_key_verified \/ \E e \in later : JoinsIndex(s, e.index)
    PROVE  Evidence(after, later)
<1>1. \A i : JoinsIndex(after, i) <=> JoinsIndex(s, i)
  BY JoinsSame DEF JoinsIndex
<1>2. FirstKnownIndex(after) = FirstKnownIndex(s)
  BY JoinsSame
<1> QED  BY <1>1, <1>2 DEF Evidence

LEMMA ChatInit == Init => ChatInv
<1> SUFFICES ASSUME Init PROVE ChatInv
  OBVIOUS
<1>1. 0 \in Nat /\ 0 \in 0..0 /\ 0 \in Index
  BY HalfRange
<1>2. outbound = RatchetAt[0] /\ saved_outbound = RatchetAt[0] /\ outbound.counter = 0
  BY RatchetFacts, NewFacts DEF Init
<1>3. SenderInv
  BY <1>1, <1>2 DEF Init, SenderInv
<1>4. Cleared.signing_key_verified = FALSE
  BY DEF Cleared
<1>5. ReadersInv
  BY <1>4 DEF Init, ReadersInv
<1> QED  BY <1>3, <1>5 DEF Init, ChatInv

\* A step of one reader changes its own session, and the others' not.
LEMMA ReaderStep ==
    ASSUME ReadersInv, NEW r \in Readers, NEW session, NEW isReady \in BOOLEAN, NEW seen,
           inbound' = [inbound EXCEPT ![r] = session],
           ready' = [ready EXCEPT ![r] = isReady],
           DOMAIN opened' = Readers,
           \A q \in Readers : opened'[q] = IF q = r THEN seen ELSE opened[q],
           opened[r] \subseteq seen,
           IF isReady THEN ReaderInv(session, seen) ELSE session.signing_key_verified = FALSE,
           UNCHANGED saved_inbound
    PROVE  ReadersInv'
<1>1. /\ DOMAIN inbound' = Readers /\ DOMAIN saved_inbound' = Readers
      /\ ready' \in [Readers -> BOOLEAN]
  BY DEF ReadersInv
<1>2. ASSUME NEW q \in Readers
      PROVE  /\ IF ready'[q] THEN ReaderInv(inbound'[q], opened'[q])
                             ELSE inbound'[q].signing_key_verified = FALSE
             /\ saved_inbound'[q] # Cleared => ReaderInv(saved_inbound'[q], opened'[q])
  <2>1. CASE q = r
    <3>1. inbound'[q] = session /\ ready'[q] = isReady /\ opened'[q] = seen
      BY <2>1 DEF ReadersInv
    <3>2. ASSUME saved_inbound[q] # Cleared
          PROVE  ReaderInv(saved_inbound[q], seen)
      <4>1. PICK k : k = saved_inbound[q] /\ ReaderInv(k, opened[q])
        BY <3>2 DEF ReadersInv
      <4>2. SameOrigin(k, k)
        BY DEF SameOrigin
      <4>3. Evidence(k, seen)
        BY <2>1, <4>1, <4>2, EvidenceKept DEF ReaderInv
      <4> QED  BY <4>1, <4>3 DEF ReaderInv
    <3> QED  BY <3>1, <3>2
  <2>2. CASE q # r
    <3>1. inbound'[q] = inbound[q] /\ ready'[q] = ready[q] /\ opened'[q] = opened[q]
      BY <2>2 DEF ReadersInv
    <3> QED  BY <3>1 DEF ReadersInv
  <2> QED  BY <2>1, <2>2
<1> QED  BY <1>1, <1>2 DEF ReadersInv

LEMMA WriteStep ==
    ASSUME ChatInv, Write
    PROVE  ChatInv'
<1>1. PICK n \in Index : n = outbound.counter /\ n \in Nat /\ n <= written
  BY HalfRange DEF ChatInv, SenderInv, Index
<1>2. written \in Index /\ written \in Nat /\ written < MaxMessages /\ written + 1 \in Index
  BY HalfRange DEF ChatInv, SenderInv, Write, Index
<1>3. n < MaxMessages
  BY <1>1, <1>2, HalfRange
<1>4. /\ outbound = RatchetAt[n] /\ outbound' = RatchetAt[n + 1]
      /\ outbound'.counter = n + 1 /\ n + 1 \in Index
  <2>1. n + 1 \in Index /\ Advance(RatchetAt[n]) = RatchetAt[n + 1] /\ n + 1 \in Counter
    BY <1>3, RatchetNext, HalfRange
  <2>2. outbound = RatchetAt[n]
    BY <1>1 DEF ChatInv, SenderInv
  <2> QED  BY <2>1, <2>2, RatchetFacts DEF Write, AfterGroupEncrypt
<1>5. PICK m : m = GroupMessage(outbound, written)
  OBVIOUS
<1>6. m.index = n /\ MessageInv(m) /\ outbox' = outbox \union {m}
  <2>1. m = [index |-> n, sealed_with |-> RatchetAt[n].data, plaintext |-> written,
             signed_by |-> SigningKey]
    BY <1>1, <1>4, <1>5 DEF GroupMessage
  <2>2. written \in 0 .. MaxMessages - 1
    BY <1>2, HalfRange
  <2> QED  BY <1>5, <2>1, <2>2 DEF MessageInv, Write
<1>7. PICK k \in Nat : k = saved_outbound.counter /\ k <= n /\ saved_outbound' = saved_outbound
  BY <1>1 DEF ChatInv, SenderInv, Write
<1>8. \A x \in sent \union outbox : x.index \in Nat /\ x.index < n
  <2>1. \A x \in sent : x.index \in Nat /\ x.index < n
    <3>1. \A x \in sent : x.index \in Index /\ x.index < k
      BY <1>7 DEF ChatInv, SenderInv, MessageInv
    <3>2. \A x \in sent : x.index \in Nat /\ x.index < k
      BY <3>1, HalfRange
    <3> QED  BY <1>1, <1>7, <3>2
  <2>2. \A x \in outbox : x.index \in Nat /\ x.index < n
    BY <1>1, HalfRange DEF ChatInv, SenderInv, MessageInv
  <2> QED  BY <2>1, <2>2
<1>9. SenderInv'
  <2>1. sent' = sent /\ written' = written + 1
    BY DEF Write
  <2>2. \A x \in sent : MessageInv(x) /\ x.index < k
    BY <1>7 DEF ChatInv, SenderInv
  <2>3. \A x \in outbox' : MessageInv(x) /\ x.index >= k /\ x.index < n + 1
    <3>1. \A x \in outbox : MessageInv(x) /\ x.index >= k /\ x.index < n
      BY <1>1, <1>7 DEF ChatInv, SenderInv
    <3> QED  BY <1>1, <1>6, <1>7, <1>8, <3>1
  <2>4. \A x, y \in sent' \union outbox' : x.index = y.index => x = y
    <3>1. \A x, y \in sent \union outbox : x.index = y.index => x = y
      BY DEF ChatInv, SenderInv
    <3> QED  BY <1>6, <1>8, <2>1, <3>1
  <2>5. outbound'.counter \in 0..written'
    <3>1. n + 1 \in 0 .. written + 1
      BY <1>1, <1>2
    <3> QED  BY <1>4, <2>1, <3>1
  <2>6. saved_outbound'.counter \in Nat /\ saved_outbound'.counter <= outbound'.counter
    <3>1. saved_outbound'.counter = k /\ outbound'.counter = n + 1
      BY <1>4, <1>7
    <3>2. k <= n + 1
      BY <1>1, <1>7
    <3> QED  BY <3>1, <3>2
  <2>7. saved_outbound' = RatchetAt[saved_outbound'.counter]
    BY <1>7 DEF ChatInv, SenderInv
  <2> QED  BY <1>2, <1>4, <1>7, <2>1, <2>2, <2>3, <2>4, <2>5, <2>6, <2>7
           DEF SenderInv
<1> QED  BY <1>9 DEF ChatInv, Write, ReadersInv, reader

LEMMA SaveAndSendStep ==
    ASSUME ChatInv, SaveAndSend
    PROVE  ChatInv'
<1>1. PICK n \in Nat, k \in Nat :
         n = outbound.counter /\ k = saved_outbound.counter /\ k <= n
  BY HalfRange DEF ChatInv, SenderInv
<1>2. SenderInv'
  <2>1. /\ sent' = sent \union outbox /\ outbox' = {} /\ saved_outbound' = outbound
        /\ outbound' = outbound /\ written' = written
    BY DEF SaveAndSend
  <2>2. \A m \in sent : MessageInv(m) /\ m.index \in Nat /\ m.index < k
    BY <1>1, HalfRange DEF ChatInv, SenderInv, MessageInv
  <2>3. \A m \in sent : MessageInv(m) /\ m.index < n
    BY <1>1, <2>2
  <2>4. \A m \in outbox : MessageInv(m) /\ m.index < n
    BY <1>1 DEF ChatInv, SenderInv
  <2>5. \A m, x \in sent \union outbox : m.index = x.index => m = x
    BY DEF ChatInv, SenderInv
  <2>6. outbound = RatchetAt[n] /\ n \in 0..written /\ written \in Index
    BY <1>1 DEF ChatInv, SenderInv
  <2> QED  BY <1>1, <2>1, <2>3, <2>4, <2>5, <2>6 DEF SenderInv
<1> QED  BY <1>2 DEF ChatInv, SaveAndSend, ReadersInv, reader

LEMMA RestartSenderStep ==
    ASSUME ChatInv, RestartSender
    PROVE  ChatInv'
<1>1. PICK n \in Nat, k \in Nat :
         n = outbound.counter /\ k = saved_outbound.counter /\ k <= n /\ n \in 0..written
  BY DEF ChatInv, SenderInv
<1>2. SenderInv'
  <2>1. /\ sent' = sent /\ outbox' = {} /\ saved_outbound' = saved_outbound
        /\ outbound' = saved_outbound /\ written' = written
    BY DEF RestartSender
  <2>2. \A m \in sent : MessageInv(m) /\ m.index < k
    BY <1>1 DEF ChatInv, SenderInv
  <2>3. \A m, x \in sent : m.index = x.index => m = x
    BY DEF ChatInv, SenderInv
  <2>4. saved_outbound = RatchetAt[k] /\ written \in Index /\ written \in Nat
    BY <1>1, HalfRange DEF ChatInv, SenderInv
  <2>5. k \in 0..written
    BY <1>1, <2>4
  <2> QED  BY <1>1, <2>1, <2>2, <2>3, <2>4, <2>5 DEF SenderInv
<1> QED  BY <1>2 DEF ChatInv, RestartSender, ReadersInv, reader

LEMMA ShareStep ==
    ASSUME ChatInv, Share
    PROVE  ChatInv'
<1>1. PICK n \in Index : n = outbound.counter /\ outbound = RatchetAt[n]
  <2>1. outbound.counter \in 0..written /\ written \in Index
    BY DEF ChatInv, SenderInv
  <2>2. outbound.counter \in Index
    BY <2>1 DEF Index
  <2> QED  BY <2>2 DEF ChatInv, SenderInv
<1>2. PICK key : key = SessionKey(outbound)
  OBVIOUS
<1>3. KeyInv(key)
  <2>1. key = [version |-> SESSION_KEY_VERSION, counter |-> n,
               data |-> RatchetAt[n].data, signing_key |-> SigningKey, signed |-> TRUE]
    BY <1>1, <1>2 DEF SessionKey
  <2>2. n \in Counter /\ RatchetAt[n].data \in Data
    BY RatchetFacts, HalfRange DEF MegolmState
  <2>3. Len(RatchetAt[n].data[0]) > 0
    BY <2>2, SenderTop, UpperBound
  <2>4. SigningKey # NoKey
    BY DEF SigningKey, NoKey
  <2> QED  BY <2>1, <2>2, <2>3, <2>4 DEF KeyInv, OfSender
<1>4. keys' = keys \union {key} /\ UNCHANGED <<sender, reader>>
  BY <1>2 DEF Share, NewKey
<1>5. \A k \in keys' : KeyInv(k)
  BY <1>3, <1>4 DEF ChatInv
<1> QED  BY <1>4, <1>5 DEF ChatInv, SenderInv, ReadersInv, sender, reader

\* The other actions leave the sender alone.
LEMMA SenderKept == ASSUME SenderInv, UNCHANGED sender PROVE SenderInv'
BY DEF SenderInv, sender

LEMMA CreateStep ==
    ASSUME ChatInv, NEW r \in Readers, Create(r)
    PROVE  ChatInv'
<1>1. PICK key \in Arriving, version \in {SESSION_KEY_VERSION, SESSION_EXPORT_VERSION} :
         LET result == InitGroupSessionKeys(inbound[r], key, version)
         IN  /\ inbound' = [inbound EXCEPT ![r] = result.session]
             /\ ready' = [ready EXCEPT ![r] = result.ok]
  BY DEF Create
<1>2. KeyInv(key)
  <2>1. \A k \in keys : KeyInv(k)
    BY DEF ChatInv
  <2> QED  BY <2>1, DamagedKey DEF Arriving
<1>3. PICK result : result = InitGroupSessionKeys(inbound[r], key, version)
  OBVIOUS
<1>4. inbound[r].signing_key_verified = FALSE
  BY DEF Create, ChatInv, ReadersInv
<1>5. Created(result, opened[r])
  BY <1>2, <1>3, <1>4, CreateFacts
<1>6. /\ inbound' = [inbound EXCEPT ![r] = result.session]
      /\ ready' = [ready EXCEPT ![r] = result.ok]
  BY <1>1, <1>3
<1>7. UNCHANGED <<sender, keys, saved_inbound, opened>> /\ DOMAIN opened' = Readers
  BY DEF Create, ChatInv, ReadersInv
<1>8. ReadersInv'
  <2>0. PICK isReady \in BOOLEAN : isReady = result.ok
    BY <1>5 DEF Created
  <2>1. PICK session, seen : session = result.session /\ seen = opened[r]
    OBVIOUS
  <2>2. /\ opened[r] \subseteq seen
        /\ \A q \in Readers : opened'[q] = IF q = r THEN seen ELSE opened[q]
    BY <1>7, <2>1
  <2>3. IF isReady THEN ReaderInv(session, seen) ELSE session.signing_key_verified = FALSE
    BY <1>5, <2>0, <2>1 DEF Created
  <2> QED  BY <1>6, <1>7, <2>0, <2>1, <2>2, <2>3, ReaderStep DEF ChatInv
<1> QED  BY <1>7, <1>8, SenderKept DEF ChatInv

LEMMA MessageArrives ==
    ASSUME NEW m, MessageInv(m), NEW message,
           message = m \/ message = [m EXCEPT !.signed_by = NoKey]
    PROVE  /\ message.index = m.index /\ message.plaintext = m.plaintext
           /\ Arrived(message)
<1>1. CASE message = m
  <2>1. message.signed_by = SigningKey
    BY <1>1 DEF MessageInv
  <2> QED  BY <1>1, <2>1 DEF MessageInv, Arrived
<1>2. CASE message = [m EXCEPT !.signed_by = NoKey]
  <2>1. message = [index     |-> m.index,     sealed_with |-> m.sealed_with,
                   plaintext |-> m.plaintext, signed_by   |-> NoKey]
    BY <1>2 DEF MessageInv
  <2> QED  BY <2>1 DEF MessageInv, Arrived
<1> QED  BY <1>1, <1>2

\* The session s of the reader took the message, which came from m, with this
\* result, and this is what became of the sessions and of what was opened.
Received(r, m, s, result, message) ==
    /\ s = inbound[r] /\ ReaderInv(s, opened[r]) /\ MessageInv(m)
    /\ message.index = m.index /\ message.plaintext = m.plaintext
    /\ Decrypted(s, message, result)
    /\ inbound' = [inbound EXCEPT ![r] = result.session]
    /\ opened' = IF result.ok THEN [opened EXCEPT ![r] = opened[r] \union {Seen(m)}]
                              ELSE opened
    /\ ready[r] /\ UNCHANGED <<sender, keys, ready, saved_inbound>>

\* What a message that arrives does to the session, and to what was opened.
LEMMA ReceiveFacts ==
    ASSUME ChatInv, NEW r \in Readers, ReceiveAny(r)
    PROVE  \E m \in sent : \E s, result, message : Received(r, m, s, result, message)
<1>1. PICK m \in sent, damaged \in BOOLEAN :
         Receive(r, IF damaged THEN [m EXCEPT !.signed_by = NoKey] ELSE m)
  BY DEF ReceiveAny
<1>2. PICK message : message = IF damaged THEN [m EXCEPT !.signed_by = NoKey] ELSE m
  OBVIOUS
<1>3. PICK s, result : s = inbound[r] /\ result = GroupDecrypt(s, message)
  OBVIOUS
<1>4. /\ inbound' = [inbound EXCEPT ![r] = result.session]
      /\ opened' = IF result.ok
                   THEN [opened EXCEPT ![r] = opened[r] \union
                            {[index |-> message.index, plaintext |-> result.result]}]
                   ELSE opened
      /\ UNCHANGED <<sender, keys, ready, saved_inbound>>
      /\ ready[r]
  BY <1>1, <1>2, <1>3 DEF Receive
<1>5. ReaderInv(s, opened[r]) /\ MessageInv(m)
  BY <1>3, <1>4 DEF ChatInv, ReadersInv, SenderInv
<1>6. /\ message.index = m.index /\ message.plaintext = m.plaintext
      /\ Arrived(message)
  <2>1. message = m \/ message = [m EXCEPT !.signed_by = NoKey]
    BY <1>2
  <2> QED  BY <1>5, <2>1, MessageArrives
<1>7. Decrypted(s, message, result)
  BY <1>3, <1>5, <1>6, DecryptFacts DEF ReaderInv
<1>8. result.ok => [index |-> message.index, plaintext |-> result.result] = Seen(m)
  BY <1>6, <1>7 DEF Decrypted, Seen
<1>9. Received(r, m, s, result, message)
  BY <1>3, <1>4, <1>5, <1>6, <1>7, <1>8 DEF Received
<1> QED  BY <1>9

LEMMA ReceiveStep ==
    ASSUME ChatInv, NEW r \in Readers, ReceiveAny(r)
    PROVE  ChatInv'
<1>0. PICK m \in sent : \E s, result, message : Received(r, m, s, result, message)
  BY ReceiveFacts
<1>1. PICK s, result, message :
         /\ s = inbound[r] /\ ReaderInv(s, opened[r]) /\ MessageInv(m)
         /\ message.index = m.index /\ message.plaintext = m.plaintext
         /\ Decrypted(s, message, result)
         /\ inbound' = [inbound EXCEPT ![r] = result.session]
         /\ opened' = IF result.ok THEN [opened EXCEPT ![r] = opened[r] \union {Seen(m)}]
                                   ELSE opened
         /\ ready[r] /\ UNCHANGED <<sender, keys, ready, saved_inbound>>
  BY <1>0 DEF Received
<1>2. PICK seen : seen = IF result.ok THEN opened[r] \union {Seen(m)} ELSE opened[r]
  OBVIOUS
<1>3. /\ DOMAIN opened' = Readers /\ opened[r] \subseteq seen
      /\ \A q \in Readers : opened'[q] = IF q = r THEN seen ELSE opened[q]
  BY <1>1, <1>2 DEF ChatInv, ReadersInv
<1>4. ready' = [ready EXCEPT ![r] = TRUE]
  BY <1>1 DEF ChatInv, ReadersInv
<1>5. result.ok => \E e \in seen : JoinsIndex(s, e.index)
  <2> SUFFICES ASSUME result.ok PROVE \E e \in seen : JoinsIndex(s, e.index)
    OBVIOUS
  <2>1. JoinsIndex(s, m.index)
    BY <1>1 DEF Decrypted
  <2>2. Seen(m) \in seen
    BY <1>2
  <2>3. Seen(m).index = m.index
    BY DEF Seen
  <2> QED  BY <2>1, <2>2, <2>3
<1>6. ReaderInv(result.session, seen)
  <2>1. Evidence(s, opened[r]) /\ SessionInv(result.session) /\ SameOrigin(s, result.session)
    BY <1>1 DEF ReaderInv, Decrypted
  <2>2. result.session.signing_key_verified =>
            s.signing_key_verified \/ \E e \in seen : JoinsIndex(s, e.index)
    BY <1>1, <1>5 DEF Decrypted
  <2>3. Evidence(result.session, seen)
    BY <1>3, <2>1, <2>2, EvidenceKept
  <2> QED  BY <2>1, <2>3 DEF ReaderInv
<1>7. ReadersInv'
  <2>1. PICK session : session = result.session /\ ReaderInv(session, seen)
    BY <1>6
  <2>2. inbound' = [inbound EXCEPT ![r] = session] /\ UNCHANGED saved_inbound
    BY <1>1, <2>1
  <2> QED  BY <1>3, <1>4, <2>1, <2>2, ReaderStep DEF ChatInv
<1> QED  BY <1>1, <1>7, SenderKept DEF ChatInv

LEMMA ExportStep ==
    ASSUME ChatInv, NEW r \in Readers, ExportKey(r)
    PROVE  ChatInv'
<1>1. PICK index \in 0..MaxMessages :
         LET result == Export(inbound[r], index)
         IN  /\ inbound' = [inbound EXCEPT ![r] = result.session]
             /\ IF result.ok THEN NewKey(result.result) ELSE UNCHANGED keys
  BY DEF ExportKey
<1>2. PICK s, result : s = inbound[r] /\ result = Export(s, index)
  OBVIOUS
<1>3. /\ ready[r] /\ UNCHANGED <<sender, ready, saved_inbound, opened>>
      /\ inbound' = [inbound EXCEPT ![r] = result.session]
      /\ IF result.ok THEN keys' = keys \union {result.result} ELSE keys' = keys
  BY <1>1, <1>2 DEF ExportKey, NewKey
<1>4. ReaderInv(s, opened[r]) /\ Exported(s, index, result)
  <2>1. ReaderInv(s, opened[r]) /\ index \in Index
    BY <1>2, <1>3 DEF ChatInv, ReadersInv, Index
  <2> QED  BY <1>2, <2>1, ExportFacts DEF ReaderInv
<1>5. ready' = [ready EXCEPT ![r] = TRUE] /\ DOMAIN opened' = Readers
  BY <1>3 DEF ChatInv, ReadersInv
<1>6. ReaderInv(result.session, opened[r])
  <2>1. /\ Evidence(s, opened[r]) /\ SameOrigin(s, result.session)
        /\ result.session.signing_key_verified = s.signing_key_verified
    BY <1>4 DEF ReaderInv, Exported
  <2>2. Evidence(result.session, opened[r])
    BY <2>1, EvidenceKept
  <2> QED  BY <1>4, <2>2 DEF ReaderInv, Exported
<1>7. ReadersInv'
  BY <1>3, <1>5, <1>6, ReaderStep DEF ChatInv
<1>8. \A key \in keys' : KeyInv(key)
  BY <1>3, <1>4 DEF ChatInv, Exported
<1> QED  BY <1>3, <1>7, <1>8, SenderKept DEF ChatInv

LEMMA SaveReaderStep ==
    ASSUME ChatInv, NEW r \in Readers, SaveReader(r)
    PROVE  ChatInv'
<1>1. /\ saved_inbound' = [saved_inbound EXCEPT ![r] = inbound[r]]
      /\ UNCHANGED <<sender, keys, inbound, ready, opened>>
      /\ ReaderInv(inbound[r], opened[r])
  BY DEF SaveReader, ChatInv, ReadersInv
<1>2. \A q \in Readers :
         saved_inbound'[q] # Cleared => ReaderInv(saved_inbound'[q], opened'[q])
  BY <1>1 DEF ChatInv, ReadersInv
<1>3. ReadersInv'
  <2>1. DOMAIN saved_inbound' = Readers
    BY <1>1 DEF ChatInv, ReadersInv
  <2> QED  BY <1>1, <1>2, <2>1 DEF ChatInv, ReadersInv
<1> QED  BY <1>1, <1>3, SenderKept DEF ChatInv

LEMMA RestartReaderStep ==
    ASSUME ChatInv, NEW r \in Readers, RestartReader(r)
    PROVE  ChatInv'
<1>1. PICK isReady \in BOOLEAN : isReady = (saved_inbound[r] # Cleared)
  OBVIOUS
<1>2. /\ inbound' = [inbound EXCEPT ![r] = saved_inbound[r]]
      /\ ready' = [ready EXCEPT ![r] = isReady]
      /\ UNCHANGED <<sender, keys, saved_inbound, opened>>
  BY <1>1 DEF RestartReader
<1>3. IF isReady THEN ReaderInv(saved_inbound[r], opened[r])
                 ELSE saved_inbound[r].signing_key_verified = FALSE
  <2>1. Cleared.signing_key_verified = FALSE
    BY DEF Cleared
  <2> QED  BY <1>1, <2>1 DEF ChatInv, ReadersInv
<1>4. ReadersInv'
  <2>1. DOMAIN opened' = Readers
    BY <1>2 DEF ChatInv, ReadersInv
  <2> QED  BY <1>2, <1>3, <2>1, ReaderStep DEF ChatInv
<1> QED  BY <1>2, <1>4, SenderKept DEF ChatInv

LEMMA ChatNext == ChatInv /\ [Next]_vars => ChatInv'
<1> SUFFICES ASSUME ChatInv, [Next]_vars PROVE ChatInv'
  OBVIOUS
<1>1. CASE UNCHANGED vars
  BY <1>1 DEF vars, ChatInv, SenderInv, ReadersInv
<1>2. CASE Write            BY <1>2, WriteStep
<1>3. CASE SaveAndSend      BY <1>3, SaveAndSendStep
<1>4. CASE RestartSender    BY <1>4, RestartSenderStep
<1>5. CASE Share            BY <1>5, ShareStep
<1>6. ASSUME NEW r \in Readers,
             Create(r) \/ ReceiveAny(r) \/ ExportKey(r) \/ SaveReader(r) \/ RestartReader(r)
      PROVE  ChatInv'
  BY <1>6, CreateStep, ReceiveStep, ExportStep, SaveReaderStep, RestartReaderStep
<1> QED  BY <1>1, <1>2, <1>3, <1>4, <1>5, <1>6 DEF Next

\* The types and the facts the properties follow from hold in every reachable state.
THEOREM ChatInvariance == Spec => []ChatInv
BY ChatInit, ChatNext, PTL DEF Spec

-----------------------------------------------------------------------------
(* The properties of a conversation *)

LEMMA KnownFacts ==
    ASSUME NEW r, ready[r], NEW i
    PROVE  /\ i \in Known(r) <=> JoinsIndex(inbound[r], i)
           /\ Genuine(r) <=> JoinsIndex(inbound[r], FirstKnownIndex(inbound[r]))
BY DEF Known, Genuine, JoinsIndex, Index

LEMMA GenuineFacts ==
    ASSUME NEW s, SessionInv(s), JoinsIndex(s, FirstKnownIndex(s)), NEW i \in Index
    PROVE  JoinsIndex(s, i) <=> i >= FirstKnownIndex(s)
<1>1. PICK first \in Index : first = FirstKnownIndex(s) /\ Joins(s, first)
  BY DEF JoinsIndex
<1>2. i >= first => Joins(s, i)
  <2>1. i >= first => first <= i
    BY HalfRange
  <2> QED  BY <1>1, <2>1, JoinsUp
<1>3. Joins(s, i) => i >= first
  BY <1>1 DEF Joins
<1> QED  BY <1>1, <1>2, <1>3 DEF JoinsIndex

\* A reader opens exactly the messages where its initial ratchet has met the sender's,
\* and with an undamaged one all from its first known index on, whatever it did before.
THEOREM ReadersReadHistory == Spec => []HistoryReadable
<1>1. ChatInv => HistoryReadable
  <2> SUFFICES ASSUME ChatInv, NEW r \in Readers, ready[r], NEW m \in sent
               PROVE  /\ GroupDecrypt(inbound[r], m).ok <=> m.index \in Known(r)
                      /\ Genuine(r) => (GroupDecrypt(inbound[r], m).ok
                                            <=> m.index >= FirstKnownIndex(inbound[r]))
    BY DEF HistoryReadable
  <2>1. PICK s : s = inbound[r] /\ SessionInv(s)
    BY DEF ChatInv, ReadersInv, ReaderInv
  <2>2. Arrived(m) /\ m.signed_by = SigningKey /\ m.index \in Index
    <3>1. MessageInv(m)
      BY DEF ChatInv, SenderInv
    <3>2. m.signed_by = SigningKey
      BY <3>1 DEF MessageInv
    <3> QED  BY <3>1, <3>2 DEF MessageInv, Arrived
  <2>3. GroupDecrypt(s, m).ok <=> JoinsIndex(s, m.index)
    BY <2>1, <2>2, DecryptFacts DEF Decrypted
  <2>4. Genuine(r) => (JoinsIndex(s, m.index) <=> m.index >= FirstKnownIndex(s))
    BY <2>1, <2>2, KnownFacts, GenuineFacts
  <2> QED  BY <2>1, <2>3, <2>4, KnownFacts
<1> QED  BY <1>1, ChatInvariance, PTL

\* A reader hands on the ratchet and the key of the sender exactly where it has them,
\* and with an undamaged session at every index from its first known one on.
THEOREM ReadersExportHistory == Spec => []HistoryExportable
<1>1. ChatInv => HistoryExportable
  <2> SUFFICES ASSUME ChatInv, NEW r \in Readers, ready[r], NEW i \in 0..MaxMessages
               PROVE  LET result == Export(inbound[r], i)
                      IN  /\ result.ok => (OfSender(result.result, i) <=> i \in Known(r))
                          /\ Genuine(r) => (result.ok <=> i >= FirstKnownIndex(inbound[r]))
    BY DEF HistoryExportable
  <2>1. PICK s : s = inbound[r] /\ SessionInv(s)
    BY DEF ChatInv, ReadersInv, ReaderInv
  <2>2. i \in Index
    BY DEF Index
  <2>3. PICK result : result = Export(s, i) /\ Exported(s, i, result)
    BY <2>1, <2>2, ExportFacts
  <2>4. result.ok => (OfSender(result.result, i) <=> JoinsIndex(s, i))
    BY <2>2, <2>3 DEF Exported, JoinsIndex
  <2>5. Genuine(r) => (result.ok <=> i >= FirstKnownIndex(s))
    <3>1. Genuine(r) => FirstKnownIndex(s) \in Index
      BY <2>1, KnownFacts DEF JoinsIndex
    <3> QED  BY <2>3, <3>1 DEF Exported
  <2> QED  BY <2>1, <2>3, <2>4, <2>5, KnownFacts
<1> QED  BY <1>1, ChatInvariance, PTL

\* A session that says it is verified was given what the sender had, or has opened a
\* message with it.
THEOREM VerifiedMeansEvidence == Spec => []VerifiedOnEvidence
<1>1. ChatInv => VerifiedOnEvidence
  <2> SUFFICES ASSUME ChatInv, NEW r \in Readers, ready[r], inbound[r].signing_key_verified
               PROVE  Genuine(r) \/ \E e \in opened[r] : e.index \in Known(r)
    BY DEF VerifiedOnEvidence
  <2>1. /\ JoinsIndex(inbound[r], FirstKnownIndex(inbound[r]))
           \/ \E e \in opened[r] : JoinsIndex(inbound[r], e.index)
    BY DEF ChatInv, ReadersInv, ReaderInv, Evidence
  <2> QED  BY <2>1, KnownFacts
<1> QED  BY <1>1, ChatInvariance, PTL

-----------------------------------------------------------------------------
(* The conversation implements GroupHistory *)

KnownBy   == [r \in Readers |-> Known(r)]
SeenByAll == { Seen(m) : m \in sent }

\* Who knows an index knows the later ones.
LEMMA KnownUp ==
    ASSUME ChatInv, NEW r \in Readers
    PROVE  /\ Known(r) \subseteq Index
           /\ \A i \in Known(r), j \in Index : j >= i => j \in Known(r)
<1>1. Known(r) \subseteq Index
  BY DEF Known, Index
<1>2. ASSUME NEW i \in Known(r), NEW j \in Index, j >= i
      PROVE  j \in Known(r)
  <2>1. ready[r] /\ SessionInv(inbound[r])
    BY <1>2 DEF Known, ChatInv, ReadersInv, ReaderInv
  <2>2. i \in Index /\ Joins(inbound[r], i) /\ i <= j
    <3>1. i \in Nat /\ j \in Nat
      BY <1>1, HalfRange
    <3> QED  BY <1>1, <1>2, <2>1, <3>1, KnownFacts DEF JoinsIndex
  <2> QED  BY <2>1, <2>2, JoinsUp, KnownFacts DEF JoinsIndex
<1> QED  BY <1>1, <1>2

LEMMA KnownUpNext ==
    ChatInv' => (\A r \in Readers :
                    /\ Known(r) \subseteq Index
                    /\ \A i \in Known(r), j \in Index : j >= i => j \in Known(r))'
<1>1. ChatInv => \A r \in Readers :
                    /\ Known(r) \subseteq Index
                    /\ \A i \in Known(r), j \in Index : j >= i => j \in Known(r)
  BY KnownUp
<1> QED  BY <1>1, PTL

\* What a reader can open depends on what its session was made of.
LEMMA KnownSame ==
    ASSUME ready' = ready,
           \A q \in Readers : ready[q] => SameOrigin(inbound[q], inbound'[q])
    PROVE  KnownBy' = KnownBy
<1>1. ASSUME NEW q \in Readers
      PROVE  Known(q)' = Known(q)
  <2>1. CASE ready[q]
    <3>1. \A i : Joins(inbound'[q], i) <=> Joins(inbound[q], i)
      BY <2>1, JoinsSame
    <3> QED  BY <3>1 DEF Known
  <2>2. CASE ~ready[q]
    BY <2>2 DEF Known
  <2> QED  BY <2>1, <2>2
<1> QED  BY <1>1 DEF KnownBy

LEMMA KnownLearned ==
    ASSUME NEW r \in Readers, ChatInv, ChatInv',
           \A q \in Readers : q # r => ready'[q] = ready[q] /\ inbound'[q] = inbound[q],
           UNCHANGED <<sent, opened>>
    PROVE  History!Next
<1>1. PICK indices : indices = KnownBy'[r]
  OBVIOUS
<1>2. /\ indices \subseteq Index
      /\ \A i \in indices, j \in Index : j >= i => j \in indices
  BY <1>1, KnownUpNext DEF KnownBy
<1>3. KnownBy' = [KnownBy EXCEPT ![r] = indices]
  <2>1. \A q \in Readers : q # r => Known(q)' = Known(q)
    BY DEF Known
  <2> QED  BY <1>1, <2>1 DEF KnownBy
<1>4. History!Learn(r, indices)
  BY <1>2, <1>3 DEF History!Learn, KnownBy, Index
<1> QED  BY <1>1, <1>4 DEF History!Next, KnownBy

LEMMA HistoryInit == Init => History!Init
BY DEF Init, History!Init, Known

LEMMA HistoryNext ==
    ChatInv /\ ChatInv' /\ [Next]_vars => [History!Next]_<<SeenByAll, KnownBy, opened>>
<1> SUFFICES ASSUME ChatInv, ChatInv', [Next]_vars
             PROVE  History!Next \/ UNCHANGED <<SeenByAll, KnownBy, opened>>
  OBVIOUS
<1>0. (sent' = sent => SeenByAll' = SeenByAll)
      /\ (ready' = ready /\ inbound' = inbound => KnownBy' = KnownBy)
  <2>1. \A q \in Readers : SameOrigin(inbound[q], inbound[q])
    BY DEF SameOrigin
  <2> QED  BY <2>1, KnownSame DEF SeenByAll
<1>1. CASE UNCHANGED vars
  BY <1>0, <1>1 DEF vars
<1>2. CASE Write \/ RestartSender \/ Share
  BY <1>0, <1>2 DEF Write, RestartSender, Share, sender, reader
<1>3. CASE SaveAndSend
  <2>1. sent' = sent \union outbox /\ KnownBy' = KnownBy /\ opened' = opened
    BY <1>0, <1>3 DEF SaveAndSend, reader
  <2>2. \A m \in sent' : m.index \in Index /\ m.plaintext \in 0 .. MaxMessages - 1
    BY <2>1 DEF ChatInv, SenderInv, MessageInv
  <2>3. \A m, n \in sent' : m.index = n.index => m = n
    BY <2>1 DEF ChatInv, SenderInv
  <2>4. SeenByAll \subseteq SeenByAll'
    BY <2>1 DEF SeenByAll
  <2>5. SeenByAll' \subseteq History!Message
    BY <2>2 DEF SeenByAll, Seen, History!Message, Index
  <2>6. \A x, y \in SeenByAll' : x.index = y.index => x = y
    BY <2>3 DEF SeenByAll, Seen
  <2>7. History!Send
    BY <2>1, <2>4, <2>5, <2>6 DEF History!Send, SeenByAll, KnownBy
  <2> QED  BY <2>7 DEF History!Next
<1>4. ASSUME NEW r \in Readers, Create(r)
      PROVE  History!Next
  <2>1. PICK k, ok : inbound' = [inbound EXCEPT ![r] = k] /\ ready' = [ready EXCEPT ![r] = ok]
    BY <1>4 DEF Create
  <2>2. \A q \in Readers : q # r => ready'[q] = ready[q] /\ inbound'[q] = inbound[q]
    BY <2>1 DEF ChatInv, ReadersInv
  <2>3. UNCHANGED <<sent, opened>>
    BY <1>4 DEF Create, sender
  <2> QED  BY <2>2, <2>3, KnownLearned
<1>5. ASSUME NEW r \in Readers, ReceiveAny(r)
      PROVE  History!Next \/ UNCHANGED <<SeenByAll, KnownBy, opened>>
  <2>0. PICK m \in sent : \E s, result, message : Received(r, m, s, result, message)
    BY <1>5, ReceiveFacts
  <2>1. PICK s, result, message :
           /\ s = inbound[r] /\ ReaderInv(s, opened[r]) /\ MessageInv(m)
           /\ message.index = m.index /\ message.plaintext = m.plaintext
           /\ Decrypted(s, message, result)
           /\ inbound' = [inbound EXCEPT ![r] = result.session]
           /\ opened' = IF result.ok THEN [opened EXCEPT ![r] = opened[r] \union {Seen(m)}]
                                     ELSE opened
           /\ ready[r] /\ UNCHANGED <<sender, keys, ready, saved_inbound>>
    BY <2>0 DEF Received
  <2>2. KnownBy' = KnownBy /\ SeenByAll' = SeenByAll
    <3>1. ASSUME NEW q \in Readers PROVE SameOrigin(inbound[q], inbound'[q])
      <4>1. inbound'[q] = inbound[q] \/ (q = r /\ inbound'[q] = result.session)
        BY <2>1 DEF ChatInv, ReadersInv
      <4> QED  BY <2>1, <4>1 DEF Decrypted, SameOrigin
    <3>2. ready' = ready /\ sent' = sent
      BY <2>1 DEF sender
    <3> QED  BY <1>0, <3>1, <3>2, KnownSame
  <2>3. CASE ~result.ok
    BY <2>1, <2>2, <2>3
  <2>4. CASE result.ok
    <3>1. PICK e : e = Seen(m) /\ e \in SeenByAll /\ e.index = m.index
      <4>1. Seen(m) \in SeenByAll
        BY DEF SeenByAll
      <4>2. Seen(m).index = m.index
        BY DEF Seen
      <4> QED  BY <4>1, <4>2
    <3>2. e.index \in KnownBy[r]
      BY <2>1, <2>4, <3>1, KnownFacts DEF Decrypted, KnownBy
    <3>3. opened' = [opened EXCEPT ![r] = opened[r] \union {e}]
      BY <2>1, <2>4, <3>1
    <3>4. History!Open(r, e)
      BY <2>2, <3>1, <3>2, <3>3 DEF History!Open, KnownBy, SeenByAll
    <3> QED  BY <3>1, <3>4 DEF History!Next, SeenByAll
  <2> QED  BY <2>3, <2>4
<1>6. ASSUME NEW r \in Readers, ExportKey(r)
      PROVE  UNCHANGED <<SeenByAll, KnownBy, opened>>
  <2>1. PICK index \in 0..MaxMessages :
           inbound' = [inbound EXCEPT ![r] = Export(inbound[r], index).session]
    BY <1>6 DEF ExportKey
  <2>2. /\ ready[r] /\ ready' = ready /\ sent' = sent /\ opened' = opened
    BY <1>6 DEF ExportKey, sender
  <2>3. SameOrigin(inbound[r], Export(inbound[r], index).session)
    <3>1. SessionInv(inbound[r]) /\ index \in Index
      BY <2>2 DEF ChatInv, ReadersInv, ReaderInv, Index
    <3> QED  BY <3>1, ExportFacts DEF Exported
  <2>4. \A q \in Readers : SameOrigin(inbound[q], inbound'[q])
    <3>1. \A q \in Readers : inbound'[q] = inbound[q]
                             \/ (q = r /\ inbound'[q] = Export(inbound[r], index).session)
      BY <2>1 DEF ChatInv, ReadersInv
    <3> QED  BY <2>3, <3>1 DEF SameOrigin
  <2> QED  BY <1>0, <2>2, <2>4, KnownSame
<1>7. ASSUME NEW r \in Readers, SaveReader(r)
      PROVE  UNCHANGED <<SeenByAll, KnownBy, opened>>
  BY <1>0, <1>7 DEF SaveReader, sender
<1>8. ASSUME NEW r \in Readers, RestartReader(r)
      PROVE  History!Next
  <2>1. PICK k, ok : inbound' = [inbound EXCEPT ![r] = k] /\ ready' = [ready EXCEPT ![r] = ok]
    BY <1>8 DEF RestartReader
  <2>2. \A q \in Readers : q # r => ready'[q] = ready[q] /\ inbound'[q] = inbound[q]
    BY <2>1 DEF ChatInv, ReadersInv
  <2>3. UNCHANGED <<sent, opened>>
    BY <1>8 DEF RestartReader, sender
  <2> QED  BY <2>2, <2>3, KnownLearned
<1> QED  BY <1>1, <1>2, <1>3, <1>4, <1>5, <1>6, <1>7, <1>8 DEF Next

\* Through every crash, replay and damage, every message has an index of its own, and
\* a reader opens, as it was written, only what it has the sender's ratchet and key for;
\* who has them at an index has them at all later ones.
THEOREM ImplementsHistory == Spec => HistorySpec
<1> USE DEF HistorySpec
<1> QED  BY HistoryInit, HistoryNext, ChatInvariance, PTL
         DEF Spec, History!Spec, History!vars, SeenByAll, KnownBy
==============================================================================

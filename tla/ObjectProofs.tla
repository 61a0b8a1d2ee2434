---------------------------- MODULE ObjectProofs ----------------------------
(***************************************************************************)
(* Lemmas about one object.  What the operations of OlmList return, element*)
(* by element; what those of an Account do to its one-time keys; and of a  *)
(* Ratchet the types of what encrypting, decrypting and pickling make of   *)
(* it, why a key that opened a message is gone, and why one that did not   *)
(* is kept as long as the lists allow.                                     *)
(***************************************************************************)
EXTENDS Ratchet, Account, SequenceTheorems, FiniteSetTheorems, WellFoundedInduction, TLAPS

USE AccountLimit

-----------------------------------------------------------------------------
(* Lists *)

\* A list cut to its capacity is a prefix of what it was.
LEMMA TruncateElements ==
    ASSUME NEW S, NEW list \in Seq(S), NEW max_size \in Nat
    PROVE  /\ Truncate(list, max_size) \in Seq(S)
           /\ Len(Truncate(list, max_size)) <= max_size
           /\ Len(Truncate(list, max_size)) <= Len(list)
           /\ \A i \in 1..Len(Truncate(list, max_size)) :
                 Truncate(list, max_size)[i] = list[i]
<1>1. CASE Len(list) > max_size
  <2>1. \A i \in 1..max_size : list[i] \in S
    BY <1>1, ElementOfSeq, LenProperties
  <2>2. /\ SubSeq(list, 1, max_size) \in Seq(S)
        /\ Len(SubSeq(list, 1, max_size)) = max_size
        /\ \A i \in 1..max_size : SubSeq(list, 1, max_size)[i] = list[i]
    BY <2>1, SubSeqProperties, Z3
  <2> QED  BY <1>1, <2>2, LenProperties DEF Truncate
<1>2. CASE ~(Len(list) > max_size)
  BY <1>2, LenProperties DEF Truncate
<1> QED  BY <1>1, <1>2

\* Erasing moves the later elements down by one and keeps the others.
LEMMA EraseElements ==
    ASSUME NEW S, NEW list \in Seq(S), NEW pos \in 1..Len(list)
    PROVE  /\ Erase(list, pos) \in Seq(S)
           /\ Len(Erase(list, pos)) = Len(list) - 1
           /\ \A i \in 1..Len(Erase(list, pos)) :
                 Erase(list, pos)[i] = IF i < pos THEN list[i] ELSE list[i + 1]
<1> DEFINE front == SubSeq(list, 1, pos - 1)
           back  == SubSeq(list, pos + 1, Len(list))
<1>0. /\ Len(list) \in Nat
      /\ \A i \in 1..Len(list) : list[i] \in S
  BY ElementOfSeq, LenProperties
<1>1. /\ front \in Seq(S)
      /\ Len(front) = pos - 1
      /\ \A i \in 1..pos - 1 : front[i] = list[i]
  <2>1. \A i \in 1..pos - 1 : list[i] \in S
    BY <1>0
  <2> QED  BY <1>0, <2>1, SubSeqProperties
<1>2. /\ back \in Seq(S)
      /\ Len(back) = Len(list) - pos
      /\ \A i \in 1..Len(list) - pos : back[i] = list[pos + i]
  <2>1. \A i \in pos + 1..Len(list) : list[i] \in S
    BY <1>0
  <2>2. \A i \in 1..Len(list) - (pos + 1) + 1 : back[i] = list[(pos + 1) + i - 1]
    BY <1>0, <2>1, SubSeqProperties
  <2>3. back \in Seq(S) /\ Len(back) = Len(list) - pos
    BY <1>0, <2>1, SubSeqProperties
  <2>4. ASSUME NEW i \in 1..Len(list) - pos
        PROVE  back[i] = list[pos + i]
    <3>1. i \in 1..Len(list) - (pos + 1) + 1
      BY <1>0
    <3>2. back[i] = list[(pos + 1) + i - 1]
      BY <2>2, <3>1
    <3>3. (pos + 1) + i - 1 = pos + i
      BY <1>0
    <3> QED  BY <3>2, <3>3
  <2> QED  BY <2>3, <2>4
<1> HIDE DEF front, back
<1>3. /\ front \o back \in Seq(S)
      /\ Len(front \o back) = Len(front) + Len(back)
      /\ \A i \in 1..Len(front) + Len(back) :
            (front \o back)[i] = IF i <= Len(front) THEN front[i] ELSE back[i - Len(front)]
  BY <1>1, <1>2, ConcatProperties
<1>3a. Len(front) + Len(back) = Len(list) - 1 /\ pos \in Int /\ pos >= 1
  BY <1>0, <1>1, <1>2
<1>4. ASSUME NEW i \in 1..Len(list) - 1
      PROVE  (front \o back)[i] = IF i < pos THEN list[i] ELSE list[i + 1]
  <2>0. (front \o back)[i] = IF i <= Len(front) THEN front[i] ELSE back[i - Len(front)]
    BY <1>3, <1>3a
  <2>1. CASE i < pos
    BY <1>0, <1>1, <2>0, <2>1
  <2>2. CASE i >= pos
    <3> DEFINE k == i - Len(front)
    <3>1. ~(i <= Len(front))
      BY <1>0, <1>1, <1>3a, <2>2
    <3>2. k \in 1..Len(list) - pos /\ pos + k = i + 1
      BY <1>0, <1>1, <1>3a, <2>2
    <3>3. back[k] = list[i + 1]
      BY <1>2, <3>2
    <3> QED  BY <1>0, <1>3a, <2>0, <2>2, <3>1, <3>3
  <2> QED  BY <1>0, <1>3a, <2>1, <2>2
<1>5. Erase(list, pos) = front \o back
  BY DEF Erase, front, back
<1> QED  BY <1>3, <1>3a, <1>4, <1>5

\* An element put in front moves the others up by one; the last ones may fall off.
LEMMA InsertFrontElements ==
    ASSUME NEW S, NEW list \in Seq(S), NEW value \in S, NEW max_size \in Nat \ {0}
    PROVE  /\ InsertFront(list, value, max_size) \in Seq(S)
           /\ Len(InsertFront(list, value, max_size)) \in 1..max_size
           /\ Len(InsertFront(list, value, max_size)) <= Len(list) + 1
           /\ InsertFront(list, value, max_size)[1] = value
           /\ \A i \in 2..Len(InsertFront(list, value, max_size)) :
                 InsertFront(list, value, max_size)[i] = list[i - 1]
<1> DEFINE whole == <<value>> \o list
           new   == InsertFront(list, value, max_size)
<1>0. Len(list) \in Nat
  BY LenProperties
<1>1. <<value>> \in Seq(S) /\ Len(<<value>>) = 1 /\ <<value>>[1] = value
  OBVIOUS
<1>2. /\ whole \in Seq(S)
      /\ Len(whole) = Len(list) + 1
      /\ \A i \in 1..Len(list) + 1 :
            whole[i] = IF i <= 1 THEN <<value>>[i] ELSE list[i - 1]
  BY <1>0, <1>1, ConcatProperties, Z3
<1>3. new = Truncate(whole, max_size)
  BY DEF InsertFront
<1> HIDE DEF whole, new
<1>4. /\ new \in Seq(S)
      /\ Len(new) <= max_size
      /\ Len(new) <= Len(whole)
      /\ \A i \in 1..Len(new) : new[i] = whole[i]
  BY <1>2, <1>3, TruncateElements
<1>5. Len(new) \in Nat /\ Len(new) >= 1
  <2>1. CASE Len(whole) > max_size
    <3>1. \A i \in 1..max_size : whole[i] \in S
      BY <1>2, <2>1, ElementOfSeq, LenProperties
    <3>2. Len(SubSeq(whole, 1, max_size)) = max_size
      BY <3>1, SubSeqProperties, Z3
    <3> QED  BY <1>3, <2>1, <3>2 DEF Truncate
  <2>2. CASE ~(Len(whole) > max_size)
    BY <1>0, <1>2, <1>3, <2>2 DEF Truncate
  <2> QED  BY <2>1, <2>2
<1>6. /\ new[1] = value
      /\ \A i \in 2..Len(new) : new[i] = list[i - 1]
  BY <1>0, <1>1, <1>2, <1>4, <1>5
<1> QED  BY <1>0, <1>2, <1>4, <1>5, <1>6 DEF new

\* A cut list is as long as fits.
LEMMA TruncateLength ==
    ASSUME NEW S, NEW list \in Seq(S), NEW max_size \in Nat
    PROVE  Len(Truncate(list, max_size)) = IF Len(list) > max_size THEN max_size ELSE Len(list)
<1>1. CASE Len(list) > max_size
  <2>1. \A i \in 1..max_size : list[i] \in S
    BY <1>1, ElementOfSeq, LenProperties
  <2>2. Len(SubSeq(list, 1, max_size)) = max_size
    BY <2>1, SubSeqProperties, Z3
  <2> QED  BY <1>1, <2>2 DEF Truncate
<1>2. CASE ~(Len(list) > max_size)
  BY <1>2 DEF Truncate
<1> QED  BY <1>1, <1>2

\* A list grows by one until it is full.
LEMMA InsertFrontLength ==
    ASSUME NEW S, NEW list \in Seq(S), NEW value \in S, NEW max_size \in Nat
    PROVE  Len(InsertFront(list, value, max_size)) =
               IF Len(list) >= max_size THEN max_size ELSE Len(list) + 1
<1>1. Len(list) \in Nat
  BY LenProperties
<1>2. <<value>> \o list \in Seq(S) /\ Len(<<value>> \o list) = Len(list) + 1
  BY <1>1, ConcatProperties, Z3
<1>3. Len(InsertFront(list, value, max_size)) =
          IF Len(list) + 1 > max_size THEN max_size ELSE Len(list) + 1
  BY <1>2, TruncateLength DEF InsertFront
<1> QED  BY <1>1, <1>3

\* A list that fits is read back as it was stored.
LEMMA UnpickleFits ==
    ASSUME NEW list, NEW max_size, Len(list) <= max_size
    PROVE  UnpickleList(list, max_size) = list
BY DEF UnpickleList

\* A nonempty set of numbers has a least element, which a search reaches first.
LEMMA LeastIn ==
    ASSUME NEW T \in SUBSET Nat, T # {}
    PROVE  \E x \in T : \A y \in T : x <= y
<1> DEFINE Below(x) == 1..x
           Down     == { Below(x) : x \in T }
<1>1. Down \subseteq FiniteSubsetsOf(Nat)
  BY FS_Interval DEF FiniteSubsetsOf
<1>2. Down # {}
  OBVIOUS
<1>3. PICK D \in Down : \A E \in Down : ~(<<E, D>> \in StrictSubsetOrdering(Nat))
  BY <1>1, <1>2, FS_StrictSubsetOrderingWellFounded, WFMin
<1>4. PICK x \in T : D = Below(x)
  OBVIOUS
<1>5. ASSUME NEW y \in T, y < x
      PROVE  FALSE
  <2>1. Below(y) \in Down
    OBVIOUS
  <2>2. Below(y) \subseteq Below(x) /\ x \in Below(x) /\ x \notin Below(y)
    BY <1>5
  <2>3. <<Below(y), Below(x)>> \in StrictSubsetOrdering(Nat)
    BY <2>2 DEF StrictSubsetOrdering
  <2> QED  BY <1>3, <1>4, <2>1, <2>3
<1> QED  BY <1>5

-----------------------------------------------------------------------------
(* What the operations of an account do to its list *)

\* An account is a record of a list of keys, which fits its limit, and a counter.
LEMMA AccountFields ==
    ASSUME NEW a \in AccountState
    PROVE  /\ a \in [one_time_keys : Seq(OneTimeKey), next_one_time_key_id : Nat]
           /\ a.one_time_keys \in Seq(OneTimeKey)
           /\ a.next_one_time_key_id \in Nat
           /\ Len(a.one_time_keys) \in Nat
           /\ Len(a.one_time_keys) <= MaxOneTimeKeys
           /\ DOMAIN a.one_time_keys = 1..Len(a.one_time_keys)
           /\ \A i \in DOMAIN a.one_time_keys : a.one_time_keys[i] \in OneTimeKey
<1>1. /\ a \in [one_time_keys : Seq(OneTimeKey), next_one_time_key_id : Nat]
      /\ Len(a.one_time_keys) <= MaxOneTimeKeys
  BY DEF AccountState
<1>2. a.one_time_keys \in Seq(OneTimeKey) /\ a.next_one_time_key_id \in Nat
  BY <1>1
<1>3. /\ Len(a.one_time_keys) \in Nat
      /\ DOMAIN a.one_time_keys = 1..Len(a.one_time_keys)
      /\ \A i \in DOMAIN a.one_time_keys : a.one_time_keys[i] \in OneTimeKey
  BY <1>2, LenProperties, ElementOfSeq
<1> QED  BY <1>1, <1>2, <1>3

\* generate_one_time_keys puts the new keys in front; the old ones move up, and off
\* the end only past the limit.
LEMMA GenerateElements ==
    ASSUME NEW a \in AccountState, NEW number \in Nat \ {0}, NEW random \in Nat,
           NEW b, b = GenerateOneTimeKeys(a, number, random)
    PROVE  /\ b \in AccountState
           /\ b.next_one_time_key_id = a.next_one_time_key_id + number
           /\ DOMAIN b.one_time_keys = 1..Len(b.one_time_keys) /\ Len(b.one_time_keys) \in Nat
           /\ \A i \in DOMAIN b.one_time_keys :
                 i <= number =>
                     /\ b.one_time_keys[i].id = a.next_one_time_key_id + number + 1 - i
                     /\ ~b.one_time_keys[i].published
                     /\ b.one_time_keys[i].key = random + number + 1 - i
           /\ \A i \in DOMAIN b.one_time_keys :
                 ~(i <= number) =>
                     /\ i - number \in DOMAIN a.one_time_keys
                     /\ b.one_time_keys[i] = a.one_time_keys[i - number]
           /\ \A i \in 1..MaxOneTimeKeys :
                 i <= number \/ i - number \in DOMAIN a.one_time_keys
                     => i \in DOMAIN b.one_time_keys
<1> DEFINE new   == [i \in 1..number |->
                       [id        |-> a.next_one_time_key_id + number + 1 - i,
                        published |-> FALSE,
                        key       |-> random + number + 1 - i]]
           whole == new \o a.one_time_keys
<1>0. /\ a.one_time_keys \in Seq(OneTimeKey) /\ a.next_one_time_key_id \in Nat
      /\ Len(a.one_time_keys) \in Nat
      /\ DOMAIN a.one_time_keys = 1..Len(a.one_time_keys)
  BY AccountFields
<1>1. new \in Seq(OneTimeKey) /\ Len(new) = number
  <2>1. \A i \in 1..number :
           [id |-> a.next_one_time_key_id + number + 1 - i, published |-> FALSE,
            key |-> random + number + 1 - i] \in OneTimeKey
    BY <1>0 DEF OneTimeKey
  <2>2. new \in [1..number -> OneTimeKey]
    BY <2>1
  <2> QED  BY <2>2, IsASeq, LenProperties
<1>2. \A i \in 1..number :
         /\ new[i].id = a.next_one_time_key_id + number + 1 - i
         /\ ~new[i].published
         /\ new[i].key = random + number + 1 - i
  OBVIOUS
<1>3. /\ b.one_time_keys = Truncate(whole, MaxOneTimeKeys)
      /\ b.next_one_time_key_id = a.next_one_time_key_id + number
      /\ b = [one_time_keys        |-> b.one_time_keys,
              next_one_time_key_id |-> b.next_one_time_key_id]
  BY DEF GenerateOneTimeKeys
<1> HIDE DEF new
<1>4. /\ whole \in Seq(OneTimeKey)
      /\ Len(whole) = number + Len(a.one_time_keys)
      /\ \A i \in 1..Len(whole) :
            whole[i] = IF i <= number THEN new[i] ELSE a.one_time_keys[i - number]
  BY <1>0, <1>1, ConcatProperties
<1> HIDE DEF whole
<1>5. /\ b.one_time_keys \in Seq(OneTimeKey)
      /\ Len(b.one_time_keys) <= MaxOneTimeKeys
      /\ Len(b.one_time_keys) <= Len(whole)
      /\ \A i \in 1..Len(b.one_time_keys) : b.one_time_keys[i] = whole[i]
  <2> DEFINE cut == Truncate(whole, MaxOneTimeKeys)
  <2>1. /\ cut \in Seq(OneTimeKey) /\ Len(cut) <= MaxOneTimeKeys /\ Len(cut) <= Len(whole)
        /\ \A i \in 1..Len(cut) : cut[i] = whole[i]
    <3>1. MaxOneTimeKeys \in Nat
      OBVIOUS
    <3>2. whole \in Seq(OneTimeKey)
      BY <1>4
    <3> QED  BY <3>1, <3>2, TruncateElements
  <2>2. b.one_time_keys = cut
    BY <1>3
  <2> QED  BY <2>1, <2>2, Zenon
<1>6. Len(b.one_time_keys) \in Nat /\ DOMAIN b.one_time_keys = 1..Len(b.one_time_keys)
  BY <1>5, LenProperties
<1>7. b \in AccountState
  BY <1>0, <1>3, <1>5 DEF AccountState
<1>8. ASSUME NEW i \in DOMAIN b.one_time_keys
      PROVE  /\ i <= number =>
                    /\ b.one_time_keys[i].id = a.next_one_time_key_id + number + 1 - i
                    /\ ~b.one_time_keys[i].published
                    /\ b.one_time_keys[i].key = random + number + 1 - i
             /\ ~(i <= number) =>
                    /\ i - number \in DOMAIN a.one_time_keys
                    /\ b.one_time_keys[i] = a.one_time_keys[i - number]
  <2>1. i \in 1..Len(whole) /\ b.one_time_keys[i] = whole[i]
    BY <1>0, <1>4, <1>5, <1>6
  <2>2. ASSUME i <= number
        PROVE  b.one_time_keys[i] = new[i] /\ i \in 1..number
    BY <1>4, <1>6, <2>1, <2>2
  <2>3. ASSUME ~(i <= number)
        PROVE  /\ i - number \in DOMAIN a.one_time_keys
               /\ b.one_time_keys[i] = a.one_time_keys[i - number]
    BY <1>0, <1>4, <2>1, <2>3
  <2> QED  BY <1>2, <2>2, <2>3, Zenon
<1>9. ASSUME NEW i \in 1..MaxOneTimeKeys, i <= number \/ i - number \in DOMAIN a.one_time_keys
      PROVE  i \in DOMAIN b.one_time_keys
  <2>1. i <= Len(whole)
    BY <1>0, <1>4, <1>9
  <2>2. CASE Len(whole) > MaxOneTimeKeys
    <3>1. \A j \in 1..MaxOneTimeKeys : whole[j] \in OneTimeKey
      BY <1>0, <1>4, <2>2, ElementOfSeq
    <3>2. Len(b.one_time_keys) = MaxOneTimeKeys
      BY <1>3, <2>2, <3>1, SubSeqProperties, Z3 DEF Truncate
    <3> QED  BY <1>6, <3>2
  <2>3. CASE ~(Len(whole) > MaxOneTimeKeys)
    BY <1>3, <1>6, <2>1, <2>3 DEF Truncate
  <2> QED  BY <2>2, <2>3
<1> QED  BY <1>3, <1>6, <1>7, <1>8, <1>9

\* remove_key finds the key and takes that one out of the list.
LEMMA RemoveElements ==
    ASSUME NEW a \in AccountState, NEW key, LookupKey(a, key),
           NEW b, b = RemoveKey(a, key)
    PROVE  /\ b \in AccountState
           /\ b.next_one_time_key_id = a.next_one_time_key_id
           /\ \E pos \in DOMAIN a.one_time_keys :
                 /\ a.one_time_keys[pos].key = key
                 /\ DOMAIN b.one_time_keys = 1 .. Len(a.one_time_keys) - 1
                 /\ \A i \in DOMAIN b.one_time_keys :
                       b.one_time_keys[i] = IF i < pos THEN a.one_time_keys[i]
                                            ELSE a.one_time_keys[i + 1]
<1> DEFINE matches == { i \in DOMAIN a.one_time_keys : a.one_time_keys[i].key = key }
           pos     == PositionOf(a, key)
<1>0. /\ a \in [one_time_keys : Seq(OneTimeKey), next_one_time_key_id : Nat]
      /\ a.one_time_keys \in Seq(OneTimeKey) /\ a.next_one_time_key_id \in Nat
      /\ Len(a.one_time_keys) \in Nat /\ Len(a.one_time_keys) <= MaxOneTimeKeys
      /\ DOMAIN a.one_time_keys = 1..Len(a.one_time_keys)
  BY AccountFields
<1>1. matches \in SUBSET Nat /\ matches # {}
  BY <1>0 DEF LookupKey, Keys
<1>2. PICK i \in matches : \A j \in matches : i <= j
  BY <1>1, LeastIn
<1>3. \A j \in 1..i-1 : a.one_time_keys[j].key # key
  BY <1>0, <1>2
<1>4. pos \in DOMAIN a.one_time_keys /\ a.one_time_keys[pos].key = key
  BY <1>2, <1>3 DEF PositionOf
<1>5. /\ b.one_time_keys = Erase(a.one_time_keys, pos)
      /\ b.next_one_time_key_id = a.next_one_time_key_id
      /\ b = [one_time_keys        |-> b.one_time_keys,
              next_one_time_key_id |-> b.next_one_time_key_id]
  BY <1>0 DEF RemoveKey
<1> HIDE DEF pos
<1>6. /\ b.one_time_keys \in Seq(OneTimeKey)
      /\ Len(b.one_time_keys) = Len(a.one_time_keys) - 1
      /\ \A j \in 1..Len(b.one_time_keys) :
            b.one_time_keys[j] = IF j < pos THEN a.one_time_keys[j] ELSE a.one_time_keys[j + 1]
  <2> DEFINE rest == Erase(a.one_time_keys, pos)
  <2>1. pos \in 1..Len(a.one_time_keys)
    BY <1>0, <1>4
  <2>2. /\ rest \in Seq(OneTimeKey)
        /\ Len(rest) = Len(a.one_time_keys) - 1
        /\ \A j \in 1..Len(rest) :
              rest[j] = IF j < pos THEN a.one_time_keys[j] ELSE a.one_time_keys[j + 1]
    BY <1>0, <2>1, EraseElements, Zenon
  <2>3. b.one_time_keys = rest
    BY <1>5
  <2> QED  BY <2>2, <2>3, Zenon
<1>7. DOMAIN b.one_time_keys = 1..Len(b.one_time_keys)
  BY <1>6, LenProperties
<1>8. b \in AccountState
  BY <1>0, <1>5, <1>6 DEF AccountState
<1> QED  BY <1>4, <1>5, <1>6, <1>7, <1>8

\* Setting the flag of a key keeps its id and its key pair.
LEMMA FlagSet ==
    ASSUME NEW k \in OneTimeKey, NEW flag
    PROVE  [k EXCEPT !.published = flag] = [id |-> k.id, published |-> flag, key |-> k.key]
BY DEF OneTimeKey

\* mark_keys_as_published changes the flags and nothing else.
LEMMA MarkElements ==
    ASSUME NEW a \in AccountState, NEW b, b = MarkKeysAsPublished(a)
    PROVE  /\ b \in AccountState
           /\ b.next_one_time_key_id = a.next_one_time_key_id
           /\ DOMAIN b.one_time_keys = DOMAIN a.one_time_keys
           /\ \A i \in DOMAIN b.one_time_keys :
                 b.one_time_keys[i] = [id        |-> a.one_time_keys[i].id,
                                       published |-> TRUE,
                                       key       |-> a.one_time_keys[i].key]
<1>0. /\ a \in [one_time_keys : Seq(OneTimeKey), next_one_time_key_id : Nat]
      /\ a.one_time_keys \in Seq(OneTimeKey) /\ a.next_one_time_key_id \in Nat
      /\ Len(a.one_time_keys) \in Nat /\ Len(a.one_time_keys) <= MaxOneTimeKeys
      /\ DOMAIN a.one_time_keys = 1..Len(a.one_time_keys)
      /\ \A i \in DOMAIN a.one_time_keys : a.one_time_keys[i] \in OneTimeKey
  BY AccountFields
<1>1. /\ b.one_time_keys = [i \in DOMAIN a.one_time_keys |->
                              [a.one_time_keys[i] EXCEPT !.published = TRUE]]
      /\ b.next_one_time_key_id = a.next_one_time_key_id
      /\ b = [one_time_keys        |-> b.one_time_keys,
              next_one_time_key_id |-> b.next_one_time_key_id]
  BY <1>0 DEF MarkKeysAsPublished
<1>2. ASSUME NEW i \in DOMAIN a.one_time_keys
      PROVE  /\ b.one_time_keys[i] = [id        |-> a.one_time_keys[i].id,
                                      published |-> TRUE,
                                      key       |-> a.one_time_keys[i].key]
             /\ b.one_time_keys[i] \in OneTimeKey
  <2> DEFINE k == a.one_time_keys[i]
  <2>1. k \in OneTimeKey
    BY <1>0
  <2>2. b.one_time_keys[i] = [k EXCEPT !.published = TRUE]
    BY <1>1
  <2> HIDE DEF k
  <2>3. [k EXCEPT !.published = TRUE] = [id |-> k.id, published |-> TRUE, key |-> k.key]
    BY <2>1, FlagSet, Zenon
  <2>4. [id |-> k.id, published |-> TRUE, key |-> k.key] \in OneTimeKey
    <3>1. k.id \in Nat /\ k.key \in Nat
      BY <2>1 DEF OneTimeKey
    <3> QED  BY <3>1 DEF OneTimeKey
  <2> QED  BY <2>2, <2>3, <2>4 DEF k
<1>3. b.one_time_keys \in [1..Len(a.one_time_keys) -> OneTimeKey]
  BY <1>0, <1>1, <1>2
<1>4. b.one_time_keys \in Seq(OneTimeKey) /\ Len(b.one_time_keys) = Len(a.one_time_keys)
  BY <1>0, <1>3, IsASeq, LenProperties
<1>5. b \in AccountState
  BY <1>0, <1>1, <1>4 DEF AccountState
<1> QED  BY <1>1, <1>2, <1>5

\* A list that fits its limit is restored as it was stored.
LEMMA AccountRestored ==
    ASSUME NEW a \in AccountState
    PROVE  UnpickleAccount(a) = a
<1>1. UnpickleList(a.one_time_keys, MaxOneTimeKeys) = a.one_time_keys
  BY UnpickleFits DEF AccountState
<1>2. a = [one_time_keys        |-> a.one_time_keys,
           next_one_time_key_id |-> a.next_one_time_key_id]
  BY AccountFields
<1> QED  BY <1>1, <1>2 DEF UnpickleAccount

HIDE AccountLimit
USE RatchetLimits

-----------------------------------------------------------------------------
(* Reading a message *)

\* What decode_message() can return: the key of a damaged message is no key.
Header(reader) == reader.ratchet_key \in RatchetKey /\ reader.counter \in Nat

-----------------------------------------------------------------------------
(* The fields of a ratchet *)

\* A ratchet is a record of these fields, and its lists fit their limits.
LEMMA RatchetFields ==
    ASSUME NEW r \in RatchetState
    PROVE  /\ r \in [root_key             : SharedKey,
                     sender_chain         : Seq(SenderChain),
                     receiver_chains      : Seq(ReceiverChain),
                     skipped_message_keys : Seq(SkippedMessageKey)]
           /\ r.root_key \in SharedKey /\ Len(r.root_key) \in Nat
           /\ r.sender_chain \in Seq(SenderChain)
           /\ Len(r.sender_chain) \in Nat /\ Len(r.sender_chain) <= 1
           /\ DOMAIN r.sender_chain = 1..Len(r.sender_chain)
           /\ r.receiver_chains \in Seq(ReceiverChain)
           /\ Len(r.receiver_chains) \in 0..MaxReceiverChains
           /\ DOMAIN r.receiver_chains = 1..Len(r.receiver_chains)
           /\ r.skipped_message_keys \in Seq(SkippedMessageKey)
           /\ Len(r.skipped_message_keys) \in 0..MaxSkippedMessageKeys
           /\ DOMAIN r.skipped_message_keys = 1..Len(r.skipped_message_keys)
<1>1. /\ r \in [root_key             : SharedKey,
                sender_chain         : Seq(SenderChain),
                receiver_chains      : Seq(ReceiverChain),
                skipped_message_keys : Seq(SkippedMessageKey)]
      /\ Len(r.sender_chain) <= 1
      /\ Len(r.receiver_chains) <= MaxReceiverChains
      /\ Len(r.skipped_message_keys) <= MaxSkippedMessageKeys
  BY DEF RatchetState
<1>2. /\ r.root_key \in SharedKey
      /\ r.sender_chain \in Seq(SenderChain)
      /\ r.receiver_chains \in Seq(ReceiverChain)
      /\ r.skipped_message_keys \in Seq(SkippedMessageKey)
  BY <1>1
<1>3. Len(r.root_key) \in Nat
  BY <1>2, LenProperties DEF SharedKey
<1>4. /\ Len(r.sender_chain) \in Nat
      /\ DOMAIN r.sender_chain = 1..Len(r.sender_chain)
  BY <1>2, LenProperties
<1>5. /\ Len(r.receiver_chains) \in Nat
      /\ DOMAIN r.receiver_chains = 1..Len(r.receiver_chains)
  BY <1>2, LenProperties
<1>6. /\ Len(r.skipped_message_keys) \in Nat
      /\ DOMAIN r.skipped_message_keys = 1..Len(r.skipped_message_keys)
  BY <1>2, LenProperties
<1>7. /\ Len(r.sender_chain) \in Nat /\ Len(r.sender_chain) <= 1
      /\ Len(r.receiver_chains) \in 0..MaxReceiverChains
      /\ Len(r.skipped_message_keys) \in 0..MaxSkippedMessageKeys
  <2>1. Len(r.sender_chain) \in Nat /\ Len(r.sender_chain) <= 1
    BY <1>1, <1>4
  <2>2. Len(r.receiver_chains) \in 0..MaxReceiverChains
    BY <1>1, <1>5, RatchetLimits
  <2>3. Len(r.skipped_message_keys) \in 0..MaxSkippedMessageKeys
    BY <1>1, <1>6, RatchetLimits
  <2> QED  BY <2>1, <2>2, <2>3
<1> QED  BY <1>1, <1>2, <1>3, <1>4, <1>5, <1>6, <1>7

\* What a receiver chain of a ratchet is made of.
LEMMA ReceiverChainType ==
    ASSUME NEW r \in RatchetState, NEW i \in DOMAIN r.receiver_chains
    PROVE  /\ r.receiver_chains[i] \in ReceiverChain
           /\ r.receiver_chains[i].ratchet_key \in RatchetKey
           /\ r.receiver_chains[i].chain_key \in ChainKey
           /\ r.receiver_chains[i].chain_key.key \in SharedKey
           /\ r.receiver_chains[i].chain_key.index \in Nat
           /\ Len(r.receiver_chains[i].chain_key.key) \in Nat
<1>1. r.receiver_chains[i] \in ReceiverChain
  BY RatchetFields, ElementOfSeq
<1>2. /\ r.receiver_chains[i].ratchet_key \in RatchetKey
      /\ r.receiver_chains[i].chain_key \in ChainKey
  BY <1>1 DEF ReceiverChain
<1>3. /\ r.receiver_chains[i].chain_key.key \in SharedKey
      /\ r.receiver_chains[i].chain_key.index \in Nat
  BY <1>2 DEF ChainKey
<1> QED  BY <1>1, <1>2, <1>3, LenProperties DEF SharedKey

\* What the sender chain of a ratchet is made of, when there is one.
LEMMA SenderChainType ==
    ASSUME NEW r \in RatchetState, r.sender_chain # <<>>
    PROVE  /\ Len(r.sender_chain) = 1
           /\ r.sender_chain[1] \in SenderChain
           /\ r.sender_chain[1].ratchet_key \in RatchetKey
           /\ r.sender_chain[1].chain_key \in ChainKey
           /\ r.sender_chain[1].chain_key.key \in SharedKey
           /\ r.sender_chain[1].chain_key.index \in Nat
<1>0. r.sender_chain \in Seq(SenderChain) /\ Len(r.sender_chain) <= 1
  BY RatchetFields
<1>1. Len(r.sender_chain) = 1 /\ r.sender_chain[1] \in SenderChain
  <2>1. Len(r.sender_chain) \in Nat \ {0}
    BY <1>0, EmptySeq
  <2>2. Len(r.sender_chain) = 1
    <3>1. \A n \in Nat \ {0} : n <= 1 => n = 1
      OBVIOUS
    <3>2. Len(r.sender_chain) <= 1
      BY <1>0
    <3> QED  BY <2>1, <3>1, <3>2, Zenon
  <2> QED  BY <1>0, <2>2, ElementOfSeq
<1>2. /\ r.sender_chain[1].ratchet_key \in RatchetKey
      /\ r.sender_chain[1].chain_key \in ChainKey
  BY <1>1 DEF SenderChain
<1> QED  BY <1>1, <1>2 DEF ChainKey

\* What a kept message key of a ratchet is made of.
LEMMA SkippedMessageKeyType ==
    ASSUME NEW r \in RatchetState, NEW i \in DOMAIN r.skipped_message_keys
    PROVE  /\ r.skipped_message_keys[i] \in SkippedMessageKey
           /\ r.skipped_message_keys[i].message_key \in MessageKey
           /\ r.skipped_message_keys[i].message_key.key \in SharedKey
           /\ r.skipped_message_keys[i].message_key.index \in Nat
           /\ Len(r.skipped_message_keys[i].message_key.key) \in Nat
<1>1. r.skipped_message_keys[i] \in SkippedMessageKey
  BY RatchetFields, ElementOfSeq
<1>2. r.skipped_message_keys[i].message_key \in MessageKey
  BY <1>1 DEF SkippedMessageKey
<1>3. /\ r.skipped_message_keys[i].message_key.key \in SharedKey
      /\ r.skipped_message_keys[i].message_key.index \in Nat
  BY <1>2 DEF MessageKey
<1> QED  BY <1>1, <1>2, <1>3, LenProperties DEF SharedKey

-----------------------------------------------------------------------------
(* The two searches of decrypt() *)

\* The loop of decrypt() over the chains finds one that reads the message.
LEMMA ChainForFound ==
    ASSUME NEW r \in RatchetState, NEW reader, HasChain(r, reader)
    PROVE  /\ ChainFor(r, reader) \in DOMAIN r.receiver_chains
           /\ r.receiver_chains[ChainFor(r, reader)].ratchet_key = reader.ratchet_key
<1> DEFINE matches == { i \in DOMAIN r.receiver_chains :
                          r.receiver_chains[i].ratchet_key = reader.ratchet_key }
<1>1. matches \in SUBSET Nat /\ matches # {}
  BY RatchetFields DEF HasChain
<1>2. PICK i \in matches : \A j \in matches : i <= j
  BY <1>1, LeastIn
<1>3. \A j \in 1..i-1 : r.receiver_chains[j].ratchet_key # reader.ratchet_key
  <2>1. DOMAIN r.receiver_chains = 1..Len(r.receiver_chains) /\ Len(r.receiver_chains) \in Nat
    BY RatchetFields
  <2> QED  BY <1>2, <2>1
<1> QED  BY <1>2, <1>3 DEF ChainFor

\* The loop of decrypt() over the kept keys finds one that opens the message.
LEMMA SkippedForFound ==
    ASSUME NEW r \in RatchetState, NEW reader, HasSkipped(r, reader)
    PROVE  /\ SkippedFor(r, reader) \in DOMAIN r.skipped_message_keys
           /\ Opens(r.skipped_message_keys[SkippedFor(r, reader)], reader)
<1> DEFINE matches == { i \in DOMAIN r.skipped_message_keys :
                          Opens(r.skipped_message_keys[i], reader) }
<1>1. matches \in SUBSET Nat /\ matches # {}
  BY RatchetFields DEF HasSkipped
<1>2. PICK i \in matches : \A j \in matches : i <= j
  BY <1>1, LeastIn
<1>3. \A j \in 1..i-1 : ~Opens(r.skipped_message_keys[j], reader)
  <2>1. /\ DOMAIN r.skipped_message_keys = 1..Len(r.skipped_message_keys)
        /\ Len(r.skipped_message_keys) \in Nat
    BY RatchetFields
  <2> QED  BY <1>2, <2>1
<1> QED  BY <1>2, <1>3 DEF SkippedFor

\* advance_chain_key() counts one message and stays on its chain.
LEMMA AdvanceChainKeyFields ==
    ASSUME NEW chain_key \in ChainKey
    PROVE  AdvanceChainKey(chain_key) =
               [key |-> chain_key.key, index |-> chain_key.index + 1]
BY DEF AdvanceChainKey, ChainKey

-----------------------------------------------------------------------------
(* What the steps of decrypt() change, field by field *)

\* The keys stepped over on a chain belong to it, each with its own index.
LEMMA SkippedKeysElements ==
    ASSUME NEW chain \in ReceiverChain, NEW counter \in Nat,
           counter >= chain.chain_key.index
    PROVE  /\ SkippedKeys(chain, counter) \in Seq(SkippedMessageKey)
           /\ Len(SkippedKeys(chain, counter)) = counter - chain.chain_key.index
           /\ \A n \in 1..(counter - chain.chain_key.index) :
                 SkippedKeys(chain, counter)[n].message_key =
                     [key |-> chain.chain_key.key, index |-> counter - n]
<1> DEFINE d == counter - chain.chain_key.index
           entry(n) == [ratchet_key |-> chain.ratchet_key,
                        message_key |-> [key |-> chain.chain_key.key, index |-> counter - n]]
<1>1. /\ chain.ratchet_key \in RatchetKey
      /\ chain.chain_key \in ChainKey
      /\ chain.chain_key.key \in SharedKey
      /\ chain.chain_key.index \in Nat
      /\ d \in Nat
  BY DEF ReceiverChain, ChainKey
<1>2. SkippedKeys(chain, counter) = [n \in 1..d |-> entry(n)]
  BY <1>1 DEF SkippedKeys, CreateMessageKeys, ChainKey
<1>3. \A n \in 1..d : entry(n) \in SkippedMessageKey
  <2>1. \A n \in 1..d : counter - n \in Nat
    BY <1>1
  <2> QED  BY <1>1, <2>1 DEF SkippedMessageKey, MessageKey
<1> HIDE DEF d
<1>4. [n \in 1..d |-> entry(n)] \in Seq(SkippedMessageKey)
  BY <1>1, <1>3
<1>5. Len([n \in 1..d |-> entry(n)]) = d
  BY <1>1
<1>6. \A n \in 1..d : [m \in 1..d |-> entry(m)][n].message_key =
                         [key |-> chain.chain_key.key, index |-> counter - n]
  OBVIOUS
<1> HIDE DEF entry
<1> QED  BY <1>2, <1>4, <1>5, <1>6 DEF d

\* Advancing a chain moves its index past the counter, and touches nothing else
\* but the skipped keys: the new ones come first, the old ones keep their order.
LEMMA AdvanceReceiverChainFields ==
    ASSUME NEW r \in RatchetState, NEW i \in DOMAIN r.receiver_chains,
           NEW counter \in Nat, counter >= r.receiver_chains[i].chain_key.index,
           NEW after, after = AdvanceReceiverChain(r, i, counter)
    PROVE  /\ after \in RatchetState
           /\ after.root_key = r.root_key
           /\ after.sender_chain = r.sender_chain
           /\ DOMAIN after.receiver_chains = DOMAIN r.receiver_chains
           /\ \A j \in DOMAIN r.receiver_chains :
                 j # i => after.receiver_chains[j] = r.receiver_chains[j]
           /\ after.receiver_chains[i] =
                 [ratchet_key |-> r.receiver_chains[i].ratchet_key,
                  chain_key   |-> [key   |-> r.receiver_chains[i].chain_key.key,
                                   index |-> counter + 1]]
           /\ \A j \in DOMAIN after.skipped_message_keys :
                 IF j <= counter - r.receiver_chains[i].chain_key.index
                 THEN after.skipped_message_keys[j].message_key =
                          [key   |-> r.receiver_chains[i].chain_key.key,
                           index |-> counter - j]
                 ELSE /\ j - (counter - r.receiver_chains[i].chain_key.index)
                            \in DOMAIN r.skipped_message_keys
                      /\ after.skipped_message_keys[j] =
                            r.skipped_message_keys
                                [j - (counter - r.receiver_chains[i].chain_key.index)]
<1> DEFINE chain == r.receiver_chains[i]
           new_chain == [ratchet_key |-> chain.ratchet_key,
                         chain_key   |-> [key   |-> chain.chain_key.key,
                                          index |-> counter + 1]]
           d     == counter - chain.chain_key.index
           fresh == SkippedKeys(chain, counter)
           old   == r.skipped_message_keys
           list  == Truncate(fresh \o old, MaxSkippedMessageKeys)
           chains == [r.receiver_chains EXCEPT ![i] = new_chain]
<1>1. /\ chain \in ReceiverChain
      /\ chain.ratchet_key \in RatchetKey
      /\ chain.chain_key \in ChainKey
      /\ chain.chain_key.key \in SharedKey
      /\ chain.chain_key.index \in Nat
      /\ d \in Nat
  BY ReceiverChainType
<1>2. /\ fresh \in Seq(SkippedMessageKey)
      /\ Len(fresh) = d
      /\ \A n \in 1..d : fresh[n].message_key =
            [key |-> chain.chain_key.key, index |-> counter - n]
  BY <1>1, SkippedKeysElements
<1>2a. old \in Seq(SkippedMessageKey) /\ Len(old) \in Nat /\ DOMAIN old = 1..Len(old)
  BY RatchetFields, LenProperties
<1> HIDE DEF fresh, d, old
<1>3. /\ fresh \o old \in Seq(SkippedMessageKey)
      /\ Len(fresh \o old) = d + Len(old)
      /\ \A j \in 1..d + Len(old) :
            (fresh \o old)[j] = IF j <= d THEN fresh[j] ELSE old[j - d]
  BY <1>2, <1>2a, ConcatProperties
<1>4. /\ list \in Seq(SkippedMessageKey)
      /\ Len(list) <= MaxSkippedMessageKeys
      /\ Len(list) <= Len(fresh \o old)
      /\ \A j \in 1..Len(list) : list[j] = (fresh \o old)[j]
      /\ Len(list) \in Nat
      /\ DOMAIN list = 1..Len(list)
  BY <1>3, TruncateElements, LenProperties
<1>5. \A j \in DOMAIN list :
         IF j <= d
         THEN list[j].message_key = [key |-> chain.chain_key.key, index |-> counter - j]
         ELSE j - d \in DOMAIN old /\ list[j] = old[j - d]
  <2> TAKE j \in DOMAIN list
  <2>1. j \in 1..d + Len(old) /\ list[j] = (fresh \o old)[j]
    <3>1. j \in 1..Len(list) /\ list[j] = (fresh \o old)[j]
      BY <1>4
    <3>2. Len(list) \in Nat /\ Len(list) <= d + Len(old)
      BY <1>3, <1>4
    <3>3. d \in Nat /\ Len(old) \in Nat
      BY <1>1, <1>2a
    <3> HIDE DEF list
    <3> QED  BY <3>1, <3>2, <3>3
  <2>2. CASE j <= d
    <3>1. list[j] = fresh[j] /\ j \in 1..d
      BY <1>1, <1>2a, <1>3, <2>1, <2>2
    <3> QED  BY <1>2, <2>2, <3>1
  <2>3. CASE ~(j <= d)
    <3>1. (fresh \o old)[j] = old[j - d]
      BY <1>3, <2>1, <2>3
    <3>2. j \in Int /\ d \in Int /\ Len(old) \in Int /\ j <= d + Len(old)
      <4>1. d \in Int /\ Len(old) \in Int
        BY <1>1, <1>2a
      <4> QED  BY <2>1, <4>1
    <3>3. j - d \in 1..Len(old)
      BY <2>3, <3>2
    <3>4. j - d \in DOMAIN old
      BY <1>2a, <3>3
    <3> QED  BY <2>1, <2>3, <3>1, <3>4
  <2> QED  BY <2>2, <2>3
<1>6. new_chain \in ReceiverChain
  BY <1>1 DEF ReceiverChain, ChainKey
<1>7. /\ chains \in Seq(ReceiverChain)
      /\ Len(chains) = Len(r.receiver_chains)
      /\ DOMAIN chains = DOMAIN r.receiver_chains
      /\ chains[i] = new_chain
      /\ \A j \in DOMAIN r.receiver_chains : j # i => chains[j] = r.receiver_chains[j]
  BY <1>6, RatchetFields, ExceptSeq
<1>8. after = [r EXCEPT !.skipped_message_keys = list, !.receiver_chains = chains]
  <2>1. [chain EXCEPT !.chain_key = AdvanceChainKey([@ EXCEPT !.index = counter])] = new_chain
    <3> DEFINE next == [key |-> chain.chain_key.key, index |-> counter + 1]
    <3>1. AdvanceChainKey([chain.chain_key EXCEPT !.index = counter]) = next
      <4>1. [chain.chain_key EXCEPT !.index = counter] =
                [key |-> chain.chain_key.key, index |-> counter]
        BY <1>1 DEF ChainKey
      <4>2. [key |-> chain.chain_key.key, index |-> counter] \in ChainKey
        BY <1>1 DEF ChainKey
      <4> QED  BY <4>1, <4>2, AdvanceChainKeyFields
    <3>2. [chain EXCEPT !.chain_key = next] =
              [ratchet_key |-> chain.ratchet_key, chain_key |-> next]
      BY <1>1 DEF ReceiverChain
    <3> QED  BY <3>1, <3>2
  <2>2. [r.receiver_chains EXCEPT ![i].chain_key =
            AdvanceChainKey([@ EXCEPT !.index = counter])] = chains
    BY <2>1, RatchetFields
  <2> QED  BY <2>2, RatchetFields DEF AdvanceReceiverChain, fresh, old
<1> HIDE DEF list, chains, new_chain
<1>9. /\ after.root_key = r.root_key
      /\ after.sender_chain = r.sender_chain
      /\ after.receiver_chains = chains
      /\ after.skipped_message_keys = list
      /\ after \in [root_key             : SharedKey,
                    sender_chain         : Seq(SenderChain),
                    receiver_chains      : Seq(ReceiverChain),
                    skipped_message_keys : Seq(SkippedMessageKey)]
  BY <1>4, <1>7, <1>8, RatchetFields
<1>10. after \in RatchetState
  BY <1>4, <1>7, <1>9, RatchetFields DEF RatchetState
<1> QED  BY <1>5, <1>7, <1>9, <1>10 DEF d, new_chain, old

\* A skipped key that opened a message is taken out; the others keep their order.
LEMMA UseSkippedKeyFields ==
    ASSUME NEW r \in RatchetState, NEW reader, HasSkipped(r, reader),
           NEW after, after = UseSkippedKey(r, reader)
    PROVE  /\ after \in RatchetState
           /\ after.root_key = r.root_key
           /\ after.sender_chain = r.sender_chain
           /\ after.receiver_chains = r.receiver_chains
           /\ \A j \in DOMAIN after.skipped_message_keys :
                 IF j < SkippedFor(r, reader)
                 THEN /\ j \in DOMAIN r.skipped_message_keys
                      /\ after.skipped_message_keys[j] = r.skipped_message_keys[j]
                 ELSE /\ j + 1 \in DOMAIN r.skipped_message_keys
                      /\ after.skipped_message_keys[j] = r.skipped_message_keys[j + 1]
<1> DEFINE old  == r.skipped_message_keys
           k    == SkippedFor(r, reader)
           list == Erase(old, k)
<1>1. /\ old \in Seq(SkippedMessageKey)
      /\ Len(old) \in Nat
      /\ Len(old) <= MaxSkippedMessageKeys
      /\ DOMAIN old = 1..Len(old)
  BY RatchetFields
<1>2. k \in 1..Len(old)
  BY <1>1, SkippedForFound
<1> HIDE DEF old, k
<1>3. /\ list \in Seq(SkippedMessageKey)
      /\ Len(list) = Len(old) - 1
      /\ \A j \in 1..Len(list) : list[j] = IF j < k THEN old[j] ELSE old[j + 1]
  BY <1>1, <1>2, EraseElements
<1>4. after = [r EXCEPT !.skipped_message_keys = list]
  BY DEF UseSkippedKey, old, k
<1> HIDE DEF list
<1>5. DOMAIN list = 1..Len(list)
  BY <1>3, LenProperties
<1>6. \A j \in DOMAIN list :
         IF j < k THEN j \in DOMAIN old /\ list[j] = old[j]
                  ELSE j + 1 \in DOMAIN old /\ list[j] = old[j + 1]
  <2> TAKE j \in DOMAIN list
  <2>1. j \in 1..Len(old) - 1
    BY <1>3, <1>5
  <2>2. list[j] = IF j < k THEN old[j] ELSE old[j + 1]
    BY <1>3, <1>5
  <2>3. j \in DOMAIN old /\ j + 1 \in DOMAIN old
    BY <1>1, <2>1
  <2> QED  BY <2>2, <2>3
<1>7. /\ after.root_key = r.root_key
      /\ after.sender_chain = r.sender_chain
      /\ after.receiver_chains = r.receiver_chains
      /\ after.skipped_message_keys = list
      /\ after \in [root_key             : SharedKey,
                    sender_chain         : Seq(SenderChain),
                    receiver_chains      : Seq(ReceiverChain),
                    skipped_message_keys : Seq(SkippedMessageKey)]
  BY <1>3, <1>4, RatchetFields
<1>8. Len(list) <= MaxSkippedMessageKeys
  BY <1>1, <1>3
<1>9. after \in RatchetState
  BY <1>7, <1>8, RatchetFields DEF RatchetState
<1> QED  BY <1>6, <1>7, <1>9 DEF old, k

\* The root key derived with a secret is one secret longer.
LEMMA CreateChainKeyFields ==
    ASSUME NEW root_key \in SharedKey, NEW our_key \in RatchetKey, NEW their_key \in RatchetKey
    PROVE  /\ CreateChainKey(root_key, our_key, their_key).root_key \in SharedKey
           /\ Len(CreateChainKey(root_key, our_key, their_key).root_key) = Len(root_key) + 1
           /\ CreateChainKey(root_key, our_key, their_key).chain_key =
                 [key   |-> CreateChainKey(root_key, our_key, their_key).root_key,
                  index |-> 0]
           /\ CreateChainKey(root_key, our_key, their_key).chain_key \in ChainKey
<1>1. {our_key, their_key} \in Secret
  BY DEF Secret
<1>2. /\ Append(root_key, {our_key, their_key}) \in SharedKey
      /\ Len(Append(root_key, {our_key, their_key})) = Len(root_key) + 1
  BY <1>1, AppendProperties DEF SharedKey
<1> QED  BY <1>2 DEF CreateChainKey, ChainKey

\* A new receiver chain goes in front and uses up the sender chain.
LEMMA StartReceiverChainFields ==
    ASSUME NEW r \in RatchetState, NEW reader, Header(reader), r.sender_chain # <<>>,
           NEW after, after = StartReceiverChain(r, reader)
    PROVE  /\ after \in RatchetState
           /\ after.root_key = CreateChainKey(r.root_key, r.sender_chain[1].ratchet_key,
                                              reader.ratchet_key).root_key
           /\ Len(after.root_key) = Len(r.root_key) + 1
           /\ after.sender_chain = <<>>
           /\ after.skipped_message_keys = r.skipped_message_keys
           /\ 1 \in DOMAIN after.receiver_chains
           /\ after.receiver_chains[1] =
                 [ratchet_key |-> reader.ratchet_key,
                  chain_key   |-> [key |-> after.root_key, index |-> 0]]
           /\ \A j \in DOMAIN after.receiver_chains :
                 j # 1 => /\ j - 1 \in DOMAIN r.receiver_chains
                          /\ after.receiver_chains[j] = r.receiver_chains[j - 1]
<1> DEFINE derived == CreateChainKey(r.root_key, r.sender_chain[1].ratchet_key,
                                     reader.ratchet_key)
           chain   == [ratchet_key |-> reader.ratchet_key, chain_key |-> derived.chain_key]
           old     == r.receiver_chains
           list    == InsertFront(old, chain, MaxReceiverChains)
           senders == Erase(r.sender_chain, 1)
<1>1. /\ derived.root_key \in SharedKey
      /\ Len(derived.root_key) = Len(r.root_key) + 1
      /\ derived.chain_key = [key |-> derived.root_key, index |-> 0]
      /\ derived.chain_key \in ChainKey
  BY SenderChainType, RatchetFields, CreateChainKeyFields DEF Header
<1>2. chain \in ReceiverChain
  BY <1>1 DEF ReceiverChain, Header
<1>3. /\ old \in Seq(ReceiverChain)
      /\ Len(old) \in Nat
      /\ DOMAIN old = 1..Len(old)
  BY RatchetFields
<1>4. /\ senders = <<>>
      /\ senders \in Seq(SenderChain)
      /\ Len(senders) = 0
  <2>1. r.sender_chain \in Seq(SenderChain) /\ 1 \in 1..Len(r.sender_chain)
    BY SenderChainType, RatchetFields
  <2>2. senders \in Seq(SenderChain) /\ Len(senders) = 0
    BY <2>1, SenderChainType, EraseElements
  <2> QED  BY <2>2, EmptySeq
<1> HIDE DEF derived, old, senders
<1>5. /\ list \in Seq(ReceiverChain)
      /\ Len(list) \in 1..MaxReceiverChains
      /\ Len(list) <= Len(old) + 1
      /\ list[1] = chain
      /\ \A i \in 2..Len(list) : list[i] = old[i - 1]
  BY <1>2, <1>3, InsertFrontElements
<1>6. after = [r EXCEPT !.root_key = derived.root_key,
                        !.receiver_chains = list,
                        !.sender_chain = senders]
  BY DEF StartReceiverChain, derived, old, senders
<1> HIDE DEF list
<1>7. DOMAIN list = 1..Len(list)
  BY <1>5, LenProperties
<1>8. \A j \in DOMAIN list : j # 1 => j - 1 \in DOMAIN old /\ list[j] = old[j - 1]
  BY <1>3, <1>5, <1>7
<1>9. /\ after.root_key = derived.root_key
      /\ after.sender_chain = senders
      /\ after.receiver_chains = list
      /\ after.skipped_message_keys = r.skipped_message_keys
      /\ after \in [root_key             : SharedKey,
                    sender_chain         : Seq(SenderChain),
                    receiver_chains      : Seq(ReceiverChain),
                    skipped_message_keys : Seq(SkippedMessageKey)]
  BY <1>1, <1>4, <1>5, <1>6, RatchetFields
<1>10. Len(senders) <= 1 /\ Len(list) <= MaxReceiverChains
  BY <1>4, <1>5
<1>11. after \in RatchetState
  BY <1>9, <1>10, RatchetFields DEF RatchetState
<1>12. 1 \in DOMAIN list
  BY <1>5, <1>7
<1> QED  BY <1>1, <1>4, <1>5, <1>8, <1>9, <1>11, <1>12 DEF derived, old

-----------------------------------------------------------------------------
(* What encrypt() and the pickle change *)

\* encrypt() finds, or makes, the one sender chain, and moves its index by one.
LEMMA EncryptFields ==
    ASSUME NEW r \in RatchetState, NEW new_key \in RatchetKey,
           NeedsRatchetKey(r) => r.receiver_chains # <<>>
    PROVE  LET after == AfterEncrypt(r, new_key)
               sent  == Encrypted(r, new_key)
           IN  /\ after \in RatchetState
               /\ after.sender_chain # <<>>
               /\ after.receiver_chains = r.receiver_chains
               /\ after.skipped_message_keys = r.skipped_message_keys
               /\ IF NeedsRatchetKey(r)
                  THEN /\ Len(after.root_key) = Len(r.root_key) + 1
                       /\ sent.sealed_with.key = after.root_key
                  ELSE /\ after.root_key = r.root_key
                       /\ sent.sealed_with.key = r.sender_chain[1].chain_key.key
                       /\ sent.sealed_with.index = r.sender_chain[1].chain_key.index
                       /\ sent.ratchet_key = r.sender_chain[1].ratchet_key
               /\ after.sender_chain[1].ratchet_key = sent.ratchet_key
               /\ after.sender_chain[1].chain_key.key = sent.sealed_with.key
               /\ after.sender_chain[1].chain_key.index = sent.sealed_with.index + 1
               /\ sent \in WireMessage
<1> DEFINE ready == ReadyToSend(r, new_key)
           derived == CreateChainKey(r.root_key, new_key, r.receiver_chains[1].ratchet_key)
           first == <<[ratchet_key |-> new_key, chain_key |-> derived.chain_key]>>
<1>1. /\ ready \in RatchetState
      /\ ready.sender_chain # <<>>
      /\ ready.receiver_chains = r.receiver_chains
      /\ ready.skipped_message_keys = r.skipped_message_keys
      /\ IF NeedsRatchetKey(r)
         THEN /\ Len(ready.root_key) = Len(r.root_key) + 1
              /\ ready.sender_chain[1].chain_key.key = ready.root_key
         ELSE ready = r
  <2>1. CASE ~NeedsRatchetKey(r)
    BY <2>1 DEF ReadyToSend, NeedsRatchetKey
  <2>2. CASE NeedsRatchetKey(r)
    <3>1. r.receiver_chains[1].ratchet_key \in RatchetKey
      <4>1. r.receiver_chains \in Seq(ReceiverChain) /\ r.receiver_chains # <<>>
        BY <2>2, RatchetFields
      <4>2. 1 \in DOMAIN r.receiver_chains
        BY <4>1, EmptySeq, LenProperties
      <4> QED  BY <4>2, ReceiverChainType
    <3>2. /\ derived.root_key \in SharedKey
          /\ Len(derived.root_key) = Len(r.root_key) + 1
          /\ derived.chain_key \in ChainKey
          /\ derived.chain_key = [key |-> derived.root_key, index |-> 0]
      BY <3>1, RatchetFields, CreateChainKeyFields
    <3>3. ready = [r EXCEPT !.root_key = derived.root_key, !.sender_chain = first]
      BY <2>2 DEF ReadyToSend, StartSenderChain
    <3> HIDE DEF derived
    <3>4. /\ first \in Seq(SenderChain) /\ first # <<>> /\ Len(first) = 1
          /\ first[1].chain_key = derived.chain_key
      BY <3>2 DEF SenderChain
    <3> HIDE DEF first, ready
    <3>5. /\ ready.root_key = derived.root_key
          /\ ready.sender_chain = first
          /\ ready.receiver_chains = r.receiver_chains
          /\ ready.skipped_message_keys = r.skipped_message_keys
          /\ ready \in [root_key             : SharedKey,
                        sender_chain         : Seq(SenderChain),
                        receiver_chains      : Seq(ReceiverChain),
                        skipped_message_keys : Seq(SkippedMessageKey)]
      BY <3>2, <3>3, <3>4, RatchetFields
    <3>6. ready \in RatchetState
      <4>1. Len(ready.sender_chain) = 1
        BY <3>4, <3>5
      <4>2. Len(ready.sender_chain) <= 1
        BY <4>1
      <4>3. /\ Len(ready.receiver_chains) <= MaxReceiverChains
            /\ Len(ready.skipped_message_keys) <= MaxSkippedMessageKeys
        BY <3>5 DEF RatchetState
      <4> QED  BY <3>5, <4>2, <4>3 DEF RatchetState
    <3> QED  BY <2>2, <3>2, <3>4, <3>5, <3>6
  <2> QED  BY <2>1, <2>2
<1> HIDE DEF ready
<1> DEFINE chain == ready.sender_chain[1]
           next  == [ratchet_key |-> chain.ratchet_key,
                     chain_key   |-> AdvanceChainKey(chain.chain_key)]
           senders == [ready.sender_chain EXCEPT ![1] = next]
           after == AfterEncrypt(r, new_key)
           sent  == Encrypted(r, new_key)
<1>2. /\ Len(ready.sender_chain) = 1
      /\ chain \in SenderChain
      /\ chain.ratchet_key \in RatchetKey
      /\ chain.chain_key \in ChainKey
      /\ chain.chain_key.key \in SharedKey
      /\ chain.chain_key.index \in Nat
  BY <1>1, SenderChainType
<1>3. AdvanceChainKey(chain.chain_key) =
          [key |-> chain.chain_key.key, index |-> chain.chain_key.index + 1]
  BY <1>2, AdvanceChainKeyFields
<1>4. /\ next \in SenderChain
      /\ next.chain_key.key = chain.chain_key.key
      /\ next.chain_key.index = chain.chain_key.index + 1
  BY <1>2, <1>3 DEF SenderChain, ChainKey
<1>5. /\ senders \in Seq(SenderChain)
      /\ Len(senders) = 1
      /\ senders # <<>>
      /\ senders[1] = next
  <2>1. ready.sender_chain \in Seq(SenderChain) /\ 1 \in 1..Len(ready.sender_chain)
    BY <1>1, <1>2, RatchetFields
  <2> HIDE DEF next
  <2>2. senders \in Seq(SenderChain) /\ Len(senders) = 1 /\ senders[1] = next
    BY <1>2, <1>4, <2>1, ExceptSeq
  <2> QED  BY <2>2, EmptySeq
<1>6. after = [ready EXCEPT !.sender_chain = senders]
  <2>1. [chain EXCEPT !.chain_key = AdvanceChainKey(chain.chain_key)] = next
    BY <1>2 DEF SenderChain
  <2>2. [ready.sender_chain EXCEPT ![1].chain_key = AdvanceChainKey(@)] = senders
    BY <2>1
  <2> QED  BY <2>2 DEF AfterEncrypt, ready
<1>7. /\ sent = [ratchet_key |-> chain.ratchet_key,
                 counter     |-> chain.chain_key.index,
                 sealed_with |-> [key |-> chain.chain_key.key, index |-> chain.chain_key.index]]
      /\ sent \in WireMessage
      /\ sent.sealed_with.key = chain.chain_key.key
      /\ sent.sealed_with.index = chain.chain_key.index
      /\ sent.ratchet_key = chain.ratchet_key
  BY <1>2 DEF Encrypted, CreateMessageKeys, ready, WireMessage, MessageKey
<1> HIDE DEF after, sent, senders
<1>8. /\ after.root_key = ready.root_key
      /\ after.sender_chain = senders
      /\ after.receiver_chains = ready.receiver_chains
      /\ after.skipped_message_keys = ready.skipped_message_keys
      /\ after \in [root_key             : SharedKey,
                    sender_chain         : Seq(SenderChain),
                    receiver_chains      : Seq(ReceiverChain),
                    skipped_message_keys : Seq(SkippedMessageKey)]
  BY <1>1, <1>5, <1>6, RatchetFields
<1>9. after \in RatchetState
  BY <1>1, <1>5, <1>8, RatchetFields DEF RatchetState
<1>10. /\ after.sender_chain[1].chain_key.key = sent.sealed_with.key
       /\ after.sender_chain[1].chain_key.index = sent.sealed_with.index + 1
       /\ after.sender_chain[1].ratchet_key = sent.ratchet_key
  BY <1>4, <1>5, <1>7, <1>8
<1> HIDE DEF chain
<1> QED  BY <1>1, <1>5, <1>7, <1>8, <1>9, <1>10 DEF after, sent, chain

\* What a pickle holds is the ratchet: no list of it overflows.
LEMMA UnpickleIsIdentity ==
    ASSUME NEW r \in RatchetState
    PROVE  Unpickle(r) = r
<1>1. /\ UnpickleList(r.sender_chain, 1) = r.sender_chain
      /\ UnpickleList(r.receiver_chains, MaxReceiverChains) = r.receiver_chains
      /\ UnpickleList(r.skipped_message_keys, MaxSkippedMessageKeys) = r.skipped_message_keys
  BY UnpickleFits DEF RatchetState
<1>2. r = [root_key             |-> r.root_key,
           sender_chain         |-> r.sender_chain,
           receiver_chains      |-> r.receiver_chains,
           skipped_message_keys |-> r.skipped_message_keys]
  BY RatchetFields
<1> QED  BY <1>1, <1>2 DEF Unpickle

-----------------------------------------------------------------------------
(* Why a key that opened a message is gone *)

\* A chain started for a new ratchet key shares no key with what was held, and
\* no key that was gone comes back with it.
LEMMA StartReceiverChainKeys ==
    ASSUME NEW r \in RatchetState, KeysApart(r), NEW reader, Header(reader),
           r.sender_chain # <<>>,
           NEW after, after = StartReceiverChain(r, reader)
    PROVE  /\ KeysApart(after)
           /\ \A message_key : Gone(r, message_key) => Gone(after, message_key)
<1>0. /\ after \in RatchetState
      /\ Len(after.root_key) = Len(r.root_key) + 1
      /\ after.skipped_message_keys = r.skipped_message_keys
      /\ 1 \in DOMAIN after.receiver_chains
      /\ after.receiver_chains[1] =
            [ratchet_key |-> reader.ratchet_key,
             chain_key   |-> [key |-> after.root_key, index |-> 0]]
      /\ \A j \in DOMAIN after.receiver_chains :
            j # 1 => /\ j - 1 \in DOMAIN r.receiver_chains
                     /\ after.receiver_chains[j] = r.receiver_chains[j - 1]
  BY StartReceiverChainFields
<1>1. /\ after \in RatchetState
      /\ Len(after.root_key) = Len(r.root_key) + 1
      /\ after.skipped_message_keys = r.skipped_message_keys
      /\ 1 \in DOMAIN after.receiver_chains
      /\ after.receiver_chains[1].chain_key.key = after.root_key
      /\ after.receiver_chains[1].chain_key.index = 0
      /\ \A j \in DOMAIN after.receiver_chains :
            j # 1 => /\ j - 1 \in DOMAIN r.receiver_chains
                     /\ after.receiver_chains[j] = r.receiver_chains[j - 1]
  BY <1>0
<1>2. Len(r.root_key) \in Nat /\ DOMAIN after.receiver_chains \subseteq Int
  BY <1>1, RatchetFields
<1>3. \A i \in DOMAIN r.receiver_chains : Len(r.receiver_chains[i].chain_key.key) \in Nat
  BY ReceiverChainType
<1>4. \A k \in DOMAIN r.skipped_message_keys :
         Len(r.skipped_message_keys[k].message_key.key) \in Nat
  BY SkippedMessageKeyType
<1>5. KeysApart(after)
  <2>1. ASSUME NEW i \in DOMAIN after.receiver_chains
        PROVE  Len(after.receiver_chains[i].chain_key.key) <= Len(after.root_key)
    <3>1. CASE i = 1
      BY <1>1, <1>2, <3>1
    <3>2. CASE i # 1
      <4>1. /\ i - 1 \in DOMAIN r.receiver_chains
            /\ after.receiver_chains[i] = r.receiver_chains[i - 1]
        BY <1>1, <3>2
      <4>2. Len(r.receiver_chains[i - 1].chain_key.key) <= Len(r.root_key)
        BY <4>1 DEF KeysApart
      <4>3. Len(r.receiver_chains[i - 1].chain_key.key) \in Nat
        BY <1>3, <4>1
      <4> QED  BY <1>1, <1>2, <4>1, <4>2, <4>3
    <3> QED  BY <3>1, <3>2
  <2>2. ASSUME NEW i \in DOMAIN after.receiver_chains,
               NEW j \in DOMAIN after.receiver_chains, i < j
        PROVE  Len(after.receiver_chains[i].chain_key.key)
                   > Len(after.receiver_chains[j].chain_key.key)
    <3>1. i \in Int /\ j \in Int /\ i >= 1 /\ j # 1
      BY <1>1, <2>2, RatchetFields
    <3>2. j - 1 \in DOMAIN r.receiver_chains
          /\ after.receiver_chains[j] = r.receiver_chains[j - 1]
      BY <1>1, <3>1
    <3>3. CASE i = 1
      <4>1. /\ Len(r.receiver_chains[j - 1].chain_key.key) <= Len(r.root_key)
            /\ Len(r.receiver_chains[j - 1].chain_key.key) \in Nat
        BY <1>3, <3>2 DEF KeysApart
      <4>2. Len(after.receiver_chains[j].chain_key.key) <= Len(r.root_key)
        BY <3>2, <4>1
      <4>3. Len(after.receiver_chains[j].chain_key.key) \in Nat
        BY <3>2, <4>1
      <4>4. after.receiver_chains[i].chain_key.key = after.root_key
        BY <1>1, <3>3
      <4>5. Len(after.receiver_chains[i].chain_key.key) = Len(r.root_key) + 1
        BY <1>1, <4>4
      <4> HIDE <1>1
      <4> QED  BY <1>2, <4>2, <4>3, <4>5
    <3>4. CASE i # 1
      <4>1. i - 1 \in DOMAIN r.receiver_chains
            /\ after.receiver_chains[i] = r.receiver_chains[i - 1]
        BY <1>1, <3>4
      <4>2. i - 1 < j - 1
        BY <2>2, <3>1
      <4> QED  BY <3>2, <4>1, <4>2 DEF KeysApart
    <3> QED  BY <3>3, <3>4
  <2>3. \A k \in DOMAIN after.skipped_message_keys :
           Len(after.skipped_message_keys[k].message_key.key) <= Len(after.root_key)
    BY <1>1, <1>2, <1>4 DEF KeysApart
  <2>4. ASSUME NEW k \in DOMAIN after.skipped_message_keys,
               NEW i \in DOMAIN after.receiver_chains,
               after.skipped_message_keys[k].message_key.key
                   = after.receiver_chains[i].chain_key.key
        PROVE  after.skipped_message_keys[k].message_key.index
                   < after.receiver_chains[i].chain_key.index
    <3>1. i # 1
      BY <1>1, <1>2, <1>4, <2>4 DEF KeysApart
    <3> QED  BY <1>1, <2>4, <3>1 DEF KeysApart
  <2>5. \A k, l \in DOMAIN after.skipped_message_keys :
           after.skipped_message_keys[k].message_key
             = after.skipped_message_keys[l].message_key => k = l
    BY <1>1 DEF KeysApart
  <2> QED  BY <2>1, <2>2, <2>3, <2>4, <2>5 DEF KeysApart
<1>6. ASSUME NEW message_key, Gone(r, message_key)
      PROVE  Gone(after, message_key)
  <2>1. message_key \in MessageKey /\ Len(message_key.key) \in Nat
    BY <1>6, LenProperties DEF Gone, MessageKey, SharedKey
  <2>2. Len(message_key.key) <= Len(r.root_key)
    BY <1>6 DEF Gone
  <2>3. Len(message_key.key) < Len(after.root_key)
    BY <1>1, <1>2, <2>1, <2>2
  <2>4. \A i \in DOMAIN after.receiver_chains :
           after.receiver_chains[i].chain_key.key = message_key.key
               => after.receiver_chains[i].chain_key.index > message_key.index
    BY <1>1, <1>6, <2>1, <2>3 DEF Gone
  <2> QED  BY <1>1, <1>6, <2>1, <2>2, <2>3, <2>4 DEF Gone
<1> QED  BY <1>5, <1>6

\* Advancing a chain through a message keeps the keys apart and brings none
\* back, and the key of the message is gone.
LEMMA AdvanceReceiverChainKeys ==
    ASSUME NEW r \in RatchetState, KeysApart(r), NEW i \in DOMAIN r.receiver_chains,
           NEW counter \in Nat, counter >= r.receiver_chains[i].chain_key.index,
           NEW after, after = AdvanceReceiverChain(r, i, counter)
    PROVE  /\ KeysApart(after)
           /\ \A message_key : Gone(r, message_key) => Gone(after, message_key)
           /\ Gone(after, [key |-> r.receiver_chains[i].chain_key.key, index |-> counter])
<1> DEFINE d    == counter - r.receiver_chains[i].chain_key.index
           name == r.receiver_chains[i].chain_key.key
           from == r.receiver_chains[i].chain_key.index
           old  == r.skipped_message_keys
           new  == after.skipped_message_keys
<1>0. /\ after \in RatchetState
      /\ after.root_key = r.root_key
      /\ DOMAIN after.receiver_chains = DOMAIN r.receiver_chains
      /\ \A j \in DOMAIN r.receiver_chains :
            j # i => after.receiver_chains[j] = r.receiver_chains[j]
      /\ after.receiver_chains[i] =
            [ratchet_key |-> r.receiver_chains[i].ratchet_key,
             chain_key   |-> [key |-> name, index |-> counter + 1]]
      /\ \A j \in DOMAIN new :
            IF j <= d
            THEN new[j].message_key = [key |-> name, index |-> counter - j]
            ELSE j - d \in DOMAIN old /\ new[j] = old[j - d]
  BY AdvanceReceiverChainFields, SMTT(30)
<1>1. /\ name \in SharedKey /\ Len(name) \in Nat
      /\ from \in Nat
      /\ d \in Nat
      /\ DOMAIN r.receiver_chains \subseteq Nat
  BY ReceiverChainType, RatchetFields
<1>1a. counter \in Int /\ from \in Int /\ from <= counter
  BY <1>1
<1>2. \A j \in DOMAIN r.receiver_chains :
         /\ r.receiver_chains[j].chain_key.key \in SharedKey
         /\ r.receiver_chains[j].chain_key.index \in Nat
         /\ Len(r.receiver_chains[j].chain_key.key) \in Nat
  BY ReceiverChainType
<1>3. \A k \in DOMAIN old :
         /\ old[k].message_key \in MessageKey
         /\ old[k].message_key.index \in Nat
  BY SkippedMessageKeyType
<1>4. DOMAIN new \subseteq Nat \ {0}
  BY <1>0, RatchetFields
<1>5. \A j \in DOMAIN r.receiver_chains :
         /\ after.receiver_chains[j].chain_key.key = r.receiver_chains[j].chain_key.key
         /\ after.receiver_chains[j].chain_key.index =
               IF j = i THEN counter + 1 ELSE r.receiver_chains[j].chain_key.index
  BY <1>0
<1>6. \A j \in DOMAIN r.receiver_chains : r.receiver_chains[j].chain_key.key = name => j = i
  <2> SUFFICES ASSUME NEW j \in DOMAIN r.receiver_chains,
                      r.receiver_chains[j].chain_key.key = name, j # i
               PROVE  FALSE
    OBVIOUS
  <2>1. j < i \/ i < j
    BY <1>1
  <2>2. Len(name) > Len(name)
    BY <2>1 DEF KeysApart
  <2> QED  BY <1>1, <2>2
\* Where a new entry comes from, and what the old invariant says of it.
<1>7. ASSUME NEW k \in DOMAIN new
      PROVE  /\ new[k].message_key.index \in Int
             /\ IF k <= d
                THEN /\ new[k].message_key.key = name
                     /\ new[k].message_key.index = counter - k
                     /\ new[k].message_key.index >= from
                     /\ new[k].message_key.index < counter
                ELSE /\ k - d \in DOMAIN old
                     /\ new[k].message_key = old[k - d].message_key
                     /\ new[k].message_key.key = name => new[k].message_key.index < from
  <2>1. CASE k <= d
    <3>1. counter - k \in Int /\ counter - k >= from /\ counter - k < counter
      BY <1>1, <1>4, <2>1
    <3>2. new[k].message_key = [key |-> name, index |-> counter - k]
      BY <1>0, <2>1
    <3>3. new[k].message_key.key = name /\ new[k].message_key.index = counter - k
      BY <3>2
    <3> QED  BY <2>1, <3>1, <3>3
  <2>2. CASE ~(k <= d)
    <3>1. k - d \in DOMAIN old /\ new[k] = old[k - d]
      BY <1>0, <2>2
    <3>2. old[k - d].message_key.key = name => old[k - d].message_key.index < from
      BY <3>1 DEF KeysApart
    <3>3. new[k].message_key = old[k - d].message_key
      BY <3>1
    <3>4. new[k].message_key.index \in Int
      <4>1. old[k - d].message_key.index \in Nat
        BY <1>3, <3>1, Zenon
      <4>2. new[k].message_key.index \in Nat
        BY <3>3, <4>1, Zenon
      <4> QED  BY <4>2
    <3>5. new[k].message_key.key = name => new[k].message_key.index < from
      BY <3>2, <3>3
    <3>6. k - d \in DOMAIN old
      BY <3>1
    <3> QED  BY <2>2, <3>3, <3>4, <3>5, <3>6, Zenon
  <2> QED  BY <2>1, <2>2
<1>8. KeysApart(after)
  <2>1. \A j \in DOMAIN after.receiver_chains :
           Len(after.receiver_chains[j].chain_key.key) <= Len(after.root_key)
    BY <1>0, <1>5 DEF KeysApart
  <2>2. \A j, l \in DOMAIN after.receiver_chains :
           j < l => Len(after.receiver_chains[j].chain_key.key)
                        > Len(after.receiver_chains[l].chain_key.key)
    BY <1>0, <1>5 DEF KeysApart
  <2>3. \A k \in DOMAIN new : Len(new[k].message_key.key) <= Len(after.root_key)
    BY <1>0, <1>7 DEF KeysApart
  <2>4. ASSUME NEW k \in DOMAIN new, NEW j \in DOMAIN after.receiver_chains,
               new[k].message_key.key = after.receiver_chains[j].chain_key.key
        PROVE  new[k].message_key.index < after.receiver_chains[j].chain_key.index
    <3>0. j \in DOMAIN r.receiver_chains
          /\ new[k].message_key.key = r.receiver_chains[j].chain_key.key
      BY <1>0, <1>5, <2>4
    <3>1. CASE j = i
      <4>1. after.receiver_chains[j].chain_key.index = counter + 1
        BY <1>5, <3>1
      <4>2. new[k].message_key.key = name
        BY <3>0, <3>1
      <4>3. new[k].message_key.index \in Int /\ new[k].message_key.index <= counter
        <5> DEFINE index == new[k].message_key.index
        <5>1. index \in Int
          BY <1>7
        <5>2. CASE k <= d
          <6>1. index < counter
            BY <1>7, <5>2
          <6> QED  BY <1>1a, <5>1, <6>1
        <5>3. CASE ~(k <= d)
          <6>1. index < from
            BY <1>7, <4>2, <5>3
          <6> QED  BY <1>1a, <5>1, <6>1
        <5> QED  BY <5>2, <5>3
      <4> QED  BY <4>1, <4>3
    <3>2. CASE j # i
      <4>1. new[k].message_key.key # name
        BY <1>6, <3>0, <3>2
      <4>2. k - d \in DOMAIN old /\ new[k].message_key = old[k - d].message_key
        BY <1>7, <4>1
      <4>3. old[k - d].message_key.index < r.receiver_chains[j].chain_key.index
        BY <3>0, <4>2 DEF KeysApart
      <4> QED  BY <1>5, <3>0, <3>2, <4>2, <4>3
    <3> QED  BY <3>1, <3>2
  <2>5. ASSUME NEW k \in DOMAIN new, NEW l \in DOMAIN new,
               new[k].message_key = new[l].message_key
        PROVE  k = l
    <3>0. k \in Int /\ l \in Int /\ d \in Int
      BY <1>1, <1>4
    <3>1. CASE k <= d /\ l <= d
      <4>1. counter - k = counter - l
        BY <1>7, <2>5, <3>1
      <4> QED  BY <3>0, <4>1
    <3>2. CASE ~(k <= d) /\ ~(l <= d)
      <4>1. /\ k - d \in DOMAIN old /\ l - d \in DOMAIN old
            /\ old[k - d].message_key = old[l - d].message_key
        BY <1>7, <2>5, <3>2
      <4>2. k - d = l - d
        BY <4>1 DEF KeysApart
      <4> QED  BY <3>0, <4>2
    <3>3. CASE k <= d /\ ~(l <= d)
      BY <1>1, <1>7, <2>5, <3>3
    <3>4. CASE ~(k <= d) /\ l <= d
      BY <1>1, <1>7, <2>5, <3>4
    <3> QED  BY <3>1, <3>2, <3>3, <3>4
  <2> QED  BY <2>1, <2>2, <2>3, <2>4, <2>5 DEF KeysApart
<1>9. ASSUME NEW message_key, Gone(r, message_key)
      PROVE  Gone(after, message_key)
  <2>1. message_key \in MessageKey /\ message_key.index \in Nat
    BY <1>9 DEF Gone, MessageKey
  <2>2. \A j \in DOMAIN after.receiver_chains :
           after.receiver_chains[j].chain_key.key = message_key.key
               => after.receiver_chains[j].chain_key.index > message_key.index
    <3> SUFFICES ASSUME NEW j \in DOMAIN r.receiver_chains,
                        r.receiver_chains[j].chain_key.key = message_key.key
                 PROVE  after.receiver_chains[j].chain_key.index > message_key.index
      BY <1>0, <1>5
    <3>1. r.receiver_chains[j].chain_key.index > message_key.index
      BY <1>9 DEF Gone
    <3> QED  BY <1>1, <1>2, <1>5, <2>1, <3>1
  <2>3. ASSUME NEW k \in DOMAIN new, new[k].message_key = message_key
        PROVE  FALSE
    <3>1. CASE k <= d
      <4>1. name = message_key.key /\ message_key.index >= from
        BY <1>1, <1>7, <2>3, <3>1
      <4>2. from > message_key.index
        BY <1>9, <4>1 DEF Gone
      <4> QED  BY <1>1, <2>1, <4>1, <4>2
    <3>2. CASE ~(k <= d)
      BY <1>7, <1>9, <2>3, <3>2 DEF Gone
    <3> QED  BY <3>1, <3>2
  <2> QED  BY <1>0, <1>9, <2>2, <2>3 DEF Gone
<1>10. Gone(after, [key |-> name, index |-> counter])
  <2> DEFINE mk == [key |-> name, index |-> counter]
  <2>1. mk \in MessageKey /\ mk.key = name /\ mk.index = counter
    BY <1>1 DEF MessageKey
  <2>2. Len(name) <= Len(after.root_key)
    BY <1>0 DEF KeysApart
  <2>3. \A j \in DOMAIN after.receiver_chains :
           after.receiver_chains[j].chain_key.key = name
               => after.receiver_chains[j].chain_key.index > counter
    BY <1>0, <1>5, <1>6
  <2>4. ASSUME NEW k \in DOMAIN new, new[k].message_key = mk
        PROVE  FALSE
    <3>1. new[k].message_key.key = name /\ new[k].message_key.index = counter
      BY <2>1, <2>4
    <3>2. CASE k <= d
      BY <1>7, <3>1, <3>2
    <3>3. CASE ~(k <= d)
      <4>1. new[k].message_key.index < from
        BY <1>7, <3>1, <3>3
      <4>2. counter < from
        BY <3>1, <4>1
      <4> HIDE DEF from
      <4> QED  BY <1>1a, <4>2
    <3> QED  BY <3>2, <3>3
  <2> QED  BY <2>1, <2>2, <2>3, <2>4 DEF Gone
<1> QED  BY <1>8, <1>9, <1>10

\* Erasing a kept key keeps the keys apart and brings none back, and the key of
\* the message is gone.
LEMMA UseSkippedKeyKeys ==
    ASSUME NEW r \in RatchetState, KeysApart(r), NEW reader, HasSkipped(r, reader),
           NEW after, after = UseSkippedKey(r, reader)
    PROVE  /\ KeysApart(after)
           /\ \A message_key : Gone(r, message_key) => Gone(after, message_key)
           /\ Gone(after, reader.sealed_with)
<1> DEFINE old == r.skipped_message_keys
           new == after.skipped_message_keys
           p   == SkippedFor(r, reader)
           from(k) == IF k < p THEN k ELSE k + 1
<1>1. /\ after \in RatchetState
      /\ after.root_key = r.root_key
      /\ after.receiver_chains = r.receiver_chains
      /\ \A k \in DOMAIN new : from(k) \in DOMAIN old /\ new[k] = old[from(k)]
  BY UseSkippedKeyFields
<1>2. DOMAIN new \subseteq Int /\ p \in Int /\ p \in DOMAIN old
  BY <1>1, RatchetFields, SkippedForFound
<1>3. \A k, l \in DOMAIN new : from(k) = from(l) => k = l
  BY <1>2
<1>4. \A k \in DOMAIN new : from(k) # p
  BY <1>2
<1>5. /\ reader.sealed_with = old[p].message_key
      /\ old[p].message_key \in MessageKey
  BY <1>2, SkippedForFound, SkippedMessageKeyType DEF Opens, VerifyMac
<1> HIDE DEF from, p
<1>6. KeysApart(after)
  <2>1. \A k, l \in DOMAIN new : new[k].message_key = new[l].message_key => k = l
    BY <1>1, <1>3 DEF KeysApart
  <2> QED  BY <1>1, <2>1 DEF KeysApart
<1>7. \A message_key : Gone(r, message_key) => Gone(after, message_key)
  BY <1>1 DEF Gone
<1>8. Gone(after, reader.sealed_with)
  <2>1. \A k \in DOMAIN new : new[k].message_key # reader.sealed_with
    BY <1>1, <1>2, <1>4, <1>5 DEF KeysApart
  <2>2. Len(reader.sealed_with.key) <= Len(r.root_key)
    BY <1>2, <1>5 DEF KeysApart
  <2>3. \A i \in DOMAIN r.receiver_chains :
           r.receiver_chains[i].chain_key.key = reader.sealed_with.key
               => r.receiver_chains[i].chain_key.index > reader.sealed_with.index
    <3> SUFFICES ASSUME NEW i \in DOMAIN r.receiver_chains,
                        r.receiver_chains[i].chain_key.key = reader.sealed_with.key
                 PROVE  r.receiver_chains[i].chain_key.index > reader.sealed_with.index
      OBVIOUS
    <3>1. reader.sealed_with.index < r.receiver_chains[i].chain_key.index
      BY <1>2, <1>5 DEF KeysApart
    <3>2. /\ reader.sealed_with.index \in Nat
          /\ r.receiver_chains[i].chain_key.index \in Nat
      BY <1>2, <1>5, SkippedMessageKeyType, ReceiverChainType
    <3> QED  BY <3>1, <3>2
  <2> QED  BY <1>1, <1>5, <2>1, <2>2, <2>3 DEF Gone
<1> QED  BY <1>6, <1>7, <1>8

-----------------------------------------------------------------------------
(* Whose turn it is *)

\* A root key one secret longer belongs to the other turn.
LEMMA TurnsAlternate ==
    ASSUME NEW key \in SharedKey, NEW next \in SharedKey, Len(next) = Len(key) + 1,
           NEW t \in {0, 1}
    PROVE  OnTurn(next, t) <=> ~OnTurn(key, t)
<1>1. \A n \in Nat : n % 2 \in {0, 1} /\ (n + 1) % 2 = 1 - (n % 2)
  BY Z3
<1>2. Len(key) \in Nat
  BY LenProperties DEF SharedKey
<1> QED  BY <1>1, <1>2 DEF OnTurn

\* A chain started for a new ratchet key belongs to the other end, and hands the
\* turn to derive the next chain to this one.
LEMMA StartReceiverChainTurns ==
    ASSUME NEW r \in RatchetState, NEW t \in {0, 1}, Turns(r, t),
           NEW reader, Header(reader), r.sender_chain # <<>>,
           NEW after, after = StartReceiverChain(r, reader)
    PROVE  /\ Turns(after, t)
           /\ OnTurn(after.root_key, t)
<1>1. /\ after \in RatchetState
      /\ Len(after.root_key) = Len(r.root_key) + 1
      /\ after.sender_chain = <<>>
      /\ after.skipped_message_keys = r.skipped_message_keys
      /\ 1 \in DOMAIN after.receiver_chains
      /\ after.receiver_chains[1] =
            [ratchet_key |-> reader.ratchet_key,
             chain_key   |-> [key |-> after.root_key, index |-> 0]]
      /\ \A j \in DOMAIN after.receiver_chains :
            j # 1 => /\ j - 1 \in DOMAIN r.receiver_chains
                     /\ after.receiver_chains[j] = r.receiver_chains[j - 1]
  BY StartReceiverChainFields
<1>2. OnTurn(after.root_key, t)
  <2>1. ~OnTurn(r.root_key, t)
    BY DEF Turns
  <2>2. r.root_key \in SharedKey /\ after.root_key \in SharedKey
    BY <1>1, RatchetFields
  <2> QED  BY <1>1, <2>1, <2>2, TurnsAlternate
<1>3. \A i \in DOMAIN after.receiver_chains :
         OnTurn(after.receiver_chains[i].chain_key.key, t)
  <2>1. after.receiver_chains[1].chain_key.key = after.root_key
    BY <1>1
  <2> QED  BY <1>1, <1>2, <2>1 DEF Turns
<1>4. after.receiver_chains # <<>>
  BY <1>1
<1> QED  BY <1>1, <1>2, <1>3, <1>4 DEF Turns

\* Advancing a chain changes nobody's turn.
LEMMA AdvanceReceiverChainTurns ==
    ASSUME NEW r \in RatchetState, NEW t \in {0, 1}, Turns(r, t),
           NEW i \in DOMAIN r.receiver_chains,
           NEW counter \in Nat, counter >= r.receiver_chains[i].chain_key.index,
           NEW after, after = AdvanceReceiverChain(r, i, counter)
    PROVE  /\ Turns(after, t)
           /\ after \in RatchetState
           /\ after.root_key = r.root_key
           /\ after.sender_chain = r.sender_chain
<1> DEFINE d    == counter - r.receiver_chains[i].chain_key.index
           name == r.receiver_chains[i].chain_key.key
<1>1. /\ after \in RatchetState
      /\ after.root_key = r.root_key
      /\ after.sender_chain = r.sender_chain
      /\ DOMAIN after.receiver_chains = DOMAIN r.receiver_chains
      /\ \A j \in DOMAIN r.receiver_chains :
            j # i => after.receiver_chains[j] = r.receiver_chains[j]
      /\ after.receiver_chains[i] =
            [ratchet_key |-> r.receiver_chains[i].ratchet_key,
             chain_key   |-> [key |-> name, index |-> counter + 1]]
      /\ \A j \in DOMAIN after.skipped_message_keys :
            IF j <= d
            THEN after.skipped_message_keys[j].message_key = [key |-> name, index |-> counter - j]
            ELSE /\ j - d \in DOMAIN r.skipped_message_keys
                 /\ after.skipped_message_keys[j] = r.skipped_message_keys[j - d]
  BY AdvanceReceiverChainFields
<1>2. \A j \in DOMAIN r.receiver_chains :
         after.receiver_chains[j].chain_key.key = r.receiver_chains[j].chain_key.key
  BY <1>1
<1>3. \A j \in DOMAIN after.skipped_message_keys :
         OnTurn(after.skipped_message_keys[j].message_key.key, t)
  <2> TAKE j \in DOMAIN after.skipped_message_keys
  <2>1. CASE j <= d
    <3>1. after.skipped_message_keys[j].message_key = [key |-> name, index |-> counter - j]
      BY <1>1, <2>1
    <3>2. after.skipped_message_keys[j].message_key.key = name
      BY <3>1
    <3> QED  BY <3>2 DEF Turns
  <2>2. CASE ~(j <= d)
    <3>1. /\ j - d \in DOMAIN r.skipped_message_keys
          /\ after.skipped_message_keys[j] = r.skipped_message_keys[j - d]
      BY <1>1, <2>2
    <3> QED  BY <3>1 DEF Turns
  <2> QED  BY <2>1, <2>2
<1>4. r.receiver_chains # <<>> => after.receiver_chains # <<>>
  BY <1>1
<1> QED  BY <1>1, <1>2, <1>3, <1>4 DEF Turns

-----------------------------------------------------------------------------
(* decrypt(), whole *)

\* A message that is opened leaves the ratchet well formed, brings back no key
\* that was gone, and its own key is gone; it was sealed on a receiving turn.
LEMMA DecryptOpens ==
    ASSUME NEW r \in RatchetState, KeysApart(r), NEW t \in {0, 1}, Turns(r, t),
           NEW reader, Header(reader), CanDecrypt(r, reader),
           NEW after, after = AfterDecrypt(r, reader)
    PROVE  /\ after \in RatchetState
           /\ KeysApart(after)
           /\ Turns(after, t)
           /\ \A message_key : Gone(r, message_key) => Gone(after, message_key)
           /\ Gone(after, reader.sealed_with)
           /\ OnTurn(reader.sealed_with.key, t)
           /\ reader.sealed_with.index = reader.counter
           /\ \/ after.root_key = r.root_key /\ after.sender_chain = r.sender_chain
              \/ Len(after.root_key) = Len(r.root_key) + 1 /\ after.sender_chain = <<>>
<1>0. reader.ratchet_key \in RatchetKey /\ reader.counter \in Nat
  BY DEF Header
<1>1. CASE ~HasChain(r, reader)
  <2> DEFINE mid  == StartReceiverChain(r, reader)
             name == mid.root_key
  <2>1. VerifyForNewChain(r, reader)
    BY <1>1 DEF CanDecrypt
  <2>2. r.sender_chain # <<>>
    BY <2>1 DEF VerifyForNewChain
  <2>3. /\ mid \in RatchetState
        /\ Len(mid.root_key) = Len(r.root_key) + 1
        /\ mid.sender_chain = <<>>
        /\ mid.root_key = CreateChainKey(r.root_key, r.sender_chain[1].ratchet_key,
                                         reader.ratchet_key).root_key
        /\ 1 \in DOMAIN mid.receiver_chains
        /\ mid.receiver_chains[1] =
              [ratchet_key |-> reader.ratchet_key,
               chain_key   |-> [key |-> mid.root_key, index |-> 0]]
    BY <2>2, StartReceiverChainFields
  <2>4. /\ KeysApart(mid)
        /\ \A message_key : Gone(r, message_key) => Gone(mid, message_key)
        /\ Turns(mid, t)
        /\ OnTurn(name, t)
    BY <2>2, StartReceiverChainKeys, StartReceiverChainTurns
  <2>5. reader.sealed_with = [key |-> name, index |-> reader.counter]
    <3> DEFINE derived == CreateChainKey(r.root_key, r.sender_chain[1].ratchet_key,
                                         reader.ratchet_key)
    <3>1. derived.chain_key = [key |-> name, index |-> 0]
      BY <1>0, <2>2, <2>3, SenderChainType, RatchetFields, CreateChainKeyFields
    <3>2. VerifyForExistingChain(derived.chain_key, reader)
      BY <2>1 DEF VerifyForNewChain
    <3> HIDE DEF derived, name
    <3>3. [derived.chain_key EXCEPT !.index = reader.counter] =
              [key |-> name, index |-> reader.counter]
      BY <3>1
    <3> QED  BY <3>2, <3>3 DEF VerifyForExistingChain, VerifyMac, CreateMessageKeys
  <2> HIDE DEF mid
  <2>6. /\ mid.receiver_chains[1].chain_key.key = name
        /\ mid.receiver_chains[1].chain_key.index = 0
    BY <2>3
  <2>7. after = AdvanceReceiverChain(mid, 1, reader.counter)
    BY <1>1 DEF AfterDecrypt, mid
  <2>8. reader.counter >= mid.receiver_chains[1].chain_key.index
    BY <1>0, <2>6
  <2>9. /\ after \in RatchetState
        /\ after.root_key = mid.root_key
        /\ after.sender_chain = mid.sender_chain
    BY <1>0, <2>3, <2>4, <2>7, <2>8, AdvanceReceiverChainTurns
  <2>10. /\ KeysApart(after)
         /\ \A message_key : Gone(mid, message_key) => Gone(after, message_key)
         /\ Gone(after, [key |-> mid.receiver_chains[1].chain_key.key,
                         index |-> reader.counter])
    BY <1>0, <2>3, <2>4, <2>7, <2>8, AdvanceReceiverChainKeys
  <2>11. Turns(after, t)
    BY <1>0, <2>3, <2>4, <2>7, <2>8, AdvanceReceiverChainTurns
  <2>12. reader.sealed_with.key = name /\ reader.sealed_with.index = reader.counter
    BY <2>5
  <2> QED  BY <2>3, <2>4, <2>5, <2>6, <2>9, <2>10, <2>11, <2>12
<1>2. CASE HasChain(r, reader) /\ IsLate(r, reader)
  <2>1. HasSkipped(r, reader)
    BY <1>2 DEF CanDecrypt
  <2>2. after = UseSkippedKey(r, reader)
    BY <1>2 DEF AfterDecrypt
  <2>3. /\ after \in RatchetState
        /\ after.root_key = r.root_key
        /\ after.sender_chain = r.sender_chain
        /\ after.receiver_chains = r.receiver_chains
        /\ \A j \in DOMAIN after.skipped_message_keys :
              \E k \in DOMAIN r.skipped_message_keys :
                 after.skipped_message_keys[j] = r.skipped_message_keys[k]
    BY <2>1, <2>2, UseSkippedKeyFields
  <2>4. /\ KeysApart(after)
        /\ \A message_key : Gone(r, message_key) => Gone(after, message_key)
        /\ Gone(after, reader.sealed_with)
    BY <2>1, <2>2, UseSkippedKeyKeys
  <2>5. Turns(after, t)
    BY <2>3 DEF Turns
  <2>6. /\ OnTurn(reader.sealed_with.key, t)
        /\ reader.sealed_with.index = reader.counter
    BY <2>1, SkippedForFound DEF Opens, VerifyMac, Turns
  <2> QED  BY <2>3, <2>4, <2>5, <2>6
<1>3. CASE HasChain(r, reader) /\ ~IsLate(r, reader)
  <2> DEFINE i     == ChainFor(r, reader)
             chain == r.receiver_chains[i].chain_key
  <2>1. i \in DOMAIN r.receiver_chains
    BY <1>3, ChainForFound
  <2>2. chain \in ChainKey /\ chain.index \in Nat /\ chain.key \in SharedKey
    BY <2>1, ReceiverChainType
  <2>3. VerifyForExistingChain(chain, reader)
    BY <1>3 DEF CanDecrypt
  <2>4. reader.counter >= chain.index
    BY <2>3 DEF VerifyForExistingChain
  <2>5. reader.sealed_with = [key |-> chain.key, index |-> reader.counter]
    <3> HIDE DEF chain
    <3>1. [chain EXCEPT !.index = reader.counter] =
              [key |-> chain.key, index |-> reader.counter]
      BY <2>2 DEF ChainKey
    <3> QED  BY <2>3, <3>1 DEF VerifyForExistingChain, VerifyMac, CreateMessageKeys
  <2>6. after = AdvanceReceiverChain(r, i, reader.counter)
    BY <1>3 DEF AfterDecrypt
  <2> HIDE DEF i
  <2>7. /\ after \in RatchetState
        /\ after.root_key = r.root_key
        /\ after.sender_chain = r.sender_chain
    BY <1>0, <2>1, <2>4, <2>6, AdvanceReceiverChainTurns
  <2>8. /\ KeysApart(after)
        /\ \A message_key : Gone(r, message_key) => Gone(after, message_key)
        /\ Gone(after, [key |-> chain.key, index |-> reader.counter])
    BY <1>0, <2>1, <2>4, <2>6, AdvanceReceiverChainKeys
  <2>9. Turns(after, t)
    BY <1>0, <2>1, <2>4, <2>6, AdvanceReceiverChainTurns
  <2>10. /\ reader.sealed_with.key = chain.key
         /\ reader.sealed_with.index = reader.counter
    BY <2>5
  <2>11. OnTurn(chain.key, t)
    BY <2>1 DEF Turns
  <2> QED  BY <2>5, <2>7, <2>8, <2>9, <2>10, <2>11
<1> QED  BY <1>1, <1>2, <1>3

\* A message whose key is gone is refused.
LEMMA GoneIsRefused ==
    ASSUME NEW r \in RatchetState, NEW reader, Header(reader), Gone(r, reader.sealed_with)
    PROVE  ~CanDecrypt(r, reader)
<1> DEFINE mk == reader.sealed_with
<1>0. /\ reader.ratchet_key \in RatchetKey /\ reader.counter \in Nat
      /\ mk.key \in SharedKey /\ mk.index \in Nat
      /\ Len(mk.key) \in Nat
  BY LenProperties DEF Header, Gone, MessageKey, SharedKey
<1>1. ASSUME ~HasChain(r, reader), VerifyForNewChain(r, reader)
      PROVE  FALSE
  <2> DEFINE derived == CreateChainKey(r.root_key, r.sender_chain[1].ratchet_key,
                                       reader.ratchet_key)
  <2>1. r.sender_chain # <<>> /\ VerifyForExistingChain(derived.chain_key, reader)
    BY <1>1 DEF VerifyForNewChain
  <2>2. /\ Len(derived.root_key) = Len(r.root_key) + 1
        /\ derived.chain_key = [key |-> derived.root_key, index |-> 0]
    BY <1>0, <2>1, SenderChainType, RatchetFields, CreateChainKeyFields
  <2> HIDE DEF derived
  <2>3. [derived.chain_key EXCEPT !.index = reader.counter] =
            [key |-> derived.root_key, index |-> reader.counter]
    BY <2>2
  <2>4. mk.key = derived.root_key
    BY <2>1, <2>3 DEF VerifyForExistingChain, VerifyMac, CreateMessageKeys
  <2>5. Len(mk.key) <= Len(r.root_key) /\ Len(r.root_key) \in Nat
    BY RatchetFields DEF Gone
  <2> QED  BY <1>0, <2>2, <2>4, <2>5
<1>2. ASSUME HasSkipped(r, reader)
      PROVE  FALSE
  BY <1>2, SkippedForFound DEF Opens, VerifyMac, Gone
<1>3. ASSUME HasChain(r, reader),
             VerifyForExistingChain(r.receiver_chains[ChainFor(r, reader)].chain_key, reader)
      PROVE  FALSE
  <2> DEFINE i     == ChainFor(r, reader)
             chain == r.receiver_chains[i].chain_key
  <2>1. i \in DOMAIN r.receiver_chains
    BY <1>3, ChainForFound
  <2>2. chain \in ChainKey /\ chain.index \in Nat
    BY <2>1, ReceiverChainType
  <2>3. chain.index > mk.index \/ chain.key # mk.key
    BY <2>1 DEF Gone
  <2> HIDE DEF chain, i
  <2>4. VerifyForExistingChain(chain, reader)
    BY <1>3 DEF chain, i
  <2>5. [chain EXCEPT !.index = reader.counter] = [key |-> chain.key, index |-> reader.counter]
    BY <2>2 DEF ChainKey
  <2>6. mk = [key |-> chain.key, index |-> reader.counter] /\ reader.counter >= chain.index
    BY <2>4, <2>5 DEF VerifyForExistingChain, VerifyMac, CreateMessageKeys
  <2>7. mk.key = chain.key /\ mk.index = reader.counter
    BY <2>6
  <2> QED  BY <1>0, <2>2, <2>3, <2>6, <2>7
<1> QED  BY <1>1, <1>2, <1>3 DEF CanDecrypt

-----------------------------------------------------------------------------
(* What a ratchet keeps of what it has had, where used are the keys that have *)
(* opened a message, past the keys passed over, newest first, and first the   *)
(* names of the chains it had from the start.                                 *)

Names(used, first) == first \union { k.key : k \in used }

\* The key of the message c of the chain called name.
KeyAt(name, c) == [key |-> name, index |-> c]

\* A chain is given up only for MaxReceiverChains newer ones.
ChainsKept(r, used, first) ==
    \A key \in Names(used, first) :
        \/ \E i \in DOMAIN r.receiver_chains : r.receiver_chains[i].chain_key.key = key
        \/ /\ Len(r.receiver_chains) = MaxReceiverChains
           /\ \A i \in DOMAIN r.receiver_chains :
                 Len(r.receiver_chains[i].chain_key.key) > Len(key)

\* A chain is one past the last message it opened, and every message before was
\* opened or passed over.
Follows(chain_key, used, first, past) ==
    /\ \A k \in used : k.key = chain_key.key => k.index < chain_key.index
    /\ IF chain_key.index = 0
       THEN chain_key.key \in first
       ELSE \E k \in used : k.key = chain_key.key /\ k.index = chain_key.index - 1
    /\ \A c \in 0..chain_key.index - 1 :
          \/ KeyAt(chain_key.key, c) \in used
          \/ \E j \in DOMAIN past : past[j] = KeyAt(chain_key.key, c)
    /\ \A j \in DOMAIN past : past[j].key = chain_key.key => past[j].index < chain_key.index

\* A key passed over is given up only for MaxSkippedMessageKeys newer ones.
PassedKept(r, used, past) ==
    \A j \in DOMAIN past :
        /\ Len(past[j].key) <= Len(r.root_key)
        /\ j <= MaxSkippedMessageKeys =>
              \/ past[j] \in used
              \/ \E k \in DOMAIN r.skipped_message_keys :
                    k <= j /\ r.skipped_message_keys[k].message_key = past[j]

Remain(r, used, first, past) ==
    /\ ChainsKept(r, used, first)
    /\ \A i \in DOMAIN r.receiver_chains :
          Follows(r.receiver_chains[i].chain_key, used, first, past)
    /\ PassedKept(r, used, past)
    /\ \A k \in used : Len(k.key) <= Len(r.root_key)
    /\ \A k \in DOMAIN r.skipped_message_keys :
          r.skipped_message_keys[k].message_key.key \in Names(used, first)

\* A message key is a name and an index.
LEMMA KeyAtFields ==
    /\ \A name, c : KeyAt(name, c).key = name /\ KeyAt(name, c).index = c
    /\ \A name \in SharedKey, c \in Nat : KeyAt(name, c) \in MessageKey
    /\ \A k \in MessageKey : k = KeyAt(k.key, k.index)
BY DEF KeyAt, MessageKey

\* The d keys before the index `to` of the chain with a name, newest first.
Over(name, d, to) == [n \in 1..d |-> KeyAt(name, to - n)]

\* later is past with d keys of a chain in front.
Prepended(past, name, d, to, later) ==
    /\ \A j \in DOMAIN past : j \in Nat /\ past[j] \in MessageKey
    /\ \A j \in 1..d : j \in DOMAIN later /\ later[j] = KeyAt(name, to - j)
    /\ \A j \in DOMAIN past : j + d \in DOMAIN later /\ later[j + d] = past[j]
    /\ \A l \in DOMAIN later :
          \/ l \in 1..d
          \/ \E j \in DOMAIN past : l = j + d /\ later[l] = past[j]

\* Keys put in front of those passed over before.
LEMMA OverElements ==
    ASSUME NEW name \in SharedKey, NEW d \in Nat, NEW to \in Nat, d <= to,
           NEW past \in Seq(MessageKey)
    PROVE  /\ Over(name, d, to) \o past \in Seq(MessageKey)
           /\ Prepended(past, name, d, to, Over(name, d, to) \o past)
<1>1. PICK later : later = Over(name, d, to) \o past
  OBVIOUS
<1>2. PICK fresh : fresh = Over(name, d, to)
  OBVIOUS
<1>3. /\ fresh \in Seq(MessageKey) /\ Len(fresh) = d
      /\ \A j \in 1..d : fresh[j] = KeyAt(name, to - j)
  <2>1. \A n \in 1..d : KeyAt(name, to - n) \in MessageKey
    <3>1. \A n \in 1..d : to - n \in Nat
      OBVIOUS
    <3> QED  BY <3>1, KeyAtFields
  <2>2. fresh = [n \in 1..d |-> KeyAt(name, to - n)]
    BY <1>2 DEF Over
  <2>3. \A n \in 1..d : fresh[n] = KeyAt(name, to - n)
    BY <2>2
  <2>4. /\ [n \in 1..d |-> KeyAt(name, to - n)] \in Seq(MessageKey)
        /\ Len([n \in 1..d |-> KeyAt(name, to - n)]) = d
    BY <2>1
  <2> QED  BY <2>2, <2>3, <2>4
<1>4. Len(past) \in Nat /\ DOMAIN past = 1..Len(past)
  BY LenProperties
<1>5. /\ fresh \o past \in Seq(MessageKey)
      /\ Len(fresh \o past) = d + Len(past)
      /\ \A j \in 1..d + Len(past) :
            (fresh \o past)[j] = IF j <= d THEN fresh[j] ELSE past[j - d]
  BY <1>3, <1>4, ConcatProperties
<1>6. /\ later \in Seq(MessageKey)
      /\ DOMAIN later = 1 .. d + Len(past)
      /\ \A j \in 1..d + Len(past) : later[j] = IF j <= d THEN fresh[j] ELSE past[j - d]
  BY <1>1, <1>2, <1>5, LenProperties
<1>7. \A j \in 1..d : later[j] = KeyAt(name, to - j)
  <2> TAKE j \in 1..d
  <2>1. j \in 1..d + Len(past) /\ j <= d
    BY <1>4
  <2> QED  BY <1>3, <1>6, <2>1
<1>8. ASSUME NEW j \in DOMAIN past PROVE j + d \in DOMAIN later /\ later[j + d] = past[j]
  <2>1. j + d \in 1..d + Len(past) /\ ~(j + d <= d) /\ (j + d) - d = j
    BY <1>4
  <2> QED  BY <1>6, <2>1
<1>9. ASSUME NEW l \in DOMAIN later
      PROVE  l \in 1..d \/ \E j \in DOMAIN past : l = j + d /\ later[l] = past[j]
  <2>1. l \in Nat /\ 1 <= l /\ l <= d + Len(past)
    BY <1>4, <1>6
  <2>2. CASE l > d
    <3>1. PICK j \in Int : j = l - d
      BY <2>1
    <3>2. j \in 1..Len(past) /\ l = j + d
      BY <1>4, <2>1, <2>2, <3>1
    <3> QED  BY <1>4, <1>8, <3>2
  <2> QED  BY <2>1, <2>2
<1>10. \A j \in DOMAIN past : j \in Nat /\ past[j] \in MessageKey
  BY <1>4, ElementOfSeq
<1>11. \A j \in 1..d : j \in DOMAIN later
  BY <1>4, <1>6
<1>12. Prepended(past, name, d, to, later)
  BY <1>7, <1>8, <1>9, <1>10, <1>11 DEF Prepended
<1> QED  BY <1>1, <1>6, <1>12

\* Advancing a chain puts the keys it passes over in front of the kept ones.
LEMMA AdvanceSkipped ==
    ASSUME NEW r \in RatchetState, NEW i \in DOMAIN r.receiver_chains,
           NEW counter \in Nat, NEW d \in Nat,
           counter = r.receiver_chains[i].chain_key.index + d,
           NEW after, after = AdvanceReceiverChain(r, i, counter)
    PROVE  \A j \in Nat \ {0} :
              /\ j <= MaxSkippedMessageKeys
              /\ j <= d + Len(r.skipped_message_keys)
              => /\ j \in DOMAIN after.skipped_message_keys
                 /\ j <= d =>
                      /\ after.skipped_message_keys[j].ratchet_key
                             = r.receiver_chains[i].ratchet_key
                      /\ after.skipped_message_keys[j].message_key
                             = KeyAt(r.receiver_chains[i].chain_key.key, counter - j)
                 /\ j > d =>
                      after.skipped_message_keys[j] = r.skipped_message_keys[j - d]
<1>0. d = counter - r.receiver_chains[i].chain_key.index
  <2>1. PICK x \in Nat : x = r.receiver_chains[i].chain_key.index
    BY ReceiverChainType
  <2>2. d = counter - x
    BY <2>1
  <2> QED  BY <2>1, <2>2
<1> DEFINE chain == r.receiver_chains[i]
           old   == r.skipped_message_keys
<1>1. PICK fresh : fresh = SkippedKeys(chain, counter)
  OBVIOUS
<1>2. chain \in ReceiverChain /\ chain.chain_key \in ChainKey /\ chain.chain_key.index \in Nat
  BY ReceiverChainType
<1>3. /\ fresh \in Seq(SkippedMessageKey)
      /\ Len(fresh) = d
      /\ \A n \in 1..d : fresh[n].message_key = KeyAt(chain.chain_key.key, counter - n)
  <2>1. counter >= chain.chain_key.index
    BY <1>2
  <2> HIDE DEF chain
  <2>2. /\ fresh \in Seq(SkippedMessageKey)
        /\ Len(fresh) = counter - chain.chain_key.index
        /\ \A n \in 1..(counter - chain.chain_key.index) :
              fresh[n].message_key = [key |-> chain.chain_key.key, index |-> counter - n]
    BY <1>1, <1>2, <2>1, SkippedKeysElements
  <2>3. d = counter - chain.chain_key.index
    BY <1>0 DEF chain
  <2> QED  BY <2>2, <2>3 DEF KeyAt
<1>4. \A n \in 1..d : fresh[n].ratchet_key = chain.ratchet_key
  BY <1>0, <1>1 DEF SkippedKeys
<1>5. old \in Seq(SkippedMessageKey) /\ Len(old) \in Nat
  BY RatchetFields
<1>6. after.skipped_message_keys = Truncate(fresh \o old, MaxSkippedMessageKeys)
  <2>1. "skipped_message_keys" \in DOMAIN r
    BY RatchetFields
  <2> QED  BY <1>1, <2>1 DEF AdvanceReceiverChain
<1> HIDE DEF chain, old
<1>7. PICK list : list = Truncate(fresh \o old, MaxSkippedMessageKeys)
  OBVIOUS
<1>8. /\ fresh \o old \in Seq(SkippedMessageKey)
      /\ Len(fresh \o old) = d + Len(old)
      /\ \A j \in 1..d + Len(old) : (fresh \o old)[j] = IF j <= d THEN fresh[j] ELSE old[j - d]
  BY <1>3, <1>5, ConcatProperties
<1>9. /\ list \in Seq(SkippedMessageKey)
      /\ \A j \in 1..Len(list) : list[j] = (fresh \o old)[j]
      /\ Len(list) = IF d + Len(old) > MaxSkippedMessageKeys THEN MaxSkippedMessageKeys
                                                            ELSE d + Len(old)
      /\ DOMAIN list = 1..Len(list)
  <2>1. MaxSkippedMessageKeys \in Nat
    BY RatchetLimits
  <2>2. list \in Seq(SkippedMessageKey) /\ \A j \in 1..Len(list) : list[j] = (fresh \o old)[j]
    BY <1>7, <1>8, <2>1, TruncateElements
  <2>3. Len(list) = IF d + Len(old) > MaxSkippedMessageKeys THEN MaxSkippedMessageKeys
                                                            ELSE d + Len(old)
    BY <1>7, <1>8, <2>1, TruncateLength
  <2> QED  BY <2>2, <2>3, LenProperties
<1>10. ASSUME NEW j \in Nat \ {0}, j <= MaxSkippedMessageKeys, j <= d + Len(old)
       PROVE  /\ j \in DOMAIN list
              /\ j <= d => /\ list[j].ratchet_key = chain.ratchet_key
                           /\ list[j].message_key = KeyAt(chain.chain_key.key, counter - j)
              /\ j > d => list[j] = old[j - d]
  <2>1. j \in 1..Len(list) /\ j \in 1..d + Len(old)
    <3>1. Len(list) \in Nat /\ j <= Len(list)
      BY <1>5, <1>9, <1>10, RatchetLimits
    <3> QED  BY <1>5, <1>10, <3>1
  <2>2. list[j] = IF j <= d THEN fresh[j] ELSE old[j - d]
    BY <1>8, <1>9, <2>1
  <2>3. j <= d => j \in 1..d
    OBVIOUS
  <2> QED  BY <1>3, <1>4, <1>9, <2>1, <2>2, <2>3
<1> QED  BY <1>6, <1>7, <1>10 DEF chain, old

-----------------------------------------------------------------------------
(* The steps of decrypt() keep what is kept *)

\* A chain that a ratchet has is one of those it is known to have had.
LEMMA ChainIsNamed ==
    ASSUME NEW r \in RatchetState, NEW used, NEW first, NEW past,
           Remain(r, used, first, past), NEW i \in DOMAIN r.receiver_chains
    PROVE  r.receiver_chains[i].chain_key.key \in Names(used, first)
<1> DEFINE chain_key == r.receiver_chains[i].chain_key
<1>1. Follows(chain_key, used, first, past)
  BY DEF Remain
<1> HIDE DEF chain_key
<1>2. chain_key.key \in first \/ \E k \in used : k.key = chain_key.key
  BY <1>1 DEF Follows
<1> QED  BY <1>2 DEF Names, chain_key

\* after is r with chain i, called name, advanced by d messages and the one that
\* has the counter.
Advanced(r, i, name, d, counter, after) ==
    /\ after.root_key = r.root_key
    /\ DOMAIN after.receiver_chains = DOMAIN r.receiver_chains
    /\ \A j \in DOMAIN r.receiver_chains :
          j # i => after.receiver_chains[j] = r.receiver_chains[j]
    /\ after.receiver_chains[i].chain_key = KeyAt(name, counter + 1)
    /\ \A j \in DOMAIN after.skipped_message_keys :
          \/ after.skipped_message_keys[j].message_key = KeyAt(name, counter - j)
          \/ \E k \in DOMAIN r.skipped_message_keys :
                after.skipped_message_keys[j] = r.skipped_message_keys[k]
    /\ \A j \in 1..d : j <= MaxSkippedMessageKeys =>
          /\ j \in DOMAIN after.skipped_message_keys
          /\ after.skipped_message_keys[j].message_key = KeyAt(name, counter - j)
    /\ \A k \in DOMAIN r.skipped_message_keys : k + d <= MaxSkippedMessageKeys =>
          /\ k + d \in DOMAIN after.skipped_message_keys
          /\ after.skipped_message_keys[k + d] = r.skipped_message_keys[k]

\* What advancing a chain changes, in these words.
LEMMA AdvanceByName ==
    ASSUME NEW r \in RatchetState, NEW i \in DOMAIN r.receiver_chains,
           NEW counter \in Nat, counter >= r.receiver_chains[i].chain_key.index,
           NEW after, after = AdvanceReceiverChain(r, i, counter)
    PROVE  /\ after \in RatchetState
           /\ Advanced(r, i, r.receiver_chains[i].chain_key.key,
                       counter - r.receiver_chains[i].chain_key.index, counter, after)
<1> DEFINE name == r.receiver_chains[i].chain_key.key
           d    == counter - r.receiver_chains[i].chain_key.index
           old  == r.skipped_message_keys
           new  == after.skipped_message_keys
<1>0. /\ after \in RatchetState
      /\ after.root_key = r.root_key
      /\ after.sender_chain = r.sender_chain
      /\ DOMAIN after.receiver_chains = DOMAIN r.receiver_chains
      /\ \A j \in DOMAIN r.receiver_chains :
            j # i => after.receiver_chains[j] = r.receiver_chains[j]
      /\ after.receiver_chains[i] =
            [ratchet_key |-> r.receiver_chains[i].ratchet_key,
             chain_key   |-> [key |-> name, index |-> counter + 1]]
      /\ \A j \in DOMAIN after.skipped_message_keys :
            IF j <= d
            THEN after.skipped_message_keys[j].message_key = [key |-> name, index |-> counter - j]
            ELSE /\ j - d \in DOMAIN r.skipped_message_keys
                 /\ after.skipped_message_keys[j] = r.skipped_message_keys[j - d]
  BY AdvanceReceiverChainFields
<1>1. d \in Nat /\ counter = r.receiver_chains[i].chain_key.index + d
  BY ReceiverChainType
<1>2. \A j \in Nat \ {0} :
         /\ j <= MaxSkippedMessageKeys
         /\ j <= d + Len(old)
         => /\ j \in DOMAIN new
            /\ j <= d => new[j].message_key = KeyAt(name, counter - j)
            /\ j > d => new[j] = old[j - d]
  <2> HIDE DEF d
  <2>1. PICK e \in Nat : e = d
    BY <1>1
  <2>2. counter = r.receiver_chains[i].chain_key.index + e
    BY <1>1, <2>1
  <2> HIDE <1>0
  <2>3. \A j \in Nat \ {0} :
           /\ j <= MaxSkippedMessageKeys
           /\ j <= e + Len(old)
           => /\ j \in DOMAIN new
              /\ j <= e => new[j].message_key = KeyAt(name, counter - j)
              /\ j > e => new[j] = old[j - e]
    BY <2>2, AdvanceSkipped
  <2> QED  BY <2>1, <2>3
<1>3. Len(old) \in Nat /\ DOMAIN old = 1..Len(old) /\ DOMAIN new \subseteq Nat \ {0}
  BY <1>0, RatchetFields
<1>4. after.receiver_chains[i].chain_key = KeyAt(name, counter + 1)
  BY <1>0 DEF KeyAt
<1>5. \A j \in DOMAIN new :
         \/ new[j].message_key = KeyAt(name, counter - j)
         \/ \E k \in DOMAIN old : new[j] = old[k]
  BY <1>0 DEF KeyAt
<1> HIDE DEF d, name, old, new
<1>7. ASSUME NEW j \in 1..d, j <= MaxSkippedMessageKeys
      PROVE  j \in DOMAIN new /\ new[j].message_key = KeyAt(name, counter - j)
  <2>1. j \in Nat \ {0} /\ j <= d + Len(old) /\ j <= d
    BY <1>1, <1>3
  <2> QED  BY <1>2, <1>7, <2>1
<1>8. ASSUME NEW k \in DOMAIN old, k + d <= MaxSkippedMessageKeys
      PROVE  k + d \in DOMAIN new /\ new[k + d] = old[k]
  <2>1. /\ k + d \in Nat \ {0} /\ k + d <= d + Len(old) /\ k + d > d
        /\ (k + d) - d = k
    BY <1>1, <1>3
  <2>2. k + d \in DOMAIN new /\ new[k + d] = old[(k + d) - d]
    BY <1>2, <1>8, <2>1
  <2> QED  BY <2>1, <2>2
<1> QED  BY <1>0, <1>4, <1>5, <1>7, <1>8 DEF Advanced, old, new, d, name

\* The chain that opened the message counter follows it.
LEMMA FollowsOwn ==
    ASSUME NEW chain_key \in ChainKey, NEW used, NEW first, NEW past,
           Follows(chain_key, used, first, past),
           NEW d \in Nat, NEW counter \in Nat, counter = chain_key.index + d,
           NEW later, Prepended(past, chain_key.key, d, counter, later),
           used \subseteq MessageKey
    PROVE  Follows(KeyAt(chain_key.key, counter + 1),
                   used \union {KeyAt(chain_key.key, counter)}, first, later)
<1>1. PICK name, from : name = chain_key.key /\ from = chain_key.index
  OBVIOUS
<1>2. name \in SharedKey /\ from \in Nat /\ counter = from + d
  BY <1>1 DEF ChainKey
<1> DEFINE used2 == used \union {KeyAt(name, counter)}
<1>3. /\ \A k \in used : k.key = name => k.index < from
      /\ \A c \in 0..from - 1 :
            \/ KeyAt(name, c) \in used
            \/ \E j \in DOMAIN past : past[j] = KeyAt(name, c)
      /\ \A j \in DOMAIN past : past[j].key = name => past[j].index < from
  BY <1>1 DEF Follows
<1>4. /\ \A j \in DOMAIN past : j \in Nat /\ past[j] \in MessageKey
      /\ \A j \in 1..d : j \in DOMAIN later /\ later[j] = KeyAt(name, counter - j)
      /\ \A j \in DOMAIN past : j + d \in DOMAIN later /\ later[j + d] = past[j]
      /\ \A l \in DOMAIN later :
            \/ l \in 1..d
            \/ \E j \in DOMAIN past : l = j + d /\ later[l] = past[j]
  BY <1>1 DEF Prepended
<1>5. \A k \in used : k.index \in Nat
  BY DEF MessageKey
<1>6. \A j \in DOMAIN past : past[j].index \in Nat
  BY <1>4 DEF MessageKey
<1>7. ASSUME NEW k \in used2, k.key = name
      PROVE  k.index < counter + 1
  <2>1. CASE k \in used
    <3>1. k.index < from /\ k.index \in Nat
      BY <1>3, <1>5, <1>7, <2>1
    <3> QED  BY <1>2, <3>1
  <2>2. CASE k = KeyAt(name, counter)
    <3>1. k.index = counter
      BY <2>2, KeyAtFields
    <3> QED  BY <3>1
  <2> QED  BY <2>1, <2>2
<1>8. \E k \in used2 : k.key = name /\ k.index = (counter + 1) - 1
  <2>1. (counter + 1) - 1 = counter
    OBVIOUS
  <2> QED  BY <2>1, KeyAtFields
<1>9. ASSUME NEW c \in 0..(counter + 1) - 1
      PROVE  \/ KeyAt(name, c) \in used2
             \/ \E j \in DOMAIN later : later[j] = KeyAt(name, c)
  <2>1. c \in Nat /\ c <= counter
    OBVIOUS
  <2>2. CASE c = counter
    BY <2>2
  <2>3. CASE c < from
    <3>1. c \in 0..from - 1
      BY <1>2, <2>1, <2>3
    <3>2. CASE KeyAt(name, c) \in used
      BY <3>2
    <3>3. CASE \E j \in DOMAIN past : past[j] = KeyAt(name, c)
      BY <1>4, <3>3
    <3> QED  BY <1>3, <3>1, <3>2, <3>3
  <2>4. CASE c # counter /\ ~(c < from)
    <3>1. PICK j \in Int : j = counter - c
      BY <2>1
    <3>2. j \in 1..d /\ counter - j = c
      BY <1>2, <2>1, <2>4, <3>1
    <3> QED  BY <1>4, <3>2
  <2> QED  BY <2>2, <2>3, <2>4
<1>10. ASSUME NEW l \in DOMAIN later, later[l].key = name
       PROVE  later[l].index < counter + 1
  <2>1. CASE l \in 1..d
    <3>1. later[l].index = counter - l
      BY <1>4, <2>1, KeyAtFields
    <3>2. counter - l < counter + 1
      BY <2>1
    <3> QED  BY <3>1, <3>2
  <2>2. CASE \E j \in DOMAIN past : l = j + d /\ later[l] = past[j]
    <3>1. PICK j \in DOMAIN past : later[l] = past[j]
      BY <2>2
    <3>2. past[j].index < from /\ past[j].index \in Nat
      BY <1>3, <1>6, <1>10, <3>1
    <3>3. past[j].index < counter + 1
      BY <1>2, <3>2
    <3> QED  BY <3>1, <3>3
  <2> QED  BY <1>4, <2>1, <2>2
<1>11. KeyAt(name, counter + 1).key = name /\ KeyAt(name, counter + 1).index = counter + 1
  BY KeyAtFields
<1>12. counter + 1 # 0
  OBVIOUS
<1> HIDE DEF used2
<1>13. PICK next : next = KeyAt(name, counter + 1)
  OBVIOUS
<1>14. next.key = name /\ next.index = counter + 1
  BY <1>11, <1>13
<1>15. Follows(next, used2, first, later)
  BY <1>7, <1>8, <1>9, <1>10, <1>12, <1>14 DEF Follows
<1> QED  BY <1>1, <1>13, <1>15 DEF used2

\* The other chains are as they were.
LEMMA FollowsOther ==
    ASSUME NEW chain_key, NEW used, NEW first, NEW past,
           Follows(chain_key, used, first, past),
           NEW name, name # chain_key.key, NEW d \in Nat, NEW counter \in Nat,
           NEW later, Prepended(past, name, d, counter, later)
    PROVE  Follows(chain_key, used \union {KeyAt(name, counter)}, first, later)
<1>1. \A l \in DOMAIN later : later[l].key = chain_key.key =>
         \E j \in DOMAIN past : later[l] = past[j]
  BY KeyAtFields DEF Prepended
<1>2. \A j \in DOMAIN past : \E l \in DOMAIN later : later[l] = past[j]
  BY DEF Prepended
<1>3. \A k \in used \union {KeyAt(name, counter)} : k.key = chain_key.key => k \in used
  BY KeyAtFields
<1> QED  BY <1>1, <1>2, <1>3 DEF Follows

\* No chain is given up.
LEMMA AdvanceChainsKept ==
    ASSUME NEW r \in RatchetState, NEW after \in RatchetState, NEW used, NEW first,
           ChainsKept(r, used, first), NEW i \in DOMAIN r.receiver_chains,
           NEW name, name = r.receiver_chains[i].chain_key.key, name \in Names(used, first),
           NEW d, NEW counter, Advanced(r, i, name, d, counter, after)
    PROVE  ChainsKept(after, used \union {KeyAt(name, counter)}, first)
<1>1. Names(used \union {KeyAt(name, counter)}, first) = Names(used, first)
  BY KeyAtFields DEF Names
<1>2. /\ DOMAIN after.receiver_chains = DOMAIN r.receiver_chains
      /\ \A j \in DOMAIN r.receiver_chains :
            after.receiver_chains[j].chain_key.key = r.receiver_chains[j].chain_key.key
  BY KeyAtFields DEF Advanced
<1>3. Len(after.receiver_chains) = Len(r.receiver_chains)
  <2>1. /\ DOMAIN r.receiver_chains = 1..Len(r.receiver_chains)
        /\ DOMAIN after.receiver_chains = 1..Len(after.receiver_chains)
        /\ Len(r.receiver_chains) \in Nat /\ Len(after.receiver_chains) \in Nat
    BY RatchetFields
  <2> QED  BY <1>2, <2>1
<1> QED  BY <1>1, <1>2, <1>3 DEF ChainsKept

\* The keys passed over are kept in front of those kept before.
LEMMA AdvancePassedKept ==
    ASSUME NEW r \in RatchetState, NEW after \in RatchetState, NEW used, NEW past,
           PassedKept(r, used, past), NEW i,
           NEW name, Len(name) <= Len(r.root_key),
           NEW d \in Nat, NEW counter \in Nat, Advanced(r, i, name, d, counter, after),
           NEW later, Prepended(past, name, d, counter, later)
    PROVE  PassedKept(after, used \union {KeyAt(name, counter)}, later)
<1>0. MaxSkippedMessageKeys \in Nat
  BY RatchetLimits
<1>1. after.root_key = r.root_key
  BY DEF Advanced
<1> SUFFICES ASSUME NEW l \in DOMAIN later
             PROVE  /\ Len(later[l].key) <= Len(r.root_key)
                    /\ l <= MaxSkippedMessageKeys =>
                          \/ later[l] \in used
                          \/ \E k \in DOMAIN after.skipped_message_keys :
                                /\ k <= l
                                /\ after.skipped_message_keys[k].message_key = later[l]
  BY <1>1 DEF PassedKept
<1>2. CASE l \in 1..d
  <2>1. later[l] = KeyAt(name, counter - l) /\ later[l].key = name
    BY <1>2, KeyAtFields DEF Prepended
  <2>2. ASSUME l <= MaxSkippedMessageKeys
        PROVE  /\ l \in DOMAIN after.skipped_message_keys
               /\ after.skipped_message_keys[l].message_key = KeyAt(name, counter - l)
    BY <1>2, <2>2 DEF Advanced
  <2>3. l <= l
    BY <1>2
  <2> QED  BY <2>1, <2>2, <2>3
<1>3. CASE \E j \in DOMAIN past : l = j + d /\ later[l] = past[j]
  <2>1. PICK j \in DOMAIN past : l = j + d /\ later[l] = past[j]
    BY <1>3
  <2>2. j \in Nat
    BY DEF Prepended
  <2>3. /\ Len(past[j].key) <= Len(r.root_key)
        /\ j <= MaxSkippedMessageKeys =>
              \/ past[j] \in used
              \/ \E k \in DOMAIN r.skipped_message_keys :
                    k <= j /\ r.skipped_message_keys[k].message_key = past[j]
    BY DEF PassedKept
  <2>4. ASSUME l <= MaxSkippedMessageKeys, past[j] \notin used
        PROVE  \E k \in DOMAIN after.skipped_message_keys :
                  k <= l /\ after.skipped_message_keys[k].message_key = past[j]
    <3>1. j <= MaxSkippedMessageKeys
      BY <1>0, <2>1, <2>2, <2>4
    <3>2. PICK k \in DOMAIN r.skipped_message_keys :
             k <= j /\ r.skipped_message_keys[k].message_key = past[j]
      BY <2>3, <2>4, <3>1
    <3>3. k \in Nat
      BY RatchetFields
    <3>4. k + d <= MaxSkippedMessageKeys /\ k + d <= l
      BY <1>0, <2>1, <2>2, <2>4, <3>2, <3>3
    <3>5. /\ k + d \in DOMAIN after.skipped_message_keys
          /\ after.skipped_message_keys[k + d] = r.skipped_message_keys[k]
      BY <3>4 DEF Advanced
    <3> QED  BY <3>2, <3>4, <3>5
  <2> QED  BY <2>1, <2>3, <2>4
<1> QED  BY <1>2, <1>3 DEF Prepended

\* The keys kept are of chains the ratchet has had.
LEMMA AdvanceSkippedNamed ==
    ASSUME NEW r, NEW after, NEW known, NEW i,
           \A k \in DOMAIN r.skipped_message_keys :
              r.skipped_message_keys[k].message_key.key \in known,
           NEW name \in known, NEW d, NEW counter, Advanced(r, i, name, d, counter, after),
           NEW k \in DOMAIN after.skipped_message_keys
    PROVE  after.skipped_message_keys[k].message_key.key \in known
<1>1. CASE after.skipped_message_keys[k].message_key = KeyAt(name, counter - k)
  BY <1>1, KeyAtFields
<1>2. CASE \E j \in DOMAIN r.skipped_message_keys :
              after.skipped_message_keys[k] = r.skipped_message_keys[j]
  BY <1>2
<1> QED  BY <1>1, <1>2 DEF Advanced

\* Opening a message on a chain keeps what is kept.
LEMMA AdvanceKept ==
    ASSUME NEW r \in RatchetState, KeysApart(r), NEW i \in DOMAIN r.receiver_chains,
           NEW used, used \subseteq MessageKey, NEW first, NEW past \in Seq(MessageKey),
           Remain(r, used, first, past),
           NEW name, name = r.receiver_chains[i].chain_key.key,
           NEW counter \in Nat, counter >= r.receiver_chains[i].chain_key.index,
           NEW d, d = counter - r.receiver_chains[i].chain_key.index,
           NEW after, after = AdvanceReceiverChain(r, i, counter)
    PROVE  /\ d \in Nat
           /\ Over(name, d, counter) \o past \in Seq(MessageKey)
           /\ Remain(after, used \union {KeyAt(name, counter)}, first,
                   Over(name, d, counter) \o past)
<1>1. after \in RatchetState /\ Advanced(r, i, name, d, counter, after)
  BY AdvanceByName
<1>2. name \in Names(used, first)
  BY ChainIsNamed
<1>3. /\ r.receiver_chains[i].chain_key \in ChainKey
      /\ name \in SharedKey
      /\ d \in Nat /\ counter = r.receiver_chains[i].chain_key.index + d /\ d <= counter
  BY ReceiverChainType
<1>4. PICK later : later = Over(name, d, counter) \o past
  OBVIOUS
<1>5. later \in Seq(MessageKey) /\ Prepended(past, name, d, counter, later)
  BY <1>3, <1>4, OverElements
<1>6. PICK used2 : used2 = used \union {KeyAt(name, counter)}
  OBVIOUS
<1>7. ChainsKept(after, used2, first)
  BY <1>1, <1>2, <1>6, AdvanceChainsKept DEF Remain
<1>8. Len(name) <= Len(r.root_key)
  BY DEF KeysApart
<1>9. PassedKept(after, used2, later)
  <2>1. PassedKept(r, used, past)
    BY DEF Remain
  <2> QED  BY <1>1, <1>3, <1>5, <1>6, <1>8, <2>1, AdvancePassedKept
<1>10. ASSUME NEW j \in DOMAIN after.receiver_chains
       PROVE  Follows(after.receiver_chains[j].chain_key, used2, first, later)
  <2>1. j \in DOMAIN r.receiver_chains
    BY <1>1 DEF Advanced
  <2>2. CASE j = i
    <3>1. after.receiver_chains[j].chain_key = KeyAt(name, counter + 1)
      BY <1>1, <2>2 DEF Advanced
    <3>2. PICK chain_key : chain_key = r.receiver_chains[i].chain_key
      OBVIOUS
    <3>3. /\ chain_key \in ChainKey /\ name = chain_key.key
          /\ counter = chain_key.index + d
          /\ Follows(chain_key, used, first, past)
      BY <1>3, <3>2 DEF Remain
    <3>4. Prepended(past, chain_key.key, d, counter, later)
      BY <1>5, <3>3
    <3>5. Follows(KeyAt(chain_key.key, counter + 1),
                  used \union {KeyAt(chain_key.key, counter)}, first, later)
      BY <1>3, <3>3, <3>4, FollowsOwn
    <3> QED  BY <1>6, <3>1, <3>3, <3>5
  <2>3. CASE j # i
    <3>1. after.receiver_chains[j] = r.receiver_chains[j]
      BY <1>1, <2>1, <2>3 DEF Advanced
    <3>2. r.receiver_chains[j].chain_key.key # name
      <4>1. /\ j \in Int /\ i \in Int /\ Len(name) \in Nat
        <5>1. j \in Int /\ i \in Int
          BY <2>1, RatchetFields
        <5>2. Len(name) \in Nat
          BY <1>3, LenProperties DEF SharedKey
        <5> QED  BY <5>1, <5>2
      <4>2. j < i \/ i < j
        BY <2>3, <4>1
      <4>3. ~(Len(name) > Len(name))
        BY <4>1
      <4> QED  BY <2>1, <4>2, <4>3 DEF KeysApart
    <3>3. Follows(r.receiver_chains[j].chain_key, used, first, past)
      BY <2>1 DEF Remain
    <3>4. Follows(r.receiver_chains[j].chain_key, used2, first, later)
      BY <1>3, <1>5, <1>6, <3>2, <3>3, FollowsOther
    <3> QED  BY <3>1, <3>4
  <2> QED  BY <2>2, <2>3
<1>11. \A k \in used2 : Len(k.key) <= Len(after.root_key)
  <2>1. after.root_key = r.root_key
    BY <1>1 DEF Advanced
  <2> QED  BY <1>6, <1>8, <2>1, KeyAtFields DEF Remain
<1>12. \A k \in DOMAIN after.skipped_message_keys :
          after.skipped_message_keys[k].message_key.key \in Names(used2, first)
  <2>1. Names(used2, first) = Names(used, first)
    BY <1>2, <1>6, KeyAtFields DEF Names
  <2>2. \A k \in DOMAIN r.skipped_message_keys :
           r.skipped_message_keys[k].message_key.key \in Names(used, first)
    BY DEF Remain
  <2> QED  BY <1>1, <1>2, <2>1, <2>2, AdvanceSkippedNamed
<1>13. Remain(after, used2, first, later)
  BY <1>7, <1>9, <1>10, <1>11, <1>12 DEF Remain
<1> QED  BY <1>3, <1>4, <1>5, <1>6, <1>13

\* A chain started for a new ratchet key gives up the oldest one of a full list.
LEMMA StartChains ==
    ASSUME NEW r \in RatchetState, NEW reader, Header(reader), r.sender_chain # <<>>,
           NEW after, after = StartReceiverChain(r, reader)
    PROVE  Len(after.receiver_chains) =
               IF Len(r.receiver_chains) >= MaxReceiverChains
               THEN MaxReceiverChains ELSE Len(r.receiver_chains) + 1
<1> DEFINE derived == CreateChainKey(r.root_key, r.sender_chain[1].ratchet_key,
                                     reader.ratchet_key)
           chain   == [ratchet_key |-> reader.ratchet_key, chain_key |-> derived.chain_key]
<1>1. derived.chain_key \in ChainKey
  BY SenderChainType, RatchetFields, CreateChainKeyFields DEF Header
<1>2. chain \in ReceiverChain
  BY <1>1 DEF ReceiverChain, Header
<1>3. r.receiver_chains \in Seq(ReceiverChain) /\ MaxReceiverChains \in Nat
  BY RatchetFields, RatchetLimits
<1> HIDE DEF derived
<1>4. after.receiver_chains = InsertFront(r.receiver_chains, chain, MaxReceiverChains)
  BY RatchetFields DEF StartReceiverChain, derived
<1> HIDE DEF chain
<1> QED  BY <1>2, <1>3, <1>4, InsertFrontLength

\* Starting a chain: it is one of those the ratchet has, and has opened nothing.
LEMMA StartKept ==
    ASSUME NEW r \in RatchetState, KeysApart(r), NEW reader, Header(reader),
           r.sender_chain # <<>>,
           NEW used, used \subseteq MessageKey, NEW first, first \subseteq SharedKey,
           NEW past \in Seq(MessageKey), Remain(r, used, first, past),
           NEW after, after = StartReceiverChain(r, reader)
    PROVE  Remain(after, used, first \union {after.root_key}, past)
<1>1. /\ after \in RatchetState
      /\ after.root_key = CreateChainKey(r.root_key, r.sender_chain[1].ratchet_key,
                                         reader.ratchet_key).root_key
      /\ Len(after.root_key) = Len(r.root_key) + 1
      /\ after.sender_chain = <<>>
      /\ after.skipped_message_keys = r.skipped_message_keys
      /\ 1 \in DOMAIN after.receiver_chains
      /\ after.receiver_chains[1] =
            [ratchet_key |-> reader.ratchet_key,
             chain_key   |-> [key |-> after.root_key, index |-> 0]]
      /\ \A j \in DOMAIN after.receiver_chains :
            j # 1 => /\ j - 1 \in DOMAIN r.receiver_chains
                     /\ after.receiver_chains[j] = r.receiver_chains[j - 1]
  BY StartReceiverChainFields
<1>2. Len(after.receiver_chains) =
          IF Len(r.receiver_chains) >= MaxReceiverChains
          THEN MaxReceiverChains ELSE Len(r.receiver_chains) + 1
  BY StartChains
<1>3. /\ Len(r.root_key) \in Nat /\ MaxReceiverChains \in Nat \ {0}
      /\ Len(r.receiver_chains) \in Nat /\ Len(after.receiver_chains) \in Nat
      /\ Len(r.receiver_chains) <= MaxReceiverChains
      /\ DOMAIN r.receiver_chains = 1..Len(r.receiver_chains)
      /\ DOMAIN after.receiver_chains = 1..Len(after.receiver_chains)
  BY <1>1, RatchetFields, RatchetLimits
<1>4. PICK name : name = after.root_key
  OBVIOUS
<1>5. /\ after.receiver_chains[1].chain_key.key = name
      /\ after.receiver_chains[1].chain_key.index = 0
      /\ Len(name) = Len(r.root_key) + 1
  BY <1>1, <1>4
<1>6. /\ \A k \in used : k.key # name
      /\ \A j \in DOMAIN past : past[j].key # name
  <2>1. /\ \A k \in used : Len(k.key) <= Len(r.root_key)
        /\ \A j \in DOMAIN past : Len(past[j].key) <= Len(r.root_key)
    BY DEF Remain, PassedKept
  <2>2. ~(Len(name) <= Len(r.root_key))
    BY <1>3, <1>5
  <2> QED  BY <2>1, <2>2
<1> DEFINE first2 == first \union {name}
<1>7. Names(used, first2) = Names(used, first) \union {name}
  BY DEF Names
<1>8. \A j \in DOMAIN r.receiver_chains :
         /\ Len(r.receiver_chains[j].chain_key.key) \in Nat
         /\ Len(r.receiver_chains[j].chain_key.key) <= Len(r.root_key)
  BY ReceiverChainType DEF KeysApart
<1>9. ASSUME NEW key \in Names(used, first), NEW n \in Nat, n = Len(key),
             Len(after.receiver_chains) = MaxReceiverChains, n <= Len(r.root_key),
             \A j \in DOMAIN r.receiver_chains : j + 1 \in DOMAIN after.receiver_chains =>
                Len(r.receiver_chains[j].chain_key.key) > n,
             NEW j \in DOMAIN after.receiver_chains
      PROVE  Len(after.receiver_chains[j].chain_key.key) > Len(key)
  <2>1. CASE j = 1
    BY <1>3, <1>5, <1>9, <2>1
  <2>2. CASE j # 1
    <3>1. /\ j - 1 \in DOMAIN r.receiver_chains
          /\ after.receiver_chains[j] = r.receiver_chains[j - 1]
      BY <1>1, <2>2
    <3>2. (j - 1) + 1 = j
      BY <1>3
    <3> QED  BY <1>9, <3>1, <3>2
  <2> QED  BY <2>1, <2>2
<1>10. ASSUME NEW key \in Names(used, first), NEW i \in DOMAIN r.receiver_chains,
              r.receiver_chains[i].chain_key.key = key
       PROVE  \/ \E j \in DOMAIN after.receiver_chains :
                    after.receiver_chains[j].chain_key.key = key
              \/ /\ Len(after.receiver_chains) = MaxReceiverChains
                 /\ \A j \in DOMAIN after.receiver_chains :
                       Len(after.receiver_chains[j].chain_key.key) > Len(key)
  <2>0. i \in Nat /\ i <= Len(r.receiver_chains) /\ i >= 1
    BY <1>3
  <2>1. CASE i + 1 \in DOMAIN after.receiver_chains
    <3>1. i + 1 # 1 /\ (i + 1) - 1 = i
      BY <2>0
    <3>2. after.receiver_chains[i + 1] = r.receiver_chains[i]
      BY <1>1, <2>1, <3>1
    <3> QED  BY <1>10, <2>1, <3>2
  <2>2. CASE i + 1 \notin DOMAIN after.receiver_chains
    <3>1. i + 1 > Len(after.receiver_chains)
      BY <1>3, <2>0, <2>2
    <3>2. Len(after.receiver_chains) = MaxReceiverChains /\ i = MaxReceiverChains
      BY <1>2, <1>3, <2>0, <3>1
    <3>3. PICK n \in Nat : n = Len(key) /\ n <= Len(r.root_key)
      BY <1>8, <1>10
    <3>4. ASSUME NEW j \in DOMAIN r.receiver_chains, j + 1 \in DOMAIN after.receiver_chains
          PROVE  Len(r.receiver_chains[j].chain_key.key) > n
      <4>1. j < i
        BY <1>3, <3>2, <3>4
      <4> QED  BY <1>10, <3>3, <4>1 DEF KeysApart
    <3> QED  BY <1>9, <3>2, <3>3, <3>4
  <2> QED  BY <2>1, <2>2
<1>11. ASSUME NEW key \in Names(used, first),
              Len(r.receiver_chains) = MaxReceiverChains,
              \A i \in DOMAIN r.receiver_chains :
                 Len(r.receiver_chains[i].chain_key.key) > Len(key),
              Len(key) \in Nat
       PROVE  /\ Len(after.receiver_chains) = MaxReceiverChains
              /\ \A j \in DOMAIN after.receiver_chains :
                    Len(after.receiver_chains[j].chain_key.key) > Len(key)
  <2>1. Len(after.receiver_chains) = MaxReceiverChains
    BY <1>2, <1>3, <1>11
  <2>2. PICK n \in Nat : n = Len(key)
    BY <1>11
  <2>3. n <= Len(r.root_key)
    <3>1. 1 \in DOMAIN r.receiver_chains
      BY <1>3, <1>11
    <3>2. /\ Len(r.receiver_chains[1].chain_key.key) > n
          /\ Len(r.receiver_chains[1].chain_key.key) <= Len(r.root_key)
          /\ Len(r.receiver_chains[1].chain_key.key) \in Nat
      BY <1>8, <1>11, <2>2, <3>1
    <3> QED  BY <1>3, <3>2
  <2> QED  BY <1>9, <1>11, <2>1, <2>2, <2>3
<1>12. \A key \in Names(used, first) : Len(key) \in Nat
  <2>1. \A key \in Names(used, first) : key \in SharedKey
    BY DEF Names, MessageKey
  <2> QED  BY <2>1, LenProperties DEF SharedKey
<1>13. ChainsKept(after, used, first2)
  <2>1. ASSUME NEW key \in Names(used, first)
        PROVE  \/ \E j \in DOMAIN after.receiver_chains :
                     after.receiver_chains[j].chain_key.key = key
               \/ /\ Len(after.receiver_chains) = MaxReceiverChains
                  /\ \A j \in DOMAIN after.receiver_chains :
                        Len(after.receiver_chains[j].chain_key.key) > Len(key)
    <3>1. \/ \E i \in DOMAIN r.receiver_chains : r.receiver_chains[i].chain_key.key = key
          \/ /\ Len(r.receiver_chains) = MaxReceiverChains
             /\ \A i \in DOMAIN r.receiver_chains :
                   Len(r.receiver_chains[i].chain_key.key) > Len(key)
      BY DEF Remain, ChainsKept
    <3> QED  BY <1>10, <1>11, <1>12, <3>1
  <2> QED  BY <1>1, <1>5, <1>7, <2>1 DEF ChainsKept
<1>14. ASSUME NEW j \in DOMAIN after.receiver_chains
       PROVE  Follows(after.receiver_chains[j].chain_key, used, first2, past)
  <2>1. CASE j = 1
    <3>1. PICK chain_key : chain_key = after.receiver_chains[1].chain_key
      OBVIOUS
    <3>2. chain_key.key = name /\ chain_key.index = 0
      BY <1>5, <3>1
    <3>3. Follows(chain_key, used, first2, past)
      BY <1>6, <3>2 DEF Follows
    <3> QED  BY <2>1, <3>1, <3>3
  <2>2. CASE j # 1
    <3>1. PICK i \in DOMAIN r.receiver_chains : after.receiver_chains[j] = r.receiver_chains[i]
      BY <1>1, <2>2
    <3>2. PICK chain_key : chain_key = r.receiver_chains[i].chain_key
      OBVIOUS
    <3>3. Follows(chain_key, used, first, past)
      BY <3>2 DEF Remain
    <3>4. Follows(chain_key, used, first2, past)
      BY <3>3 DEF Follows
    <3> QED  BY <3>1, <3>2, <3>4
  <2> QED  BY <2>1, <2>2
<1>15. /\ \A k \in used : Len(k.key) <= Len(after.root_key)
       /\ \A j \in DOMAIN past : Len(past[j].key) <= Len(after.root_key)
  <2>1. /\ \A k \in used : Len(k.key) <= Len(r.root_key) /\ Len(k.key) \in Nat
        /\ \A j \in DOMAIN past : Len(past[j].key) <= Len(r.root_key) /\ Len(past[j].key) \in Nat
    <3>1. \A k \in MessageKey : Len(k.key) \in Nat
      BY LenProperties DEF MessageKey, SharedKey
    <3>2. \A j \in DOMAIN past : past[j] \in MessageKey
      BY LenProperties, ElementOfSeq
    <3> QED  BY <3>1, <3>2 DEF Remain, PassedKept
  <2> QED  BY <1>1, <1>3, <2>1
<1>16. PassedKept(after, used, past)
  BY <1>1, <1>15 DEF Remain, PassedKept
<1>17. \A k \in DOMAIN after.skipped_message_keys :
          after.skipped_message_keys[k].message_key.key \in Names(used, first2)
  BY <1>1, <1>7 DEF Remain
<1>18. Remain(after, used, first2, past)
  BY <1>13, <1>14, <1>15, <1>16, <1>17 DEF Remain
<1> QED  BY <1>4, <1>18

\* A chain that has opened a message is not one that the ratchet had from the start.
LEMMA KeptWithout ==
    ASSUME NEW r, NEW used, NEW first, NEW past, NEW name,
           Remain(r, used, first \union {name}, past),
           \E k \in used : k.key = name /\ k.index \in Nat
    PROVE  Remain(r, used, first, past)
<1>1. Names(used, first \union {name}) = Names(used, first)
  BY DEF Names
<1>2. ASSUME NEW i \in DOMAIN r.receiver_chains
      PROVE  Follows(r.receiver_chains[i].chain_key, used, first, past)
  <2>1. PICK chain_key : chain_key = r.receiver_chains[i].chain_key
    OBVIOUS
  <2>2. Follows(chain_key, used, first \union {name}, past)
    BY <2>1 DEF Remain
  <2>3. chain_key.key = name => chain_key.index # 0
    BY <2>2 DEF Follows
  <2>4. Follows(chain_key, used, first, past)
    BY <2>2, <2>3 DEF Follows
  <2> QED  BY <2>1, <2>4
<1> QED  BY <1>1, <1>2 DEF Remain, ChainsKept

\* Erasing a kept key leaves the others kept, no later in the list.
LEMMA UseSkippedRest ==
    ASSUME NEW r \in RatchetState, NEW reader, HasSkipped(r, reader),
           NEW after, after = UseSkippedKey(r, reader),
           NEW k \in DOMAIN r.skipped_message_keys, k # SkippedFor(r, reader)
    PROVE  \E l \in DOMAIN after.skipped_message_keys :
              l <= k /\ after.skipped_message_keys[l] = r.skipped_message_keys[k]
<1>1. /\ r.skipped_message_keys \in Seq(SkippedMessageKey)
      /\ Len(r.skipped_message_keys) \in Nat
      /\ DOMAIN r.skipped_message_keys = 1..Len(r.skipped_message_keys)
  BY RatchetFields
<1>2. PICK p : p = SkippedFor(r, reader)
  OBVIOUS
<1>3. p \in 1..Len(r.skipped_message_keys)
  BY <1>1, <1>2, SkippedForFound
<1>4. PICK old, new : old = r.skipped_message_keys /\ new = after.skipped_message_keys
  OBVIOUS
<1>5. new = Erase(old, p)
  BY <1>2, <1>4, RatchetFields DEF UseSkippedKey
<1>6. old \in Seq(SkippedMessageKey) /\ p \in 1..Len(old) /\ Len(old) \in Nat
      /\ k \in 1..Len(old) /\ k # p
  BY <1>1, <1>2, <1>3, <1>4
<1>7. /\ new \in Seq(SkippedMessageKey)
      /\ Len(new) = Len(old) - 1
      /\ \A i \in 1..Len(new) : new[i] = IF i < p THEN old[i] ELSE old[i + 1]
  BY <1>5, <1>6, EraseElements
<1>8. DOMAIN new = 1..Len(new)
  BY <1>7, LenProperties
<1>9. CASE k < p
  <2>1. k \in 1..Len(new) /\ k <= k
    BY <1>6, <1>7, <1>9
  <2> QED  BY <1>4, <1>7, <1>8, <1>9, <2>1
<1>10. CASE k > p
  <2>1. PICK l \in Int : l = k - 1
    BY <1>6
  <2>2. l \in 1..Len(new) /\ l <= k /\ ~(l < p) /\ l + 1 = k
    BY <1>6, <1>7, <1>10, <2>1
  <2>3. new[l] = old[k]
    BY <1>7, <2>2
  <2> QED  BY <1>4, <1>8, <2>2, <2>3
<1> QED  BY <1>6, <1>9, <1>10

\* Opening a message with a key that was passed over keeps what is kept.
LEMMA UseSkippedKept ==
    ASSUME NEW r \in RatchetState, KeysApart(r), NEW reader, HasSkipped(r, reader),
           NEW used, NEW first, NEW past \in Seq(MessageKey), Remain(r, used, first, past),
           NEW after, after = UseSkippedKey(r, reader)
    PROVE  Remain(after, used \union {reader.sealed_with}, first, past)
<1>1. /\ after.root_key = r.root_key
      /\ after.receiver_chains = r.receiver_chains
      /\ \A j \in DOMAIN after.skipped_message_keys :
            IF j < SkippedFor(r, reader)
            THEN /\ j \in DOMAIN r.skipped_message_keys
                 /\ after.skipped_message_keys[j] = r.skipped_message_keys[j]
            ELSE /\ j + 1 \in DOMAIN r.skipped_message_keys
                 /\ after.skipped_message_keys[j] = r.skipped_message_keys[j + 1]
  BY UseSkippedKeyFields
<1>2. \A j \in DOMAIN after.skipped_message_keys :
         \E k \in DOMAIN r.skipped_message_keys :
            after.skipped_message_keys[j] = r.skipped_message_keys[k]
  BY <1>1
<1>3. PICK p : p = SkippedFor(r, reader)
  OBVIOUS
<1>4. PICK mk : mk = reader.sealed_with
  OBVIOUS
<1>5. p \in DOMAIN r.skipped_message_keys /\ r.skipped_message_keys[p].message_key = mk
  BY <1>3, <1>4, SkippedForFound DEF Opens, VerifyMac
<1>6. ASSUME NEW k \in DOMAIN r.skipped_message_keys, k # p
      PROVE  \E l \in DOMAIN after.skipped_message_keys :
                l <= k /\ after.skipped_message_keys[l] = r.skipped_message_keys[k]
  BY <1>3, <1>6, UseSkippedRest
<1> DEFINE used2 == used \union {mk}
<1>7. Names(used2, first) = Names(used, first) /\ mk.key \in Names(used, first)
  <2>1. mk.key \in Names(used, first)
    BY <1>5 DEF Remain
  <2> QED  BY <2>1 DEF Names
<1>8. ChainsKept(after, used2, first)
  BY <1>1, <1>7 DEF Remain, ChainsKept
<1>9. ASSUME NEW i \in DOMAIN after.receiver_chains
      PROVE  Follows(after.receiver_chains[i].chain_key, used2, first, past)
  <2>1. PICK chain_key : chain_key = r.receiver_chains[i].chain_key
    OBVIOUS
  <2>2. Follows(chain_key, used, first, past)
    BY <1>1, <2>1 DEF Remain
  <2>3. mk.key = chain_key.key => mk.index < chain_key.index
    BY <1>1, <1>5, <2>1 DEF KeysApart
  <2>4. Follows(chain_key, used2, first, past)
    BY <2>2, <2>3 DEF Follows
  <2> QED  BY <1>1, <2>1, <2>4
<1>10. ASSUME NEW j \in DOMAIN past
       PROVE  /\ Len(past[j].key) <= Len(after.root_key)
              /\ j <= MaxSkippedMessageKeys =>
                    \/ past[j] \in used2
                    \/ \E k \in DOMAIN after.skipped_message_keys :
                          k <= j /\ after.skipped_message_keys[k].message_key = past[j]
  <2>1. /\ Len(past[j].key) <= Len(r.root_key)
        /\ j <= MaxSkippedMessageKeys =>
              \/ past[j] \in used
              \/ \E k \in DOMAIN r.skipped_message_keys :
                    k <= j /\ r.skipped_message_keys[k].message_key = past[j]
    BY DEF Remain, PassedKept
  <2>2. ASSUME NEW k \in DOMAIN r.skipped_message_keys, k <= j,
               r.skipped_message_keys[k].message_key = past[j], k # p
        PROVE  \E l \in DOMAIN after.skipped_message_keys :
                  l <= j /\ after.skipped_message_keys[l].message_key = past[j]
    <3>1. PICK l \in DOMAIN after.skipped_message_keys :
             l <= k /\ after.skipped_message_keys[l] = r.skipped_message_keys[k]
      BY <1>6, <2>2
    <3>2. k \in Int /\ l \in Int /\ j \in Int
      BY RatchetFields, UseSkippedKeyFields, LenProperties
    <3>3. l <= j
      BY <1>10, <2>2, <3>1, <3>2
    <3> QED  BY <2>2, <3>1, <3>3
  <2> QED  BY <1>1, <1>5, <2>1, <2>2
<1>11. \A k \in used2 : Len(k.key) <= Len(after.root_key)
  <2>1. Len(mk.key) <= Len(r.root_key)
    BY <1>5 DEF KeysApart
  <2> QED  BY <1>1, <2>1 DEF Remain
<1>12. PassedKept(after, used2, past)
  BY <1>10 DEF PassedKept
<1>13. \A k \in DOMAIN after.skipped_message_keys :
          after.skipped_message_keys[k].message_key.key \in Names(used2, first)
  BY <1>2, <1>7 DEF Remain
<1>14. Remain(after, used2, first, past)
  BY <1>8, <1>9, <1>11, <1>12, <1>13 DEF Remain
<1> QED  BY <1>4, <1>14

-----------------------------------------------------------------------------
(* How many messages are passed over *)

\* The messages of the chain called name below the counter that come after all
\* that were opened.
Between(used, name, counter) ==
    { c \in 0 .. counter - 1 : \A k \in used : k.key = name => k.index < c }

\* On a chain that is not past the message, they are those from its index on.
LEMMA BetweenAhead ==
    ASSUME NEW chain_key \in ChainKey, NEW used, NEW first, NEW past,
           Follows(chain_key, used, first, past), used \subseteq MessageKey,
           NEW counter \in Nat, counter >= chain_key.index
    PROVE  Cardinality(Between(used, chain_key.key, counter)) = counter - chain_key.index
<1>1. PICK name, from : name = chain_key.key /\ from = chain_key.index
  OBVIOUS
<1>2. from \in Nat /\ from <= counter
  BY <1>1 DEF ChainKey
<1>3. /\ \A k \in used : k.key = name => k.index < from
      /\ from # 0 => \E k \in used : k.key = name /\ k.index = from - 1
  BY <1>1 DEF Follows
<1>4. \A k \in used : k.index \in Nat
  BY DEF MessageKey
<1>5. ASSUME NEW c \in 0 .. counter - 1
      PROVE  (\A k \in used : k.key = name => k.index < c) <=> from <= c
  <2>0. c \in Nat
    OBVIOUS
  <2>1. ASSUME from <= c, NEW k \in used, k.key = name
        PROVE  k.index < c
    <3>1. k.index < from /\ k.index \in Nat
      BY <1>3, <1>4, <2>1
    <3> QED  BY <1>2, <2>0, <2>1, <3>1
  <2>2. ASSUME \A k \in used : k.key = name => k.index < c
        PROVE  from <= c
    <3>1. CASE from = 0
      BY <2>0, <3>1
    <3>2. CASE from # 0
      <4>1. from - 1 < c
        BY <1>3, <2>2, <3>2
      <4> QED  BY <1>2, <2>0, <4>1
    <3> QED  BY <3>1, <3>2
  <2> QED  BY <2>1, <2>2
<1>6. Between(used, name, counter) = from .. counter - 1
  <2>1. Between(used, name, counter) = { c \in 0 .. counter - 1 : from <= c }
    BY <1>5 DEF Between
  <2>2. { c \in 0 .. counter - 1 : from <= c } = from .. counter - 1
    BY <1>2
  <2> QED  BY <2>1, <2>2
<1>7. Cardinality(from .. counter - 1) = counter - from
  <2>1. counter - 1 \in Int /\ from \in Int
    BY <1>2
  <2>2. Cardinality(from .. counter - 1) =
            IF from > counter - 1 THEN 0 ELSE (counter - 1) - from + 1
    BY <2>1, FS_Interval
  <2> QED  BY <1>2, <2>2
<1> QED  BY <1>1, <1>6, <1>7

\* On a chain that is past the message there are none.
LEMMA BetweenLate ==
    ASSUME NEW chain_key \in ChainKey, NEW used, NEW first, NEW past,
           Follows(chain_key, used, first, past),
           NEW counter \in Nat, chain_key.index > counter
    PROVE  Cardinality(Between(used, chain_key.key, counter)) = 0
<1>1. chain_key.index \in Nat /\ chain_key.index # 0
  BY DEF ChainKey
<1>2. PICK k \in used : k.key = chain_key.key /\ k.index = chain_key.index - 1
  BY <1>1 DEF Follows
<1>3. ASSUME NEW c \in 0 .. counter - 1
      PROVE  ~(k.index < c)
  BY <1>1, <1>2
<1>4. Between(used, chain_key.key, counter) = {}
  BY <1>2, <1>3 DEF Between
<1> QED  BY <1>4, FS_EmptySet

\* On a chain that has opened nothing they are all there are.
LEMMA BetweenNew ==
    ASSUME NEW used, NEW name, \A k \in used : k.key # name, NEW counter \in Nat
    PROVE  Cardinality(Between(used, name, counter)) = counter
<1>1. Between(used, name, counter) = 0 .. counter - 1
  BY DEF Between
<1>2. Cardinality(0 .. counter - 1) = IF 0 > counter - 1 THEN 0 ELSE (counter - 1) - 0 + 1
  BY FS_Interval
<1> QED  BY <1>1, <1>2

\* Encrypting changes none of it.
LEMMA EncryptKept ==
    ASSUME NEW r \in RatchetState, NEW after \in RatchetState,
           after.receiver_chains = r.receiver_chains,
           after.skipped_message_keys = r.skipped_message_keys,
           Len(r.root_key) <= Len(after.root_key),
           NEW used, used \subseteq MessageKey, NEW first, NEW past \in Seq(MessageKey),
           Remain(r, used, first, past)
    PROVE  Remain(after, used, first, past)
<1>1. /\ \A k \in used : Len(k.key) <= Len(r.root_key) /\ Len(k.key) \in Nat
      /\ \A j \in DOMAIN past : Len(past[j].key) <= Len(r.root_key) /\ Len(past[j].key) \in Nat
  <2>1. \A k \in MessageKey : Len(k.key) \in Nat
    BY LenProperties DEF MessageKey, SharedKey
  <2>2. \A j \in DOMAIN past : past[j] \in MessageKey
    BY LenProperties, ElementOfSeq
  <2> QED  BY <2>1, <2>2 DEF Remain, PassedKept
<1>2. Len(r.root_key) \in Nat /\ Len(after.root_key) \in Nat
  BY RatchetFields
<1>3. /\ \A k \in used : Len(k.key) <= Len(after.root_key)
      /\ \A j \in DOMAIN past : Len(past[j].key) <= Len(after.root_key)
  BY <1>1, <1>2
<1>4. PassedKept(after, used, past)
  BY <1>3 DEF Remain, PassedKept
<1> QED  BY <1>3, <1>4 DEF Remain, ChainsKept

\* Nothing passed over adds nothing.
LEMMA OverNone ==
    ASSUME NEW name \in SharedKey, NEW to \in Nat, NEW past \in Seq(MessageKey)
    PROVE  Over(name, 0, to) \o past = past
<1>1. Over(name, 0, to) = <<>>
  BY DEF Over
<1> QED  BY <1>1, ConcatEmptySeq

\* Opening a message keeps what is kept.
LEMMA DecryptKept ==
    ASSUME NEW r \in RatchetState, KeysApart(r), NEW reader, Header(reader),
           reader.sealed_with \in MessageKey, CanDecrypt(r, reader),
           NEW used, used \subseteq MessageKey, NEW first, first \subseteq SharedKey,
           NEW past \in Seq(MessageKey), Remain(r, used, first, past),
           HasChain(r, reader) =>
              r.receiver_chains[ChainFor(r, reader)].chain_key.key = reader.sealed_with.key,
           reader.sealed_with.index = reader.counter,
           NEW gap, gap = Cardinality(Between(used, reader.sealed_with.key, reader.counter)),
           NEW after, after = AfterDecrypt(r, reader)
    PROVE  Remain(after, used \union {reader.sealed_with}, first,
                Over(reader.sealed_with.key, gap, reader.counter) \o past)
<1>1. PICK name, counter : name = reader.sealed_with.key /\ counter = reader.counter
  OBVIOUS
<1>2. /\ name \in SharedKey /\ counter \in Nat
      /\ reader.sealed_with = KeyAt(name, counter)
      /\ gap = Cardinality(Between(used, name, counter))
  <2>1. name \in SharedKey
    BY <1>1 DEF MessageKey
  <2>2. reader.sealed_with = KeyAt(name, counter)
    BY <1>1, KeyAtFields
  <2> QED  BY <1>1, <2>1, <2>2 DEF Header
<1>3. CASE ~HasChain(r, reader)
  <2>1. VerifyForNewChain(r, reader) /\ r.sender_chain # <<>>
    BY <1>3 DEF CanDecrypt, VerifyForNewChain
  <2>2. PICK mid : mid = StartReceiverChain(r, reader)
    OBVIOUS
  <2>3. /\ mid \in RatchetState
        /\ mid.root_key = CreateChainKey(r.root_key, r.sender_chain[1].ratchet_key,
                                           reader.ratchet_key).root_key
        /\ Len(mid.root_key) = Len(r.root_key) + 1
        /\ mid.sender_chain = <<>>
        /\ mid.skipped_message_keys = r.skipped_message_keys
        /\ 1 \in DOMAIN mid.receiver_chains
        /\ mid.receiver_chains[1] =
              [ratchet_key |-> reader.ratchet_key,
               chain_key   |-> [key |-> mid.root_key, index |-> 0]]
        /\ \A j \in DOMAIN mid.receiver_chains :
              j # 1 => /\ j - 1 \in DOMAIN r.receiver_chains
                       /\ mid.receiver_chains[j] = r.receiver_chains[j - 1]
    BY <2>1, <2>2, StartReceiverChainFields
  <2>4. KeysApart(mid)
    BY <2>1, <2>2, StartReceiverChainKeys
  <2>5. Remain(mid, used, first \union {mid.root_key}, past)
    BY <2>1, <2>2, StartKept
  <2>6. name = mid.root_key
    <3> DEFINE derived == CreateChainKey(r.root_key, r.sender_chain[1].ratchet_key,
                                         reader.ratchet_key)
    <3>1. VerifyForExistingChain(derived.chain_key, reader)
      BY <2>1 DEF VerifyForNewChain
    <3>2. derived.root_key = mid.root_key
      BY <2>3
    <3>3. derived.chain_key = [key |-> mid.root_key, index |-> 0]
      BY <3>2 DEF CreateChainKey
    <3> HIDE DEF derived
    <3>4. [derived.chain_key EXCEPT !.index = reader.counter] =
              [key |-> mid.root_key, index |-> reader.counter]
      BY <3>3
    <3> QED  BY <1>1, <3>1, <3>4 DEF VerifyForExistingChain, VerifyMac, CreateMessageKeys
  <2>7. /\ mid.receiver_chains[1].chain_key.key = name
        /\ mid.receiver_chains[1].chain_key.index = 0
    BY <2>3, <2>6
  <2>8. gap = counter
    <3>1. \A k \in used : Len(k.key) <= Len(r.root_key)
      BY DEF Remain
    <3>2. ~(Len(name) <= Len(r.root_key))
      <4>1. Len(r.root_key) \in Nat /\ Len(name) = Len(r.root_key) + 1
        BY <2>3, <2>6, RatchetFields
      <4> QED  BY <4>1
    <3>3. \A k \in used : k.key # name
      BY <3>1, <3>2
    <3> QED  BY <1>2, <3>3, BetweenNew
  <2>9. after = AdvanceReceiverChain(mid, 1, counter)
    BY <1>1, <1>3, <2>2 DEF AfterDecrypt
  <2>10. Remain(after, used \union {KeyAt(name, counter)}, first \union {name},
              Over(name, counter, counter) \o past)
    <3>1. PICK first2 : first2 = first \union {name}
      OBVIOUS
    <3>2. Remain(mid, used, first2, past)
      BY <2>5, <2>6, <3>1
    <3>3. counter >= mid.receiver_chains[1].chain_key.index
          /\ counter = counter - mid.receiver_chains[1].chain_key.index
      BY <1>2, <2>7
    <3>4. 1 \in DOMAIN mid.receiver_chains /\ mid \in RatchetState
          /\ name = mid.receiver_chains[1].chain_key.key
      BY <2>3, <2>7
    <3>5. Remain(after, used \union {KeyAt(name, counter)}, first2,
              Over(name, counter, counter) \o past)
      BY <1>2, <2>4, <2>9, <3>2, <3>3, <3>4, AdvanceKept
    <3> QED  BY <3>1, <3>5
  <2>11. \E k \in used \union {KeyAt(name, counter)} : k.key = name /\ k.index \in Nat
    BY <1>2, KeyAtFields
  <2>12. Remain(after, used \union {KeyAt(name, counter)}, first,
              Over(name, counter, counter) \o past)
    BY <2>10, <2>11, KeptWithout
  <2> QED  BY <1>1, <1>2, <2>8, <2>12
<1>4. CASE HasChain(r, reader) /\ IsLate(r, reader)
  <2>1. HasSkipped(r, reader) /\ after = UseSkippedKey(r, reader)
    BY <1>4 DEF CanDecrypt, AfterDecrypt
  <2>2. PICK i \in DOMAIN r.receiver_chains : i = ChainFor(r, reader)
    BY <1>4, ChainForFound
  <2>3. PICK chain_key : chain_key = r.receiver_chains[i].chain_key
    OBVIOUS
  <2>4. /\ chain_key \in ChainKey /\ Follows(chain_key, used, first, past)
        /\ chain_key.index > counter /\ chain_key.key = name
    BY <1>1, <1>4, <2>2, <2>3, ReceiverChainType DEF Remain, IsLate
  <2>5. gap = 0
    BY <1>2, <2>4, BetweenLate
  <2>6. Remain(after, used \union {reader.sealed_with}, first, past)
    BY <2>1, UseSkippedKept
  <2>7. Over(name, gap, counter) \o past = past
    BY <1>2, <2>5, OverNone
  <2> QED  BY <1>1, <2>6, <2>7, Zenon
<1>5. CASE HasChain(r, reader) /\ ~IsLate(r, reader)
  <2>1. PICK i \in DOMAIN r.receiver_chains : i = ChainFor(r, reader)
    BY <1>5, ChainForFound
  <2>2. after = AdvanceReceiverChain(r, i, counter)
    BY <1>1, <1>5, <2>1 DEF AfterDecrypt
  <2>3. counter >= r.receiver_chains[i].chain_key.index
    BY <1>1, <1>5, <2>1 DEF CanDecrypt, VerifyForExistingChain
  <2>4. PICK chain_key : chain_key = r.receiver_chains[i].chain_key
    OBVIOUS
  <2>5. /\ chain_key \in ChainKey /\ Follows(chain_key, used, first, past)
        /\ chain_key.key = name
    BY <1>1, <1>5, <2>1, <2>4, ReceiverChainType DEF Remain
  <2>6. gap = counter - chain_key.index
    BY <1>2, <2>3, <2>4, <2>5, BetweenAhead
  <2>7. /\ name = r.receiver_chains[i].chain_key.key
        /\ gap = counter - r.receiver_chains[i].chain_key.index
    BY <2>4, <2>5, <2>6
  <2>8. Remain(after, used \union {KeyAt(name, counter)}, first,
              Over(name, gap, counter) \o past)
    BY <1>2, <2>2, <2>3, <2>7, AdvanceKept
  <2> QED  BY <1>1, <1>2, <2>8
<1> QED  BY <1>3, <1>4, <1>5

-----------------------------------------------------------------------------
(* Why a message in reach opens *)

\* The chains of the messages opened that are newer than one called name.
Newer(used, name) == { n \in { k.key : k \in used } : Len(n) > Len(name) }

\* A ratchet whose chains are all newer than one has used MaxReceiverChains newer.
LEMMA NewerFill ==
    ASSUME NEW r \in RatchetState, KeysApart(r),
           NEW used, NEW first, \A f \in first : Len(f) = 0,
           NEW past, Remain(r, used, first, past), NEW name \in SharedKey,
           IsFiniteSet(Newer(used, name)),
           Len(r.receiver_chains) = MaxReceiverChains,
           \A i \in DOMAIN r.receiver_chains :
              Len(r.receiver_chains[i].chain_key.key) > Len(name)
    PROVE  Cardinality(Newer(used, name)) >= MaxReceiverChains
<1>1. /\ DOMAIN r.receiver_chains = 1..MaxReceiverChains
      /\ MaxReceiverChains \in Nat /\ Len(name) \in Nat
  BY RatchetFields, RatchetLimits, LenProperties DEF SharedKey
<1>2. ASSUME NEW i \in DOMAIN r.receiver_chains
      PROVE  r.receiver_chains[i].chain_key.key \in Newer(used, name)
  <2>1. PICK key : key = r.receiver_chains[i].chain_key.key
    OBVIOUS
  <2>2. key \in Names(used, first) /\ Len(key) > Len(name)
    BY <2>1, ChainIsNamed
  <2>3. key \notin first
    BY <1>1, <2>2
  <2>4. key \in Newer(used, name)
    BY <2>2, <2>3 DEF Names, Newer
  <2> QED  BY <2>1, <2>4
<1>3. ASSUME NEW i \in DOMAIN r.receiver_chains, NEW j \in DOMAIN r.receiver_chains,
             r.receiver_chains[i].chain_key.key = r.receiver_chains[j].chain_key.key
      PROVE  i = j
  <2>1. i \in Int /\ j \in Int
    BY <1>1
  <2>2. Len(r.receiver_chains[i].chain_key.key) \in Nat
    BY ReceiverChainType
  <2>3. ~(i < j) /\ ~(j < i)
    BY <1>3, <2>2 DEF KeysApart
  <2> QED  BY <2>1, <2>3
<1> DEFINE f == [i \in 1..MaxReceiverChains |-> r.receiver_chains[i].chain_key.key]
<1>4. f \in Injection(1..MaxReceiverChains, Newer(used, name))
  <2>1. f \in [1..MaxReceiverChains -> Newer(used, name)]
    BY <1>1, <1>2
  <2>2. \A i, j \in 1..MaxReceiverChains : f[i] = f[j] => i = j
    BY <1>1, <1>3
  <2> QED  BY <2>1, <2>2 DEF Injection, IsInjective
<1>5. Cardinality(1..MaxReceiverChains) <= Cardinality(Newer(used, name))
  BY <1>4, FS_Injection
<1>6. Cardinality(1..MaxReceiverChains) = MaxReceiverChains
  BY <1>1, FS_Interval
<1>7. Cardinality(Newer(used, name)) \in Nat
  BY FS_CardinalityType
<1> QED  BY <1>1, <1>5, <1>6, <1>7

\* A message on a chain that is held opens, when it is in reach of it.
LEMMA HeldOpens ==
    ASSUME NEW r \in RatchetState, NEW used, used \subseteq MessageKey, NEW first,
           NEW past \in Seq(MessageKey), Remain(r, used, first, past),
           NEW reader, Header(reader), reader.sealed_with \in MessageKey,
           reader.sealed_with.index = reader.counter, reader.sealed_with \notin used,
           HasChain(r, reader),
           r.receiver_chains[ChainFor(r, reader)].chain_key.key = reader.sealed_with.key,
           \A k \in DOMAIN r.skipped_message_keys :
              r.skipped_message_keys[k].message_key = reader.sealed_with
                 => r.skipped_message_keys[k].ratchet_key = reader.ratchet_key,
           \/ \E j \in DOMAIN past :
                 past[j] = reader.sealed_with /\ j <= MaxSkippedMessageKeys
           \/ /\ \A j \in DOMAIN past : past[j] # reader.sealed_with
              /\ Cardinality(Between(used, reader.sealed_with.key, reader.counter))
                    <= MaxMessageGap
    PROVE  CanDecrypt(r, reader)
<1>1. PICK name, counter : name = reader.sealed_with.key /\ counter = reader.counter
  OBVIOUS
<1>2. counter \in Nat /\ reader.sealed_with = KeyAt(name, counter)
  BY <1>1, KeyAtFields DEF Header
<1>3. PICK i \in DOMAIN r.receiver_chains : i = ChainFor(r, reader)
  BY ChainForFound
<1>4. PICK chain_key : chain_key = r.receiver_chains[i].chain_key
  OBVIOUS
<1>5. /\ chain_key \in ChainKey /\ chain_key.index \in Nat /\ chain_key.key = name
      /\ Follows(chain_key, used, first, past)
  BY <1>1, <1>3, <1>4, ReceiverChainType DEF Remain
<1>6. CASE chain_key.index > counter
  <2>1. IsLate(r, reader)
    BY <1>1, <1>3, <1>4, <1>6 DEF IsLate
  <2>2. counter \in 0 .. chain_key.index - 1
    BY <1>2, <1>5, <1>6
  <2>3. \E j \in DOMAIN past : past[j] = reader.sealed_with
    BY <1>2, <1>5, <2>2 DEF Follows
  <2>4. PICK j \in DOMAIN past : past[j] = reader.sealed_with /\ j <= MaxSkippedMessageKeys
    BY <2>3
  <2>5. PICK k \in DOMAIN r.skipped_message_keys :
           r.skipped_message_keys[k].message_key = reader.sealed_with
    BY <2>4 DEF Remain, PassedKept
  <2>6. Opens(r.skipped_message_keys[k], reader)
    BY <2>5 DEF Opens, VerifyMac
  <2> QED  BY <2>1, <2>6 DEF CanDecrypt, HasSkipped
<1>7. CASE ~(chain_key.index > counter)
  <2>1. ~IsLate(r, reader)
    BY <1>1, <1>3, <1>4, <1>7 DEF IsLate
  <2>2. counter >= chain_key.index
    BY <1>2, <1>5, <1>7
  <2>3. \A j \in DOMAIN past : past[j] # reader.sealed_with
    <3>1. ~(counter < chain_key.index)
      BY <1>2, <1>5, <2>2
    <3> QED  BY <1>1, <1>5, <3>1 DEF Follows
  <2>4. Cardinality(Between(used, name, counter)) <= MaxMessageGap
    BY <1>1, <2>3
  <2>5. counter - chain_key.index <= MaxMessageGap
    <3>1. Cardinality(Between(used, name, counter)) = counter - chain_key.index
      BY <1>2, <1>5, <2>2, BetweenAhead
    <3> QED  BY <2>4, <3>1
  <2>6. VerifyForExistingChain(chain_key, reader)
    <3>1. [chain_key EXCEPT !.index = reader.counter] = KeyAt(name, counter)
      BY <1>1, <1>5 DEF KeyAt, ChainKey
    <3>2. CreateMessageKeys(KeyAt(name, counter)) = KeyAt(name, counter)
      BY DEF CreateMessageKeys, KeyAt
    <3> QED  BY <1>1, <1>2, <2>2, <2>5, <3>1, <3>2 DEF VerifyForExistingChain, VerifyMac
  <2> QED  BY <1>3, <1>4, <2>1, <2>6 DEF CanDecrypt
<1> QED  BY <1>6, <1>7

\* A message on the next chain opens, when it is in reach of its start.
LEMMA NextOpens ==
    ASSUME NEW r \in RatchetState, NEW reader, Header(reader),
           reader.sealed_with \in MessageKey, reader.sealed_with.index = reader.counter,
           ~HasChain(r, reader), r.sender_chain # <<>>,
           reader.sealed_with.key =
               CreateChainKey(r.root_key, r.sender_chain[1].ratchet_key,
                              reader.ratchet_key).root_key,
           reader.counter <= MaxMessageGap
    PROVE  CanDecrypt(r, reader)
<1> DEFINE derived == CreateChainKey(r.root_key, r.sender_chain[1].ratchet_key,
                                     reader.ratchet_key)
<1>1. derived.chain_key = [key |-> reader.sealed_with.key, index |-> 0]
  BY DEF CreateChainKey
<1> HIDE DEF derived
<1>2. /\ [derived.chain_key EXCEPT !.index = reader.counter] =
            KeyAt(reader.sealed_with.key, reader.counter)
      /\ derived.chain_key.index = 0
  BY <1>1 DEF KeyAt
<1>3. reader.sealed_with = KeyAt(reader.sealed_with.key, reader.counter)
  BY KeyAtFields
<1>4. \A name, c : CreateMessageKeys(KeyAt(name, c)) = KeyAt(name, c)
  BY DEF CreateMessageKeys, KeyAt
<1>5. reader.counter >= 0 /\ reader.counter - 0 <= MaxMessageGap
  BY DEF Header
<1>6. VerifyForExistingChain(derived.chain_key, reader)
  BY <1>2, <1>3, <1>4, <1>5 DEF VerifyForExistingChain, VerifyMac
<1> QED  BY <1>6 DEF VerifyForNewChain, CanDecrypt, derived

\* A message opens that has not been opened, whose chain is the next one or one
\* the ratchet has had with fewer than MaxReceiverChains newer, and that is in
\* reach on its chain.
LEMMA KeptOpens ==
    ASSUME NEW r \in RatchetState, KeysApart(r), NEW used, used \subseteq MessageKey,
           NEW first, \A f \in first : Len(f) = 0,
           NEW past \in Seq(MessageKey), Remain(r, used, first, past),
           NEW reader, Header(reader), reader.sealed_with \in MessageKey,
           reader.sealed_with.index = reader.counter, reader.sealed_with \notin used,
           \A i \in DOMAIN r.receiver_chains :
              r.receiver_chains[i].ratchet_key = reader.ratchet_key
                 <=> r.receiver_chains[i].chain_key.key = reader.sealed_with.key,
           \A k \in DOMAIN r.skipped_message_keys :
              r.skipped_message_keys[k].message_key = reader.sealed_with
                 => r.skipped_message_keys[k].ratchet_key = reader.ratchet_key,
           IF Len(reader.sealed_with.key) <= Len(r.root_key)
           THEN reader.sealed_with.key \in Names(used, first)
           ELSE /\ r.sender_chain # <<>>
                /\ reader.sealed_with.key =
                      CreateChainKey(r.root_key, r.sender_chain[1].ratchet_key,
                                     reader.ratchet_key).root_key,
           IsFiniteSet(Newer(used, reader.sealed_with.key)),
           Cardinality(Newer(used, reader.sealed_with.key)) < MaxReceiverChains,
           \/ \E j \in DOMAIN past :
                 past[j] = reader.sealed_with /\ j <= MaxSkippedMessageKeys
           \/ /\ \A j \in DOMAIN past : past[j] # reader.sealed_with
              /\ Cardinality(Between(used, reader.sealed_with.key, reader.counter))
                    <= MaxMessageGap
    PROVE  CanDecrypt(r, reader)
<1>1. PICK name : name = reader.sealed_with.key
  OBVIOUS
<1>2. name \in SharedKey /\ Len(name) \in Nat /\ Len(r.root_key) \in Nat
  BY <1>1, RatchetFields, LenProperties DEF MessageKey, SharedKey
<1>3. CASE Len(name) <= Len(r.root_key)
  <2>1. name \in Names(used, first)
    BY <1>1, <1>3
  <2>2. CASE \E i \in DOMAIN r.receiver_chains : r.receiver_chains[i].chain_key.key = name
    <3>1. HasChain(r, reader)
      BY <1>1, <2>2 DEF HasChain
    <3>2. r.receiver_chains[ChainFor(r, reader)].chain_key.key = reader.sealed_with.key
      BY <3>1, ChainForFound
    <3> QED  BY <3>1, <3>2, HeldOpens
  <2>3. CASE /\ Len(r.receiver_chains) = MaxReceiverChains
             /\ \A i \in DOMAIN r.receiver_chains :
                   Len(r.receiver_chains[i].chain_key.key) > Len(name)
    <3>1. /\ Cardinality(Newer(used, name)) < MaxReceiverChains
          /\ IsFiniteSet(Newer(used, name))
      BY <1>1
    <3>2. Cardinality(Newer(used, name)) >= MaxReceiverChains
      BY <1>2, <2>3, <3>1, NewerFill
    <3>3. Cardinality(Newer(used, name)) \in Nat
      BY <3>1, FS_CardinalityType
    <3> QED  BY <3>1, <3>2, <3>3, RatchetLimits
  <2> QED  BY <2>1, <2>2, <2>3 DEF Remain, ChainsKept
<1>4. CASE ~(Len(name) <= Len(r.root_key))
  <2>1. /\ r.sender_chain # <<>>
        /\ name = CreateChainKey(r.root_key, r.sender_chain[1].ratchet_key,
                                 reader.ratchet_key).root_key
    BY <1>1, <1>4
  <2>2. ~HasChain(r, reader)
    <3>1. \A i \in DOMAIN r.receiver_chains :
             Len(r.receiver_chains[i].chain_key.key) <= Len(r.root_key)
      BY DEF KeysApart
    <3> QED  BY <1>1, <1>4, <3>1 DEF HasChain
  <2>3. /\ \A j \in DOMAIN past : past[j].key # name
        /\ \A k \in used : k.key # name
    BY <1>4 DEF Remain, PassedKept
  <2>4. /\ Cardinality(Between(used, name, reader.counter)) <= MaxMessageGap
        /\ Cardinality(Between(used, name, reader.counter)) = reader.counter
    <3>1. reader.counter \in Nat
      BY DEF Header
    <3> QED  BY <1>1, <2>3, <3>1, BetweenNew
  <2> QED  BY <1>1, <2>1, <2>2, <2>4, NextOpens
<1> QED  BY <1>3, <1>4

-----------------------------------------------------------------------------
(* Names: the ratchet key and the root key a chain is known by *)

ChainName(chain)   == <<chain.ratchet_key, chain.chain_key.key>>
MessageName(m)     == <<m.ratchet_key, m.sealed_with.key>>
SkippedName(skip)  == <<skip.ratchet_key, skip.message_key.key>>

\* An end without a sender chain has just received the newest chain of all.
NewestReceived(r) ==
    r.sender_chain = <<>> =>
        /\ 1 \in DOMAIN r.receiver_chains
        /\ r.receiver_chains[1].chain_key.key = r.root_key

\* What a kept key is kept for.
LEMMA AdvanceSkippedNames ==
    ASSUME NEW r \in RatchetState, NEW i \in DOMAIN r.receiver_chains,
           NEW counter \in Nat, counter >= r.receiver_chains[i].chain_key.index,
           NEW after, after = AdvanceReceiverChain(r, i, counter),
           NEW k \in DOMAIN after.skipped_message_keys
    PROVE  \/ SkippedName(after.skipped_message_keys[k]) = ChainName(r.receiver_chains[i])
           \/ \E j \in DOMAIN r.skipped_message_keys :
                 after.skipped_message_keys[k] = r.skipped_message_keys[j]
<1> DEFINE name == r.receiver_chains[i].chain_key.key
           d    == counter - r.receiver_chains[i].chain_key.index
<1>1. /\ after \in RatchetState
      /\ after.root_key = r.root_key
      /\ after.sender_chain = r.sender_chain
      /\ DOMAIN after.receiver_chains = DOMAIN r.receiver_chains
      /\ \A j \in DOMAIN r.receiver_chains :
            j # i => after.receiver_chains[j] = r.receiver_chains[j]
      /\ after.receiver_chains[i] =
            [ratchet_key |-> r.receiver_chains[i].ratchet_key,
             chain_key   |-> [key |-> name, index |-> counter + 1]]
      /\ \A j \in DOMAIN after.skipped_message_keys :
            IF j <= d
            THEN after.skipped_message_keys[j].message_key = [key |-> name, index |-> counter - j]
            ELSE /\ j - d \in DOMAIN r.skipped_message_keys
                 /\ after.skipped_message_keys[j] = r.skipped_message_keys[j - d]
  BY AdvanceReceiverChainFields
<1>2. /\ d \in Nat /\ counter = r.receiver_chains[i].chain_key.index + d
      /\ k \in Nat \ {0} /\ k <= MaxSkippedMessageKeys
      /\ Len(r.skipped_message_keys) \in Nat
  <2>1. r.receiver_chains[i].chain_key.index \in Nat
    BY ReceiverChainType
  <2>2. d \in Nat /\ counter = r.receiver_chains[i].chain_key.index + d
    BY <2>1
  <2>3. /\ Len(r.skipped_message_keys) \in Nat
        /\ Len(after.skipped_message_keys) \in 0..MaxSkippedMessageKeys
        /\ DOMAIN after.skipped_message_keys = 1..Len(after.skipped_message_keys)
    BY <1>1, RatchetFields
  <2>4. k \in Nat \ {0} /\ k <= MaxSkippedMessageKeys
    BY <2>3, RatchetLimits
  <2> QED  BY <2>2, <2>3, <2>4
<1>3. CASE k <= d
  <2>1. PICK e \in Nat : e = d
    BY <1>2
  <2>2. counter = r.receiver_chains[i].chain_key.index + e /\ k <= e
    BY <1>2, <1>3, <2>1
  <2>3. k <= e + Len(r.skipped_message_keys)
    BY <1>2, <2>2
  <2> HIDE <1>1
  <2> HIDE DEF d, name
  <2>4. /\ after.skipped_message_keys[k].ratchet_key = r.receiver_chains[i].ratchet_key
        /\ after.skipped_message_keys[k].message_key
              = KeyAt(r.receiver_chains[i].chain_key.key, counter - k)
    <3>1. \A j \in Nat \ {0} :
              /\ j <= MaxSkippedMessageKeys
              /\ j <= e + Len(r.skipped_message_keys)
              => /\ j \in DOMAIN after.skipped_message_keys
                 /\ j <= e =>
                      /\ after.skipped_message_keys[j].ratchet_key
                             = r.receiver_chains[i].ratchet_key
                      /\ after.skipped_message_keys[j].message_key
                             = KeyAt(r.receiver_chains[i].chain_key.key, counter - j)
                 /\ j > e =>
                      after.skipped_message_keys[j] = r.skipped_message_keys[j - e]
      BY <2>2, AdvanceSkipped
    <3> QED  BY <1>2, <2>2, <2>3, <3>1
  <2> QED  BY <2>4, KeyAtFields DEF SkippedName, ChainName
<1>4. CASE ~(k <= d)
  BY <1>1, <1>4
<1> QED  BY <1>3, <1>4

\* Decrypting keeps, beside what is kept, keys of the message's own chain, and
\* the newest chain is the one of the root key as long as there is no sender chain.
LEMMA DecryptNames ==
    ASSUME NEW r \in RatchetState, NEW reader, Header(reader), CanDecrypt(r, reader),
           NewestReceived(r), NEW after, after = AfterDecrypt(r, reader)
    PROVE  /\ NewestReceived(after)
           /\ \A k \in DOMAIN after.skipped_message_keys :
                 \/ SkippedName(after.skipped_message_keys[k]) = MessageName(reader)
                 \/ \E j \in DOMAIN r.skipped_message_keys :
                       after.skipped_message_keys[k] = r.skipped_message_keys[j]
<1>1. PICK counter \in Nat : counter = reader.counter
  BY DEF Header
<1>2. CASE ~HasChain(r, reader)
  <2>1. VerifyForNewChain(r, reader) /\ r.sender_chain # <<>>
    BY <1>2 DEF CanDecrypt, VerifyForNewChain
  <2>2. PICK mid : mid = StartReceiverChain(r, reader)
    OBVIOUS
  <2>3. /\ mid \in RatchetState
        /\ mid.root_key = CreateChainKey(r.root_key, r.sender_chain[1].ratchet_key,
                                           reader.ratchet_key).root_key
        /\ Len(mid.root_key) = Len(r.root_key) + 1
        /\ mid.sender_chain = <<>>
        /\ mid.skipped_message_keys = r.skipped_message_keys
        /\ 1 \in DOMAIN mid.receiver_chains
        /\ mid.receiver_chains[1] =
              [ratchet_key |-> reader.ratchet_key,
               chain_key   |-> [key |-> mid.root_key, index |-> 0]]
        /\ \A j \in DOMAIN mid.receiver_chains :
              j # 1 => /\ j - 1 \in DOMAIN r.receiver_chains
                       /\ mid.receiver_chains[j] = r.receiver_chains[j - 1]
    BY <2>1, <2>2, StartReceiverChainFields
  <2>4. /\ mid.receiver_chains[1].chain_key.key = mid.root_key
        /\ mid.receiver_chains[1].chain_key.index = 0
        /\ mid.receiver_chains[1].ratchet_key = reader.ratchet_key
    BY <2>3
  <2>5. reader.sealed_with.key = mid.root_key
    <3> DEFINE derived == CreateChainKey(r.root_key, r.sender_chain[1].ratchet_key,
                                         reader.ratchet_key)
    <3>1. VerifyForExistingChain(derived.chain_key, reader)
      BY <2>1 DEF VerifyForNewChain
    <3>2. derived.root_key = mid.root_key
      BY <2>3
    <3>3. derived.chain_key = [key |-> mid.root_key, index |-> 0]
      BY <3>2 DEF CreateChainKey
    <3> HIDE DEF derived
    <3>4. [derived.chain_key EXCEPT !.index = reader.counter] =
              [key |-> mid.root_key, index |-> reader.counter]
      BY <3>3
    <3> QED  BY <3>1, <3>4 DEF VerifyForExistingChain, VerifyMac, CreateMessageKeys
  <2>6. after = AdvanceReceiverChain(mid, 1, counter)
    BY <1>1, <1>2, <2>2 DEF AfterDecrypt
  <2>7. counter >= mid.receiver_chains[1].chain_key.index
    BY <2>4
  <2>8. \A k \in DOMAIN after.skipped_message_keys :
           \/ SkippedName(after.skipped_message_keys[k]) = MessageName(reader)
           \/ \E j \in DOMAIN r.skipped_message_keys :
                 after.skipped_message_keys[k] = r.skipped_message_keys[j]
    <3>1. ChainName(mid.receiver_chains[1]) = MessageName(reader)
      BY <2>4, <2>5 DEF ChainName, MessageName
    <3>2. 1 \in DOMAIN mid.receiver_chains /\ mid \in RatchetState
          /\ mid.skipped_message_keys = r.skipped_message_keys
      BY <2>3
    <3>3. \A k \in DOMAIN after.skipped_message_keys :
             \/ SkippedName(after.skipped_message_keys[k]) = ChainName(mid.receiver_chains[1])
             \/ \E j \in DOMAIN mid.skipped_message_keys :
                   after.skipped_message_keys[k] = mid.skipped_message_keys[j]
      BY <2>6, <2>7, <3>2, AdvanceSkippedNames
    <3> QED  BY <3>1, <3>2, <3>3
  <2>9. NewestReceived(after)
    <3>1. \E d : Advanced(mid, 1, mid.receiver_chains[1].chain_key.key, d, counter, after)
      <4>1. 1 \in DOMAIN mid.receiver_chains /\ mid \in RatchetState
        BY <2>3
      <4> QED  BY <2>6, <2>7, <4>1, AdvanceByName
    <3>2. /\ DOMAIN after.receiver_chains = DOMAIN mid.receiver_chains
          /\ after.root_key = mid.root_key
          /\ after.receiver_chains[1].chain_key.key = mid.root_key
      BY <2>4, <3>1, KeyAtFields DEF Advanced
    <3> QED  BY <2>3, <3>2 DEF NewestReceived
  <2> QED  BY <2>8, <2>9
<1>3. CASE HasChain(r, reader) /\ IsLate(r, reader)
  <2>1. HasSkipped(r, reader) /\ after = UseSkippedKey(r, reader)
    BY <1>3 DEF CanDecrypt, AfterDecrypt
  <2>2. /\ after.root_key = r.root_key
        /\ after.sender_chain = r.sender_chain
        /\ after.receiver_chains = r.receiver_chains
        /\ \A j \in DOMAIN after.skipped_message_keys :
              IF j < SkippedFor(r, reader)
              THEN /\ j \in DOMAIN r.skipped_message_keys
                   /\ after.skipped_message_keys[j] = r.skipped_message_keys[j]
              ELSE /\ j + 1 \in DOMAIN r.skipped_message_keys
                   /\ after.skipped_message_keys[j] = r.skipped_message_keys[j + 1]
    BY <2>1, UseSkippedKeyFields
  <2> QED  BY <2>2 DEF NewestReceived
<1>4. CASE HasChain(r, reader) /\ ~IsLate(r, reader)
  <2>1. PICK i \in DOMAIN r.receiver_chains :
           i = ChainFor(r, reader) /\ r.receiver_chains[i].ratchet_key = reader.ratchet_key
    BY <1>4, ChainForFound
  <2>2. after = AdvanceReceiverChain(r, i, counter)
    BY <1>1, <1>4, <2>1 DEF AfterDecrypt
  <2>3. PICK chain_key : chain_key = r.receiver_chains[i].chain_key
    OBVIOUS
  <2>4. VerifyForExistingChain(chain_key, reader) /\ chain_key \in ChainKey
    BY <1>4, <2>1, <2>3, ReceiverChainType DEF CanDecrypt
  <2>5. counter >= chain_key.index
    BY <1>1, <2>4 DEF VerifyForExistingChain
  <2>6. reader.sealed_with.key = chain_key.key
    <3>1. [chain_key EXCEPT !.index = reader.counter] =
              [key |-> chain_key.key, index |-> reader.counter]
      BY <2>4 DEF ChainKey
    <3> QED  BY <2>4, <3>1 DEF VerifyForExistingChain, VerifyMac, CreateMessageKeys
  <2>7. ChainName(r.receiver_chains[i]) = MessageName(reader)
    BY <2>1, <2>3, <2>6 DEF ChainName, MessageName
  <2>8. counter >= r.receiver_chains[i].chain_key.index
    BY <2>3, <2>5
  <2>9. \A k \in DOMAIN after.skipped_message_keys :
           \/ SkippedName(after.skipped_message_keys[k]) = ChainName(r.receiver_chains[i])
           \/ \E j \in DOMAIN r.skipped_message_keys :
                 after.skipped_message_keys[k] = r.skipped_message_keys[j]
    BY <2>2, <2>8, AdvanceSkippedNames
  <2>10. /\ after.root_key = r.root_key
         /\ after.sender_chain = r.sender_chain
         /\ DOMAIN after.receiver_chains = DOMAIN r.receiver_chains
         /\ \A j \in DOMAIN r.receiver_chains :
               after.receiver_chains[j].chain_key.key = r.receiver_chains[j].chain_key.key
    <3>1. \E name, d : /\ name = r.receiver_chains[i].chain_key.key
                       /\ Advanced(r, i, name, d, counter, after)
      BY <2>2, <2>8, AdvanceByName
    <3>2. after.sender_chain = r.sender_chain
      BY <2>2, RatchetFields DEF AdvanceReceiverChain
    <3> QED  BY <3>1, <3>2, KeyAtFields DEF Advanced
  <2> QED  BY <2>7, <2>9, <2>10 DEF NewestReceived
<1> QED  BY <1>2, <1>3, <1>4

\* A message counts along its chain, and a new chain answers the newest received.
LEMMA EncryptNames ==
    ASSUME NEW r \in RatchetState, NEW new_key,
           NEW after, after = AfterEncrypt(r, new_key),
           NEW message, message = Encrypted(r, new_key)
    PROVE  /\ message.counter = message.sealed_with.index
           /\ NeedsRatchetKey(r) =>
                 after.root_key = CreateChainKey(r.root_key, new_key,
                                                 r.receiver_chains[1].ratchet_key).root_key
<1>1. message.counter = message.sealed_with.index
  BY DEF Encrypted, CreateMessageKeys
<1>2. ASSUME NeedsRatchetKey(r)
      PROVE  after.root_key = CreateChainKey(r.root_key, new_key,
                                             r.receiver_chains[1].ratchet_key).root_key
  <2> DEFINE derived == CreateChainKey(r.root_key, new_key, r.receiver_chains[1].ratchet_key)
  <2>1. r \in [root_key             : SharedKey,
               sender_chain         : Seq(SenderChain),
               receiver_chains      : Seq(ReceiverChain),
               skipped_message_keys : Seq(SkippedMessageKey)]
    BY RatchetFields
  <2> HIDE DEF derived
  <2>2. PICK chains : StartSenderChain(r, new_key) =
                          [r EXCEPT !.root_key = derived.root_key, !.sender_chain = chains]
    BY DEF StartSenderChain, derived
  <2>3. PICK ready : ready = StartSenderChain(r, new_key)
    OBVIOUS
  <2>4. ready.root_key = derived.root_key /\ DOMAIN ready = DOMAIN r
    BY <2>1, <2>2, <2>3
  <2>5. PICK senders : after = [ready EXCEPT !.sender_chain = senders]
    BY <1>2, <2>3 DEF AfterEncrypt, ReadyToSend
  <2>6. after.root_key = ready.root_key
    BY <2>1, <2>4, <2>5
  <2> QED  BY <2>4, <2>6 DEF derived
<1> QED  BY <1>1, <1>2

-----------------------------------------------------------------------------
(* A ratchet just set up *)

\* The chain a session begins with is a chain of either kind.
LEMMA FirstChainType ==
    ASSUME NEW key \in RatchetKey
    PROVE  /\ FirstChain(key) \in ReceiverChain
           /\ FirstChain(key) \in SenderChain
           /\ FirstChain(key).chain_key.key = <<>>
BY DEF FirstChain, ReceiverChain, SenderChain, ChainKey, SharedKey

\* InitialiseAsAlice makes a ratchet that sends first, on the chain of the empty root key.
LEMMA OutboundRatchet ==
    ASSUME NEW key \in RatchetKey, NEW r, r = InitialiseAsAlice(key)
    PROVE  /\ r \in RatchetState
           /\ KeysApart(r)
           /\ Turns(r, 1)
<1> DEFINE first == FirstChain(key)
<1>a. first \in SenderChain /\ first.chain_key.key = <<>>
  BY FirstChainType
<1>1. r = [root_key |-> <<>>, sender_chain |-> <<first>>,
           receiver_chains |-> <<>>, skipped_message_keys |-> <<>>]
  BY DEF InitialiseAsAlice
<1> HIDE DEF first
<1>2. /\ <<first>> \in Seq(SenderChain) /\ Len(<<first>>) = 1 /\ <<first>> # <<>>
      /\ <<first>>[1] = first
  BY <1>a
<1>3. /\ \A S : <<>> \in Seq(S)
      /\ Len(<<>>) = 0 /\ DOMAIN <<>> = {}
      /\ 0 <= 1 /\ 1 <= 1 /\ 0 <= MaxReceiverChains /\ 0 <= MaxSkippedMessageKeys
  BY EmptySeq, RatchetLimits
<1>4. r \in [root_key : SharedKey, sender_chain : Seq(SenderChain),
             receiver_chains : Seq(ReceiverChain),
             skipped_message_keys : Seq(SkippedMessageKey)]
  BY <1>1, <1>2, <1>3 DEF SharedKey
<1>5. r \in RatchetState
  <2>1. /\ Len(r.sender_chain) = 1 /\ Len(r.receiver_chains) = 0
        /\ Len(r.skipped_message_keys) = 0
    BY <1>1, <1>2, <1>3
  <2> QED  BY <1>3, <1>4, <2>1 DEF RatchetState
<1>6. KeysApart(r)
  BY <1>1, <1>3 DEF KeysApart
<1>7. Turns(r, 1)
  BY <1>a, <1>1, <1>2, <1>3 DEF Turns, OnTurn
<1> QED  BY <1>5, <1>6, <1>7

\* InitialiseAsBob makes a ratchet that receives first, on the same chain.
LEMMA InboundRatchet ==
    ASSUME NEW key \in RatchetKey, NEW r, r = InitialiseAsBob(key)
    PROVE  /\ r \in RatchetState
           /\ KeysApart(r)
           /\ Turns(r, 0)
<1> DEFINE first == FirstChain(key)
<1>a. first \in ReceiverChain /\ first.chain_key.key = <<>>
  BY FirstChainType
<1>1. r = [root_key |-> <<>>, sender_chain |-> <<>>,
           receiver_chains |-> <<first>>, skipped_message_keys |-> <<>>]
  BY DEF InitialiseAsBob
<1> HIDE DEF first
<1>2. /\ <<first>> \in Seq(ReceiverChain) /\ Len(<<first>>) = 1 /\ <<first>> # <<>>
      /\ <<first>>[1] = first /\ DOMAIN <<first>> = {1}
  BY <1>a
<1>3. /\ \A S : <<>> \in Seq(S)
      /\ Len(<<>>) = 0 /\ DOMAIN <<>> = {} /\ 0 % 2 = 0
      /\ 0 <= 1 /\ 0 <= 0 /\ 1 <= MaxReceiverChains /\ 0 <= MaxSkippedMessageKeys
  BY EmptySeq, RatchetLimits
<1>4. r \in [root_key : SharedKey, sender_chain : Seq(SenderChain),
             receiver_chains : Seq(ReceiverChain),
             skipped_message_keys : Seq(SkippedMessageKey)]
  BY <1>1, <1>2, <1>3 DEF SharedKey
<1>5. r \in RatchetState
  <2>1. /\ Len(r.sender_chain) = 0 /\ Len(r.receiver_chains) = 1
        /\ Len(r.skipped_message_keys) = 0
    BY <1>1, <1>2, <1>3
  <2> QED  BY <1>3, <1>4, <2>1 DEF RatchetState
<1>6. KeysApart(r)
  BY <1>a, <1>1, <1>2, <1>3 DEF KeysApart
<1>7. Turns(r, 0)
  <2>1. /\ r.sender_chain = <<>> /\ r.receiver_chains = <<first>>
        /\ r.skipped_message_keys = <<>> /\ r.root_key = <<>>
    BY <1>1
  <2>2. OnTurn(<<>>, 0) /\ r.receiver_chains[1].chain_key.key = <<>>
    BY <1>a, <1>2, <1>3, <2>1 DEF OnTurn
  <2> QED  BY <1>2, <1>3, <2>1, <2>2 DEF Turns
<1> QED  BY <1>5, <1>6, <1>7

-----------------------------------------------------------------------------
(* One encryption *)

\* What a ratchet has to be for encrypt() to find or make its sender chain.
LEMMA EncryptKeys ==
    ASSUME NEW r \in RatchetState, KeysApart(r), NEW t \in {0, 1}, Turns(r, t),
           NEW new_key \in RatchetKey,
           NEW after, after = AfterEncrypt(r, new_key),
           NEW message, message = Encrypted(r, new_key)
    PROVE  /\ after \in RatchetState
           /\ KeysApart(after)
           /\ Turns(after, t)
           /\ \A message_key : Gone(r, message_key) => Gone(after, message_key)
           /\ message \in WireMessage
           /\ \A message_key : Spent(r, message_key) =>
                 Spent(after, message_key) /\ message_key # message.sealed_with
           /\ Spent(after, message.sealed_with)
           /\ ~OnTurn(message.sealed_with.key, t)
<1>1. NeedsRatchetKey(r) => r.receiver_chains # <<>>
  BY DEF Turns, NeedsRatchetKey
<1>2. /\ after \in RatchetState
      /\ after.sender_chain # <<>>
      /\ after.receiver_chains = r.receiver_chains
      /\ after.skipped_message_keys = r.skipped_message_keys
      /\ IF NeedsRatchetKey(r)
         THEN /\ Len(after.root_key) = Len(r.root_key) + 1
              /\ message.sealed_with.key = after.root_key
         ELSE /\ after.root_key = r.root_key
              /\ message.sealed_with.key = r.sender_chain[1].chain_key.key
              /\ message.sealed_with.index = r.sender_chain[1].chain_key.index
      /\ after.sender_chain[1].chain_key.key = message.sealed_with.key
      /\ after.sender_chain[1].chain_key.index = message.sealed_with.index + 1
      /\ message \in WireMessage
  BY <1>1, EncryptFields
<1>3. Len(r.root_key) \in Nat /\ Len(after.root_key) \in Nat
  BY <1>2, RatchetFields
<1>4. /\ Len(r.root_key) <= Len(after.root_key)
      /\ message.sealed_with.key = after.root_key
      /\ ~OnTurn(after.root_key, t)
  <2>1. CASE NeedsRatchetKey(r)
    <3>1. /\ Len(after.root_key) = Len(r.root_key) + 1
          /\ message.sealed_with.key = after.root_key
      BY <1>2, <2>1
    <3>2. Len(r.root_key) <= Len(after.root_key)
      BY <1>3, <3>1
    <3>3. OnTurn(r.root_key, t)
      BY <2>1 DEF Turns, NeedsRatchetKey
    <3>4. ~OnTurn(after.root_key, t)
      BY <1>2, <3>1, <3>3, RatchetFields, TurnsAlternate
    <3> QED  BY <3>1, <3>2, <3>4
  <2>2. CASE ~NeedsRatchetKey(r)
    <3>1. /\ after.root_key = r.root_key
          /\ message.sealed_with.key = r.sender_chain[1].chain_key.key
      BY <1>2, <2>2
    <3>2. ~OnTurn(r.root_key, t) /\ r.sender_chain[1].chain_key.key = r.root_key
      BY <2>2 DEF Turns, NeedsRatchetKey
    <3>3. Len(r.root_key) <= Len(after.root_key)
      BY <1>3, <3>1
    <3> QED  BY <3>1, <3>2, <3>3
  <2> QED  BY <2>1, <2>2
<1>5. \A i \in DOMAIN r.receiver_chains : Len(r.receiver_chains[i].chain_key.key) \in Nat
  BY ReceiverChainType
<1>6. \A k \in DOMAIN r.skipped_message_keys :
         Len(r.skipped_message_keys[k].message_key.key) \in Nat
  BY SkippedMessageKeyType
<1>7. KeysApart(after)
  <2>1. \A i \in DOMAIN after.receiver_chains :
           Len(after.receiver_chains[i].chain_key.key) <= Len(after.root_key)
    BY <1>2, <1>3, <1>4, <1>5 DEF KeysApart
  <2>2. \A k \in DOMAIN after.skipped_message_keys :
           Len(after.skipped_message_keys[k].message_key.key) <= Len(after.root_key)
    BY <1>2, <1>3, <1>4, <1>6 DEF KeysApart
  <2> QED  BY <1>2, <2>1, <2>2 DEF KeysApart
<1>8. Turns(after, t)
  <2>1. ~OnTurn(after.root_key, t)
    BY <1>4
  <2> QED  BY <1>2, <1>4, <2>1, SMTT(30) DEF Turns
<1>9. ASSUME NEW message_key, Gone(r, message_key)
      PROVE  Gone(after, message_key)
  <2>1. Len(message_key.key) \in Nat
    BY <1>9, LenProperties DEF Gone, MessageKey, SharedKey
  <2>2. Len(message_key.key) <= Len(r.root_key)
    BY <1>9 DEF Gone
  <2>3. Len(message_key.key) <= Len(after.root_key)
    BY <1>3, <1>4, <2>1, <2>2
  <2> QED  BY <1>2, <1>9, <2>3 DEF Gone
<1>10. /\ message.sealed_with \in MessageKey /\ message.sealed_with.index \in Nat
       /\ Spent(after, message.sealed_with)
  <2>1. message.sealed_with \in MessageKey
    BY <1>2 DEF WireMessage
  <2>2. message.sealed_with.index \in Nat
    BY <2>1 DEF MessageKey
  <2>3. message.sealed_with.index < after.sender_chain[1].chain_key.index
    BY <1>2, <2>2
  <2>4. Len(after.root_key) <= Len(after.root_key)
    BY <1>3
  <2> QED  BY <1>4, <2>1, <2>2, <2>3, <2>4 DEF Spent
<1>11. ASSUME NEW message_key, Spent(r, message_key)
       PROVE  Spent(after, message_key) /\ message_key # message.sealed_with
  <2>1. /\ message_key \in MessageKey
        /\ Len(message_key.key) \in Nat /\ message_key.index \in Nat
        /\ Len(message_key.key) <= Len(r.root_key)
    BY <1>11, LenProperties DEF Spent, MessageKey, SharedKey
  <2>2. Len(message_key.key) <= Len(after.root_key)
    BY <1>3, <1>4, <2>1
  <2>3. message_key.key = after.root_key => message_key.index < message.sealed_with.index
    <3>1. CASE NeedsRatchetKey(r)
      <4>1. Len(after.root_key) = Len(r.root_key) + 1
        BY <1>2, <3>1
      <4>2. Len(message_key.key) < Len(after.root_key)
        BY <1>3, <2>1, <4>1
      <4> QED  BY <1>3, <4>2
    <3>2. CASE ~NeedsRatchetKey(r)
      BY <1>2, <1>11, <3>2 DEF Spent, NeedsRatchetKey
    <3> QED  BY <3>1, <3>2
  <2>4. message.sealed_with.index < after.sender_chain[1].chain_key.index
    BY <1>2, <1>10
  <2>5. message_key.key = after.root_key
           => message_key.index < after.sender_chain[1].chain_key.index
    BY <1>2, <1>10, <2>1, <2>3, <2>4
  <2>6. message_key # message.sealed_with
    BY <1>4, <1>10, <2>3
  <2> QED  BY <2>1, <2>2, <2>5, <2>6 DEF Spent
<1>12. ~OnTurn(message.sealed_with.key, t)
  BY <1>4
<1> QED  BY <1>2, <1>7, <1>8, <1>9, <1>10, <1>11, <1>12
==============================================================================

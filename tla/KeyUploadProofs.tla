--------------------------- MODULE KeyUploadProofs ---------------------------
(***************************************************************************)
(* Theorems about KeyUpload, for any limit of the list, any number of keys *)
(* and any rounds of uploads and restarts.                                 *)
(*                                                                         *)
(* They follow from UploadInv, which is inductive.  A pickle may be older  *)
(* than what the account has done since, so every fact about the account   *)
(* is carried for its pickle too, and both agree with what was ever sent.  *)
(***************************************************************************)
EXTENDS KeyUpload, ObjectProofs

USE AccountLimit, GenerationBounds

-----------------------------------------------------------------------------
(* What they do to the keys, as sets, and to their order *)

\* The keys of a list in order are of its past, and no two of them clash.
LEMMA KeysOfAccount ==
    ASSUME NEW a \in AccountState, NEW made \in Nat, InOrder(a, made)
    PROVE  /\ \A k \in Keys(a) : /\ k \in OneTimeKey
                                 /\ k.id \in 1..a.next_one_time_key_id
                                 /\ k.key \in 1..made
           /\ Match(Keys(a), Keys(a))
<1>0. /\ a.one_time_keys \in Seq(OneTimeKey) /\ a.next_one_time_key_id \in Nat
      /\ Len(a.one_time_keys) \in Nat
      /\ DOMAIN a.one_time_keys = 1..Len(a.one_time_keys)
      /\ \A i \in DOMAIN a.one_time_keys : a.one_time_keys[i] \in OneTimeKey
  BY AccountFields
<1>1. ASSUME NEW i \in DOMAIN a.one_time_keys
      PROVE  /\ a.one_time_keys[i].id \in 1..a.next_one_time_key_id
             /\ a.one_time_keys[i].key \in 1..made
  BY <1>0 DEF InOrder
<1>2. ASSUME NEW i \in DOMAIN a.one_time_keys, NEW j \in DOMAIN a.one_time_keys
      PROVE  a.one_time_keys[i].id = a.one_time_keys[j].id
                 <=> a.one_time_keys[i].key = a.one_time_keys[j].key
  BY DEF InOrder
<1>3. \A k \in Keys(a) : \E i \in DOMAIN a.one_time_keys : k = a.one_time_keys[i]
  BY DEF Keys
<1>4. \A k \in Keys(a) : /\ k \in OneTimeKey
                         /\ k.id \in 1..a.next_one_time_key_id
                         /\ k.key \in 1..made
  BY <1>0, <1>1, <1>3
<1>5. ASSUME NEW k \in Keys(a), NEW l \in Keys(a)
      PROVE  k.id = l.id <=> k.key = l.key
  BY <1>2, <1>3
<1> QED  BY <1>4, <1>5 DEF Match

\* More key pairs made later take nothing from the order.
LEMMA InOrderGrows ==
    ASSUME NEW a, NEW made \in Nat, NEW more \in Nat, made <= more, InOrder(a, made)
    PROVE  InOrder(a, more)
BY DEF InOrder

\* Generating keeps the order: new keys have higher ids and later key pairs.
LEMMA GenerateInOrder ==
    ASSUME NEW a \in AccountState, NEW number \in Nat \ {0}, NEW made \in Nat,
           InOrder(a, made),
           NEW b, b = GenerateOneTimeKeys(a, number, made)
    PROVE  InOrder(b, made + number)
<1> DEFINE old == a.one_time_keys
           new == b.one_time_keys
           next == a.next_one_time_key_id
<1>0. /\ next \in Nat /\ Len(old) \in Nat /\ DOMAIN old = 1..Len(old)
      /\ Len(new) \in Nat /\ DOMAIN new = 1..Len(new)
      /\ b.next_one_time_key_id = next + number
  <2>1. next \in Nat /\ Len(old) \in Nat /\ DOMAIN old = 1..Len(old)
    BY AccountFields
  <2>2. /\ Len(new) \in Nat /\ DOMAIN new = 1..Len(new)
        /\ b.next_one_time_key_id = next + number
    BY GenerateElements
  <2> QED  BY <2>1, <2>2
<1>1. ASSUME NEW i \in DOMAIN new, i <= number
      PROVE  /\ new[i].id = next + number + 1 - i
             /\ new[i].key = made + number + 1 - i
  BY <1>1, GenerateElements
<1>2. ASSUME NEW i \in DOMAIN new, ~(i <= number)
      PROVE  i - number \in DOMAIN old /\ new[i] = old[i - number]
  BY <1>2, GenerateElements
<1>3. ASSUME NEW i \in DOMAIN old
      PROVE  /\ old[i].id \in 1 .. next + 1 - i
             /\ old[i].key \in 1..made
             /\ \A j \in DOMAIN old \ {i} : old[i].id # old[j].id /\ old[i].key # old[j].key
  BY DEF InOrder
<1> HIDE DEF old, new, next
<1>4. ASSUME NEW i \in DOMAIN new
      PROVE  /\ new[i].id \in 1 .. next + number + 1 - i
             /\ new[i].key \in 1..made + number
  <2>1. CASE i <= number
    BY <1>0, <1>1, <2>1
  <2>2. CASE ~(i <= number)
    BY <1>0, <1>2, <1>3, <2>2
  <2> QED  BY <2>1, <2>2
<1>5. ASSUME NEW i \in DOMAIN new, NEW j \in DOMAIN new \ {i}
      PROVE  new[i].id # new[j].id /\ new[i].key # new[j].key
  <2>1. CASE i <= number /\ j <= number
    BY <1>0, <1>1, <2>1
  <2>2. CASE i <= number /\ ~(j <= number)
    <3>1. new[j].id <= next /\ new[j].key <= made
      BY <1>0, <1>2, <1>3, <2>2
    <3>2. new[i].id > next /\ new[i].key > made
      BY <1>0, <1>1, <2>2
    <3>3. /\ new[i].id \in Int /\ new[j].id \in Int
          /\ new[i].key \in Int /\ new[j].key \in Int
      BY <1>4
    <3> QED  BY <1>0, <3>1, <3>2, <3>3
  <2>3. CASE ~(i <= number) /\ j <= number
    <3>1. new[i].id <= next /\ new[i].key <= made
      BY <1>0, <1>2, <1>3, <2>3
    <3>2. new[j].id > next /\ new[j].key > made
      BY <1>0, <1>1, <2>3
    <3>3. /\ new[i].id \in Int /\ new[j].id \in Int
          /\ new[i].key \in Int /\ new[j].key \in Int
      BY <1>4
    <3> QED  BY <1>0, <3>1, <3>2, <3>3
  <2>4. CASE ~(i <= number) /\ ~(j <= number)
    <3>1. i - number # j - number
      BY <1>0
    <3> QED  BY <1>2, <1>3, <2>4, <3>1
  <2> QED  BY <2>1, <2>2, <2>3, <2>4
<1>6. ASSUME NEW i \in DOMAIN b.one_time_keys
      PROVE  /\ b.one_time_keys[i].id \in 1 .. b.next_one_time_key_id + 1 - i
             /\ b.one_time_keys[i].key \in 1..made + number
             /\ \A j \in DOMAIN b.one_time_keys \ {i} :
                   /\ b.one_time_keys[i].id # b.one_time_keys[j].id
                   /\ b.one_time_keys[i].key # b.one_time_keys[j].key
  BY <1>0, <1>4, <1>5 DEF new
<1> QED  BY <1>6 DEF InOrder

\* A key after generating was there before, or is unpublished, with an id above the
\* old counter and a key pair made now.
LEMMA GenerateKeys ==
    ASSUME NEW a \in AccountState, NEW number \in Nat \ {0}, NEW made \in Nat,
           NEW b, b = GenerateOneTimeKeys(a, number, made), NEW k \in Keys(b)
    PROVE  \/ k \in Keys(a)
           \/ /\ ~k.published
              /\ k.id > a.next_one_time_key_id
              /\ k.key > made
<1>0. /\ a.next_one_time_key_id \in Nat /\ Len(b.one_time_keys) \in Nat
      /\ DOMAIN b.one_time_keys = 1..Len(b.one_time_keys)
  BY AccountFields, GenerateElements
<1>1. PICK i \in DOMAIN b.one_time_keys : k = b.one_time_keys[i]
  BY DEF Keys
<1>2. CASE i <= number
  <2>1. /\ k.id = a.next_one_time_key_id + number + 1 - i
        /\ ~k.published
        /\ k.key = made + number + 1 - i
    BY <1>1, <1>2, GenerateElements
  <2> QED  BY <1>0, <1>2, <2>1
<1>3. CASE ~(i <= number)
  <2>1. i - number \in DOMAIN a.one_time_keys /\ k = a.one_time_keys[i - number]
    BY <1>1, <1>3, GenerateElements
  <2> QED  BY <2>1 DEF Keys
<1> QED  BY <1>2, <1>3

\* A full list drops its oldest keys only, so none of the newest ids is missed.
LEMMA GenerateKept ==
    ASSUME NEW a \in AccountState, NEW number \in Nat \ {0}, NEW made \in Nat, NEW gone,
           InOrder(a, made), Kept(a, gone),
           NEW b, b = GenerateOneTimeKeys(a, number, made)
    PROVE  Kept(b, gone)
<1> DEFINE next == a.next_one_time_key_id
<1>0. /\ next \in Nat /\ Len(a.one_time_keys) \in Nat
      /\ DOMAIN a.one_time_keys = 1..Len(a.one_time_keys)
      /\ b.next_one_time_key_id = next + number
  BY AccountFields, GenerateElements
<1>1. SUFFICES ASSUME NEW id \in 1 .. next + number, next + number - id < MaxOneTimeKeys
               PROVE  \E k \in Keys(b) \union gone : k.id = id
  BY <1>0 DEF Kept
<1>2. CASE id > next
  <2> DEFINE i == next + number + 1 - id
  <2>1. i \in 1..MaxOneTimeKeys /\ i <= number /\ next + number + 1 - i = id
    BY <1>0, <1>1, <1>2
  <2> HIDE DEF i
  <2>2. i \in DOMAIN b.one_time_keys
    BY <2>1, GenerateElements
  <2>3. b.one_time_keys[i].id = id
    <3>1. \A j \in DOMAIN b.one_time_keys :
             j <= number => b.one_time_keys[j].id = next + number + 1 - j
      BY GenerateElements
    <3> QED  BY <2>1, <2>2, <3>1
  <2> QED  BY <2>2, <2>3 DEF Keys
<1>3. CASE ~(id > next)
  <2>1. PICK k \in Keys(a) \union gone : k.id = id
    <3>1. id \in 1..next /\ next - id < MaxOneTimeKeys
      BY <1>0, <1>1, <1>3
    <3> QED  BY <3>1 DEF Kept
  <2>2. CASE k \in Keys(a)
    <3>1. PICK p \in DOMAIN a.one_time_keys : k = a.one_time_keys[p]
      BY <2>2 DEF Keys
    <3>2. id \in 1 .. next + 1 - p
      BY <2>1, <3>1 DEF InOrder
    <3> DEFINE i == p + number
    <3>3. i \in 1..MaxOneTimeKeys /\ ~(i <= number) /\ i - number = p
      BY <1>0, <1>1, <3>2
    <3> HIDE DEF i
    <3>4. i \in DOMAIN b.one_time_keys
      BY <3>3, GenerateElements
    <3>5. b.one_time_keys[i] = k
      BY <3>1, <3>3, <3>4, GenerateElements
    <3> QED  BY <2>1, <3>4, <3>5 DEF Keys
  <2> QED  BY <2>1, <2>2
<1> QED  BY <1>2, <1>3

\* Removing takes out the key of that key pair and no other, and keeps the order.
LEMMA RemoveKeys ==
    ASSUME NEW a \in AccountState, NEW made \in Nat, InOrder(a, made),
           NEW key, LookupKey(a, key),
           NEW b, b = RemoveKey(a, key)
    PROVE  /\ InOrder(b, made)
           /\ Keys(b) = { k \in Keys(a) : k.key # key }
<1> DEFINE old == a.one_time_keys
           new == b.one_time_keys
           next == a.next_one_time_key_id
<1>0. /\ next \in Nat /\ Len(old) \in Nat /\ DOMAIN old = 1..Len(old)
  BY AccountFields
<1>1. PICK pos \in DOMAIN old :
        /\ old[pos].key = key
        /\ DOMAIN new = 1 .. Len(old) - 1
        /\ \A i \in DOMAIN new : new[i] = IF i < pos THEN old[i] ELSE old[i + 1]
  BY RemoveElements
<1>2. b.next_one_time_key_id = next
  BY RemoveElements
<1>3. ASSUME NEW i \in DOMAIN old
      PROVE  /\ old[i].id \in 1 .. next + 1 - i
             /\ old[i].key \in 1..made
             /\ \A j \in DOMAIN old \ {i} : old[i].id # old[j].id /\ old[i].key # old[j].key
  BY DEF InOrder
<1> HIDE DEF old, new, next
<1> DEFINE at(i) == IF i < pos THEN i ELSE i + 1
<1>4. /\ \A i \in DOMAIN new : /\ at(i) \in DOMAIN old \ {pos}
                               /\ at(i) \in i .. i + 1
                               /\ new[i] = old[at(i)]
      /\ \A i, j \in DOMAIN new : i # j => at(i) # at(j)
      /\ \A i \in DOMAIN old \ {pos} : \E j \in DOMAIN new : i = at(j)
  <2>1. \A i \in DOMAIN new : /\ at(i) \in DOMAIN old \ {pos}
                              /\ at(i) \in i .. i + 1
                              /\ new[i] = old[at(i)]
    BY <1>0, <1>1
  <2>2. \A i, j \in DOMAIN new : i # j => at(i) # at(j)
    BY <1>0, <1>1
  <2>3. ASSUME NEW i \in DOMAIN old \ {pos}
        PROVE  \E j \in DOMAIN new : i = at(j)
    <3>1. CASE i < pos
      <4>1. i \in DOMAIN new /\ i = at(i)
        BY <1>0, <1>1, <3>1
      <4> QED  BY <4>1
    <3>2. CASE ~(i < pos)
      <4>1. i - 1 \in DOMAIN new /\ i = at(i - 1)
        BY <1>0, <1>1, <3>2
      <4> QED  BY <4>1
    <3> QED  BY <3>1, <3>2
  <2> QED  BY <2>1, <2>2, <2>3
<1> HIDE DEF at
<1>5. ASSUME NEW i \in DOMAIN new
      PROVE  /\ new[i].id \in 1 .. next + 1 - i
             /\ new[i].key \in 1..made
             /\ \A j \in DOMAIN new \ {i} : new[i].id # new[j].id /\ new[i].key # new[j].key
  <2>1. new[i].id \in 1 .. next + 1 - i /\ new[i].key \in 1..made
    BY <1>0, <1>1, <1>3, <1>4
  <2>2. \A j \in DOMAIN new \ {i} : new[i].id # new[j].id /\ new[i].key # new[j].key
    BY <1>3, <1>4
  <2> QED  BY <2>1, <2>2
<1>6. InOrder(b, made)
  BY <1>2, <1>5 DEF InOrder, new, next
<1>7. \A i \in DOMAIN old : old[i].key # key <=> i # pos
  BY <1>1, <1>3
<1>8. { new[i] : i \in DOMAIN new } = { k \in { old[i] : i \in DOMAIN old } : k.key # key }
  <2>1. ASSUME NEW i \in DOMAIN new
        PROVE  new[i] \in { k \in { old[j] : j \in DOMAIN old } : k.key # key }
    BY <1>4, <1>7
  <2>2. ASSUME NEW i \in DOMAIN old, old[i].key # key
        PROVE  old[i] \in { new[j] : j \in DOMAIN new }
    BY <1>4, <1>7, <2>2
  <2> QED  BY <2>1, <2>2
<1> QED  BY <1>6, <1>8 DEF Keys, old, new

\* Marking keeps ids, key pairs and order, and leaves no key unpublished.
LEMMA MarkKeys ==
    ASSUME NEW a \in AccountState, NEW made \in Nat, InOrder(a, made),
           NEW b, b = MarkKeysAsPublished(a)
    PROVE  /\ InOrder(b, made)
           /\ \A l \in Keys(b) : \E k \in Keys(a) : l.id = k.id /\ l.key = k.key
           /\ \A k \in Keys(a) : \E l \in Keys(b) : l.id = k.id /\ l.key = k.key
<1>1. /\ b.next_one_time_key_id = a.next_one_time_key_id
      /\ DOMAIN b.one_time_keys = DOMAIN a.one_time_keys
  BY MarkElements
<1>2. ASSUME NEW i \in DOMAIN b.one_time_keys
      PROVE  /\ b.one_time_keys[i].id = a.one_time_keys[i].id
             /\ b.one_time_keys[i].key = a.one_time_keys[i].key
  <2>1. b.one_time_keys[i] = [id        |-> a.one_time_keys[i].id,
                              published |-> TRUE,
                              key       |-> a.one_time_keys[i].key]
    BY MarkElements, Zenon
  <2> QED  BY <2>1
<1>3. InOrder(b, made)
  BY <1>1, <1>2 DEF InOrder
<1> QED  BY <1>1, <1>2, <1>3 DEF Keys

-----------------------------------------------------------------------------
(* The invariant holds initially and is preserved, action by action *)

\* A new account, its pickle and an empty directory agree.
LEMMA InitUploadInv == Init => UploadInv
<1> SUFFICES ASSUME Init PROVE UploadInv
  OBVIOUS
<1>1. /\ account.one_time_keys = <<>> /\ account.next_one_time_key_id = 0
      /\ pickled = account /\ account = NewAccount
      /\ Known = {} /\ listed = {} /\ generated = 0
      /\ uploaded = {} /\ requests = {} /\ claimed = {} /\ used = {}
      /\ removed = [account |-> {}, pickled |-> {}]
  BY DEF Init, NewAccount, Known
<1>2. Keys(account) = {} /\ DOMAIN account.one_time_keys = {}
  BY <1>1 DEF Keys
<1>3. account \in AccountState
  <2>1. <<>> \in Seq(OneTimeKey) /\ Len(<<>>) = 0
    BY EmptySeq
  <2> QED  BY <1>1, <2>1 DEF AccountState, NewAccount
<1>4. TypeOK
  BY <1>1, <1>3 DEF TypeOK
<1>5. /\ InOrder(account, generated) /\ Kept(account, used) /\ MarkedIn(account, uploaded)
      /\ Match(Known, Keys(account)) /\ Match(Keys(pickled), Keys(account))
      /\ Match(Known, Known)
  BY <1>1, <1>2 DEF InOrder, Kept, MarkedIn, Match
<1> QED  BY <1>1, <1>4, <1>5 DEF UploadInv

\* What the invariant says of the two accounts, for the steps below to cite.
LEMMA UploadFacts ==
    ASSUME UploadInv
    PROVE  /\ account \in AccountState /\ pickled \in AccountState /\ generated \in Nat
           /\ \A a \in {account, pickled} :
                 /\ a.next_one_time_key_id \in Nat
                 /\ \A k \in Keys(a) : /\ k \in OneTimeKey
                                       /\ k.id \in 1..a.next_one_time_key_id
                                       /\ k.key \in 1..generated
                 /\ Match(Keys(a), Keys(a))
           /\ \A k \in Known : k.id \in 1..account.next_one_time_key_id
           /\ removed.account \in SUBSET used /\ removed.pickled \in SUBSET used
           /\ used \subseteq claimed /\ claimed \subseteq uploaded /\ uploaded \subseteq Known
<1>1. /\ account \in AccountState /\ pickled \in AccountState /\ generated \in Nat
      /\ removed \in [account : SUBSET used, pickled : SUBSET used]
      /\ used \subseteq claimed /\ claimed \subseteq uploaded
      /\ pickled.next_one_time_key_id <= account.next_one_time_key_id
      /\ \A k \in Known : k.id \in 1..pickled.next_one_time_key_id
      /\ InOrder(account, generated) /\ InOrder(pickled, generated)
  BY DEF UploadInv, TypeOK
<1>2. account.next_one_time_key_id \in Nat /\ pickled.next_one_time_key_id \in Nat
  BY <1>1, AccountFields
<1>3. \A a \in {account, pickled} :
         /\ \A k \in Keys(a) : /\ k \in OneTimeKey
                               /\ k.id \in 1..a.next_one_time_key_id
                               /\ k.key \in 1..generated
         /\ Match(Keys(a), Keys(a))
  BY <1>1, KeysOfAccount
<1>4. uploaded \subseteq Known
  BY DEF Known
<1> QED  BY <1>1, <1>2, <1>3, <1>4

\* New keys are unlike every key there ever was; what they push out is crowded out.
LEMMA GeneratePreserves ==
    ASSUME UploadInv, NEW number \in 1..MaxBatch, Generate(number)
    PROVE  UploadInv'
<1>1. /\ account' = GenerateOneTimeKeys(account, number, generated)
      /\ generated' = generated + number /\ listed = {} /\ listed' = {}
      /\ pickled' = pickled /\ requests' = requests /\ uploaded' = uploaded
      /\ claimed' = claimed /\ used' = used /\ removed' = removed /\ Known' = Known
  BY DEF Generate, Known
<1>2. /\ number \in Nat \ {0} /\ generated \in Nat /\ generated' \in Nat
      /\ generated <= generated'
      /\ account \in AccountState /\ pickled \in AccountState
      /\ InOrder(account, generated) /\ InOrder(pickled, generated)
      /\ Kept(account, used) /\ MarkedIn(account, uploaded)
      /\ account.next_one_time_key_id \in Nat /\ pickled.next_one_time_key_id \in Nat
      /\ pickled.next_one_time_key_id <= account.next_one_time_key_id
  BY <1>1, UploadFacts DEF UploadInv
<1>3. /\ account' \in AccountState
      /\ account'.next_one_time_key_id = account.next_one_time_key_id + number
  BY <1>1, <1>2, GenerateElements
<1>4. \A k \in Keys(account') :
         \/ k \in Keys(account)
         \/ /\ ~k.published
            /\ k.id > account.next_one_time_key_id
            /\ k.key > generated
  BY <1>1, <1>2, GenerateKeys
<1>5. TypeOK'
  BY <1>1, <1>2, <1>3 DEF UploadInv, TypeOK
<1>6. InOrder(account', generated') /\ InOrder(pickled', generated')
  <2>1. InOrder(account', generated')
    BY <1>1, <1>2, GenerateInOrder
  <2>2. InOrder(pickled', generated')
    BY <1>1, <1>2, InOrderGrows
  <2> QED  BY <2>1, <2>2
<1>7. Kept(account', used')
  BY <1>1, <1>2, GenerateKept
<1>8. MarkedIn(account', uploaded')
  BY <1>1, <1>2, <1>4 DEF MarkedIn
<1>9. Match(Known', Keys(account'))
  <2>1. ASSUME NEW k \in Known, NEW l \in Keys(account')
        PROVE  k.id = l.id <=> k.key = l.key
    <3>1. CASE l \in Keys(account)
      BY <3>1 DEF UploadInv, Match
    <3>2. CASE l.id > account.next_one_time_key_id /\ l.key > generated
      <4>1. k.id \in 1..account.next_one_time_key_id /\ k.key \in 1..generated
        BY UploadFacts DEF UploadInv
      <4> QED  BY <1>2, <3>2, <4>1
    <3> QED  BY <1>4, <3>1, <3>2
  <2> QED  BY <1>1, <2>1 DEF Match
<1>10. Match(Keys(pickled'), Keys(account'))
  <2>1. ASSUME NEW k \in Keys(pickled), NEW l \in Keys(account')
        PROVE  k.id = l.id <=> k.key = l.key
    <3>1. CASE l \in Keys(account)
      BY <3>1 DEF UploadInv, Match
    <3>2. CASE l.id > account.next_one_time_key_id /\ l.key > generated
      <4>1. k.id \in 1..pickled.next_one_time_key_id /\ k.key \in 1..generated
        BY UploadFacts
      <4> QED  BY <1>2, <3>2, <4>1
    <3> QED  BY <1>4, <3>1, <3>2
  <2> QED  BY <1>1, <2>1 DEF Match
<1>11. pickled'.next_one_time_key_id <= account'.next_one_time_key_id
  BY <1>1, <1>2, <1>3
<1>12. \A k \in Known' : k.id \in 1..pickled'.next_one_time_key_id /\ k.key \in 1..generated'
  BY <1>1, <1>2 DEF UploadInv
<1>13. \A k \in removed'.account : ~LookupKey(account', k.key)
  <2>1. ASSUME NEW k \in removed.account, NEW l \in Keys(account')
        PROVE  l.key # k.key
    <3>1. CASE l \in Keys(account)
      BY <3>1 DEF UploadInv, LookupKey
    <3>2. CASE l.key > generated
      <4>1. k.key \in 1..generated
        BY UploadFacts DEF UploadInv
      <4> QED  BY <1>2, <3>2, <4>1
    <3> QED  BY <1>4, <3>1, <3>2
  <2> QED  BY <1>1, <2>1 DEF LookupKey
<1> QED  BY <1>1, <1>5, <1>6, <1>7, <1>8, <1>9, <1>10, <1>11, <1>12, <1>13 DEF UploadInv

\* Listing only copies what is unpublished.
LEMMA ListPreserves == UploadInv /\ List => UploadInv'
<1> SUFFICES ASSUME UploadInv, List PROVE UploadInv'
  OBVIOUS
<1>1. /\ listed' = OneTimeKeys(account)
      /\ account' = account /\ generated' = generated /\ pickled' = pickled
      /\ requests' = requests /\ uploaded' = uploaded /\ claimed' = claimed
      /\ used' = used /\ removed' = removed /\ Known' = Known
  BY DEF List, Known
<1>2. OneTimeKeys(account) \in SUBSET PublicKey
  BY UploadFacts DEF OneTimeKeys, PublicKey, OneTimeKey
<1>3. TypeOK'
  BY <1>1, <1>2 DEF UploadInv, TypeOK
<1> QED  BY <1>1, <1>3 DEF UploadInv

\* What is sent is in the pickle, so that it stays in the past of every restart.
LEMMA SendPreserves == UploadInv /\ Send => UploadInv'
<1> SUFFICES ASSUME UploadInv, Send PROVE UploadInv'
  OBVIOUS
<1>1. /\ listed \subseteq OneTimeKeys(pickled)
      /\ requests' = requests \union {listed}
      /\ account' = account /\ generated' = generated /\ pickled' = pickled
      /\ listed' = listed /\ uploaded' = uploaded /\ claimed' = claimed
      /\ used' = used /\ removed' = removed /\ Known' = Known \union listed
  BY DEF Send, Known
<1>2. \A l \in listed : \E k \in Keys(pickled) : l.id = k.id /\ l.key = k.key
  BY <1>1 DEF OneTimeKeys
<1>3. /\ Match(Keys(pickled), Keys(pickled)) /\ Match(Keys(pickled), Keys(account))
      /\ Match(Known, Keys(pickled)) /\ Match(Known, Keys(account)) /\ Match(Known, Known)
      /\ \A k \in Keys(pickled) : k.id \in 1..pickled.next_one_time_key_id
                                  /\ k.key \in 1..generated
      /\ \A k \in Known : k.id \in 1..pickled.next_one_time_key_id /\ k.key \in 1..generated
  BY UploadFacts DEF UploadInv
<1>4. TypeOK'
  BY <1>1 DEF UploadInv, TypeOK
<1>5. Match(Known', Keys(account)) /\ Match(Known', Keys(pickled))
  BY <1>1, <1>2, <1>3 DEF Match
<1>6. Match(Known', Known')
  <2>1. ASSUME NEW k \in Known', NEW l \in Known'
        PROVE  k.id = l.id <=> k.key = l.key
    <3>1. CASE l \in Known
      <4>1. CASE k \in Known
        BY <1>3, <3>1, <4>1 DEF Match
      <4>2. CASE k \in listed
        <5>1. PICK m \in Keys(pickled) : k.id = m.id /\ k.key = m.key
          BY <1>2, <4>2
        <5>2. l.id = m.id <=> l.key = m.key
          BY <1>3, <3>1 DEF Match
        <5> QED  BY <5>1, <5>2
      <4> QED  BY <1>1, <4>1, <4>2
    <3>2. CASE l \in listed
      <4>1. PICK m \in Keys(pickled) : l.id = m.id /\ l.key = m.key
        BY <1>2, <3>2
      <4>2. k.id = m.id <=> k.key = m.key
        BY <1>5 DEF Match
      <4> QED  BY <4>1, <4>2
    <3> QED  BY <1>1, <3>1, <3>2
  <2> QED  BY <2>1 DEF Match
<1>7. \A k \in Known' : k.id \in 1..pickled.next_one_time_key_id /\ k.key \in 1..generated
  BY <1>1, <1>2, <1>3
<1> QED  BY <1>1, <1>4, <1>5, <1>6, <1>7 DEF UploadInv

\* A request that arrives, in time, late or again, tells the directory nothing new
\* about what was sent.
LEMMA UploadPreserves ==
    ASSUME UploadInv, NEW list \in requests, Upload(list)
    PROVE  UploadInv'
<1>1. /\ uploaded' = uploaded \union list /\ requests' = requests
      /\ account' = account /\ generated' = generated /\ pickled' = pickled
      /\ listed' = listed /\ claimed' = claimed /\ used' = used /\ removed' = removed
  BY DEF Upload
<1>2. Known' = Known
  BY <1>1 DEF Known
<1>3. TypeOK'
  <2>1. list \in SUBSET PublicKey
    BY DEF UploadInv, TypeOK
  <2> QED  BY <1>1, <2>1 DEF UploadInv, TypeOK
<1>4. MarkedIn(account, uploaded') /\ MarkedIn(pickled, uploaded')
  <2>1. MarkedIn(account, uploaded) /\ MarkedIn(pickled, uploaded)
    BY DEF UploadInv
  <2> QED  BY <1>1, <2>1, Zenon DEF MarkedIn
<1> QED  BY <1>1, <1>2, <1>3, <1>4 DEF UploadInv

\* Nothing was generated since the list was made, so all that is marked was in it.
LEMMA MarkPreserves == UploadInv /\ Mark => UploadInv'
<1> SUFFICES ASSUME UploadInv, Mark PROVE UploadInv'
  OBVIOUS
<1>1. /\ account' = MarkKeysAsPublished(account)
      /\ listed # {} /\ listed \subseteq uploaded /\ listed' = {}
      /\ generated' = generated /\ pickled' = pickled /\ requests' = requests
      /\ uploaded' = uploaded /\ claimed' = claimed /\ used' = used /\ removed' = removed
      /\ Known' = Known
  BY DEF Mark, Known
<1>2. account \in AccountState /\ generated \in Nat /\ InOrder(account, generated)
  BY UploadFacts DEF UploadInv
<1>3. account' \in AccountState
      /\ account'.next_one_time_key_id = account.next_one_time_key_id
  BY <1>1, <1>2, MarkElements
<1>4. /\ InOrder(account', generated)
      /\ \A l \in Keys(account') : \E k \in Keys(account) : l.id = k.id /\ l.key = k.key
      /\ \A k \in Keys(account) : \E l \in Keys(account') : l.id = k.id /\ l.key = k.key
  BY <1>1, <1>2, MarkKeys
<1>5. TypeOK'
  BY <1>1, <1>3 DEF UploadInv, TypeOK
<1>6. Kept(account', used)
  <2>1. Kept(account, used)
    BY DEF UploadInv
  <2>2. SUFFICES ASSUME NEW id \in 1..account.next_one_time_key_id,
                        account.next_one_time_key_id - id < MaxOneTimeKeys
                 PROVE  \E k \in Keys(account') \union used : k.id = id
    BY <1>3 DEF Kept
  <2>3. PICK k \in Keys(account) \union used : k.id = id
    BY <2>1, <2>2 DEF Kept
  <2> QED  BY <1>4, <2>3
<1>7. MarkedIn(account', uploaded)
  <2>1. ASSUME NEW k \in Keys(account)
        PROVE  [id |-> k.id, key |-> k.key] \in uploaded
    <3>1. CASE k.published
      <4>1. MarkedIn(account, uploaded)
        BY DEF UploadInv
      <4> QED  BY <3>1, <4>1 DEF MarkedIn
    <3>2. CASE ~k.published
      <4>1. [id |-> k.id, key |-> k.key] \in OneTimeKeys(account)
        BY <3>2, Zenon DEF OneTimeKeys
      <4>2. OneTimeKeys(account) \subseteq listed
        BY <1>1 DEF UploadInv
      <4> QED  BY <1>1, <4>1, <4>2
    <3> QED  BY <3>1, <3>2
  <2>2. ASSUME NEW l \in Keys(account')
        PROVE  [id |-> l.id, key |-> l.key] \in uploaded
    <3>1. PICK k \in Keys(account) : l.id = k.id /\ l.key = k.key
      BY <1>4
    <3> QED  BY <2>1, <3>1
  <2> QED  BY <2>2 DEF MarkedIn
<1>8. Match(Known, Keys(account')) /\ Match(Keys(pickled), Keys(account'))
  <2>1. Match(Known, Keys(account)) /\ Match(Keys(pickled), Keys(account))
    BY DEF UploadInv
  <2> QED  BY <1>4, <2>1 DEF Match
<1>9. \A k \in removed.account : ~LookupKey(account', k.key)
  <2>1. \A k \in removed.account : ~LookupKey(account, k.key)
    BY DEF UploadInv
  <2> QED  BY <1>4, <2>1 DEF LookupKey
<1> QED  BY <1>1, <1>3, <1>4, <1>5, <1>6, <1>7, <1>8, <1>9 DEF UploadInv

\* Giving a round up forgets the list; the keys stay unpublished.
LEMMA GiveUpPreserves == UploadInv /\ GiveUp => UploadInv'
<1> SUFFICES ASSUME UploadInv, GiveUp PROVE UploadInv'
  OBVIOUS
<1>1. /\ listed' = {}
      /\ account' = account /\ generated' = generated /\ pickled' = pickled
      /\ requests' = requests /\ uploaded' = uploaded /\ claimed' = claimed
      /\ used' = used /\ removed' = removed /\ Known' = Known
  BY DEF GiveUp, Known
<1>2. TypeOK'
  BY <1>1 DEF UploadInv, TypeOK
<1> QED  BY <1>1, <1>2 DEF UploadInv

\* Somebody is given a key: the account does not know.
LEMMA ClaimPreserves ==
    ASSUME UploadInv, NEW k \in uploaded, Claim(k)
    PROVE  UploadInv'
<1>1. /\ claimed' = claimed \union {k}
      /\ account' = account /\ generated' = generated /\ pickled' = pickled
      /\ listed' = listed /\ requests' = requests /\ uploaded' = uploaded
      /\ used' = used /\ removed' = removed /\ Known' = Known
  BY DEF Claim, Known
<1>2. TypeOK'
  BY <1>1 DEF UploadInv, TypeOK
<1> QED  BY <1>1, <1>2 DEF UploadInv

\* A key that is used leaves the account for good, and it alone.
LEMMA UsePreserves ==
    ASSUME UploadInv, NEW k \in claimed, Use(k)
    PROVE  UploadInv'
<1>1. /\ LookupKey(account, k.key) /\ account' = RemoveKey(account, k.key)
      /\ used' = used \union {k}
      /\ removed' = [removed EXCEPT !.account = @ \union {k}]
      /\ generated' = generated /\ pickled' = pickled /\ listed' = listed
      /\ requests' = requests /\ uploaded' = uploaded /\ claimed' = claimed
      /\ Known' = Known
  BY DEF Use, Known
<1>2. /\ account \in AccountState /\ pickled \in AccountState /\ generated \in Nat
      /\ InOrder(account, generated) /\ k \in Known
      /\ removed \in [account : SUBSET used, pickled : SUBSET used]
  <2>1. removed \in [account : SUBSET used, pickled : SUBSET used]
    BY DEF UploadInv, TypeOK
  <2>2. k \in Known
    BY UploadFacts
  <2> QED  BY <2>1, <2>2, UploadFacts DEF UploadInv
<1>3. account' \in AccountState
      /\ account'.next_one_time_key_id = account.next_one_time_key_id
  BY <1>1, <1>2, RemoveElements
<1>4. /\ InOrder(account', generated)
      /\ Keys(account') = { l \in Keys(account) : l.key # k.key }
  BY <1>1, <1>2, RemoveKeys
<1>5. /\ removed'.account = removed.account \union {k}
      /\ removed'.pickled = removed.pickled
      /\ removed' \in [account : SUBSET used', pickled : SUBSET used']
  BY <1>1, <1>2
<1>6. TypeOK'
  BY <1>1, <1>3, <1>5 DEF UploadInv, TypeOK
<1>7. Kept(account', used') /\ Kept(pickled, used')
  <2>1. Kept(account, used) /\ Kept(pickled, used)
    BY DEF UploadInv
  <2>2. Kept(pickled, used')
    BY <1>1, <2>1 DEF Kept
  <2>3. SUFFICES ASSUME NEW id \in 1..account.next_one_time_key_id,
                        account.next_one_time_key_id - id < MaxOneTimeKeys
                 PROVE  \E l \in Keys(account') \union used' : l.id = id
    BY <1>3, <2>2 DEF Kept
  <2>4. PICK l \in Keys(account) \union used : l.id = id
    BY <2>1, <2>3 DEF Kept
  <2>5. CASE l \in Keys(account) /\ l.key = k.key
    <3>1. Match(Known, Keys(account))
      BY DEF UploadInv
    <3>2. k.id = l.id
      BY <1>2, <2>5, <3>1 DEF Match
    <3> QED  BY <1>1, <2>4, <3>2
  <2> QED  BY <1>1, <1>4, <2>4, <2>5
<1>8. MarkedIn(account', uploaded)
  <2>1. MarkedIn(account, uploaded)
    BY DEF UploadInv
  <2> QED  BY <1>4, <2>1 DEF MarkedIn
<1>9. Match(Known, Keys(account')) /\ Match(Keys(pickled), Keys(account'))
  <2>1. Match(Known, Keys(account)) /\ Match(Keys(pickled), Keys(account))
    BY DEF UploadInv
  <2> QED  BY <1>4, <2>1 DEF Match
<1>10. listed # {} => OneTimeKeys(account') \subseteq listed
  <2>1. OneTimeKeys(account') \subseteq OneTimeKeys(account)
    BY <1>4, Zenon DEF OneTimeKeys
  <2>2. listed # {} => OneTimeKeys(account) \subseteq listed
    BY DEF UploadInv
  <2> QED  BY <2>1, <2>2
<1>11. \A l \in removed'.account : ~LookupKey(account', l.key)
  <2>1. \A l \in removed.account : ~LookupKey(account, l.key)
    BY DEF UploadInv
  <2> QED  BY <1>4, <1>5, <2>1 DEF LookupKey
<1>12. \A l \in removed'.pickled : ~LookupKey(pickled, l.key)
  BY <1>5 DEF UploadInv
<1> QED  BY <1>1, <1>3, <1>4, <1>6, <1>7, <1>8, <1>9, <1>10, <1>11, <1>12 DEF UploadInv

\* A pickle is as good as the account it is made of.
LEMMA SavePreserves == UploadInv /\ Save => UploadInv'
<1> SUFFICES ASSUME UploadInv, Save PROVE UploadInv'
  OBVIOUS
<1>1. /\ pickled' = account /\ account' = account
      /\ removed' = [removed EXCEPT !.pickled = removed.account]
      /\ generated' = generated /\ listed' = listed /\ requests' = requests
      /\ uploaded' = uploaded /\ claimed' = claimed /\ used' = used /\ Known' = Known
  BY DEF Save, Known
<1>2. removed \in [account : SUBSET used, pickled : SUBSET used]
  BY DEF UploadInv, TypeOK
<1>3. /\ removed'.account = removed.account /\ removed'.pickled = removed.account
      /\ removed' \in [account : SUBSET used, pickled : SUBSET used]
  BY <1>1, <1>2
<1>4. TypeOK'
  BY <1>1, <1>3 DEF UploadInv, TypeOK
<1>5. /\ Match(Keys(account), Keys(account))
      /\ account.next_one_time_key_id <= account.next_one_time_key_id
      /\ \A k \in Known : k.id \in 1..account.next_one_time_key_id
  BY UploadFacts
<1> QED  BY <1>1, <1>3, <1>4, <1>5 DEF UploadInv

\* A restart takes the account back to a past that everybody's keys are from.
LEMMA RestartPreserves == UploadInv /\ Restart => UploadInv'
<1> SUFFICES ASSUME UploadInv, Restart PROVE UploadInv'
  OBVIOUS
<1>1. /\ account' = UnpickleAccount(pickled) /\ pickled' = pickled /\ listed' = {}
      /\ removed' = [removed EXCEPT !.account = removed.pickled]
      /\ generated' = generated /\ requests' = requests
      /\ uploaded' = uploaded /\ claimed' = claimed /\ used' = used /\ Known' = Known
  BY DEF Restart, Known
<1>2. account' = pickled
  BY <1>1, UploadFacts, AccountRestored
<1>3. removed \in [account : SUBSET used, pickled : SUBSET used]
  BY DEF UploadInv, TypeOK
<1>4. /\ removed'.account = removed.pickled /\ removed'.pickled = removed.pickled
      /\ removed' \in [account : SUBSET used, pickled : SUBSET used]
  BY <1>1, <1>3
<1>5. TypeOK'
  BY <1>1, <1>2, <1>4 DEF UploadInv, TypeOK
<1>6. /\ Match(Keys(pickled), Keys(pickled))
      /\ pickled.next_one_time_key_id <= pickled.next_one_time_key_id
  BY UploadFacts
<1> QED  BY <1>1, <1>2, <1>4, <1>5, <1>6 DEF UploadInv

\* UploadInv holds in every reachable state: the owner's rounds, late and repeated
\* requests, and restarts from older pickles preserve it.
THEOREM UploadInvariance == Spec => []UploadInv
<1>1. UploadInv /\ [Next]_vars => UploadInv'
  <2> SUFFICES ASSUME UploadInv, [Next]_vars PROVE UploadInv'
    OBVIOUS
  <2>1. CASE \E number \in 1..MaxBatch : Generate(number)
    BY <2>1, GeneratePreserves
  <2>2. CASE List
    BY <2>2, ListPreserves
  <2>3. CASE Send
    BY <2>3, SendPreserves
  <2>4. CASE \E list \in requests : Upload(list)
    BY <2>4, UploadPreserves
  <2>5. CASE Mark
    BY <2>5, MarkPreserves
  <2>6. CASE GiveUp
    BY <2>6, GiveUpPreserves
  <2>7. CASE \E k \in uploaded : Claim(k)
    BY <2>7, ClaimPreserves
  <2>8. CASE \E k \in claimed : Use(k)
    BY <2>8, UsePreserves
  <2>9. CASE Save
    BY <2>9, SavePreserves
  <2>10. CASE Restart
    BY <2>10, RestartPreserves
  <2>11. CASE UNCHANGED vars
    BY <2>11 DEF vars, UploadInv, TypeOK, Known
  <2> QED
    BY <2>1, <2>2, <2>3, <2>4, <2>5, <2>6, <2>7, <2>8, <2>9, <2>10, <2>11 DEF Next
<1> QED  BY <1>1, InitUploadInv, PTL DEF Spec

-----------------------------------------------------------------------------
(* What follows from it *)

\* A list never outgrows its limit, and the sets are of the keys they should be of.
THEOREM UploadTypes == Spec => []TypeOK
<1>1. UploadInv => TypeOK
  BY DEF UploadInv
<1> QED  BY <1>1, UploadInvariance, PTL

\* Of the MaxOneTimeKeys newest ids, the account has every key that no session used.
THEOREM NewestAreKept == Spec => []NewestKept
<1>1. UploadInv => NewestKept
  BY DEF UploadInv, Kept, NewestKept
<1> QED  BY <1>1, UploadInvariance, PTL

\* Hence a key somebody holds or may be given works until it is used or crowded out.
THEOREM ServableKeys == Spec => []ServableUnlessCrowdedOut
<1>1. UploadInv => ServableUnlessCrowdedOut
  <2> SUFFICES ASSUME UploadInv, NEW k \in uploaded \ used,
                      ~(account.next_one_time_key_id - k.id >= MaxOneTimeKeys)
               PROVE  LookupKey(account, k.key)
    BY DEF ServableUnlessCrowdedOut
  <2>1. /\ k \in Known /\ k.id \in 1..account.next_one_time_key_id
        /\ account.next_one_time_key_id \in Nat
        /\ used \subseteq Known
        /\ Kept(account, used) /\ Match(Known, Known) /\ Match(Known, Keys(account))
        /\ TypeOK
    BY UploadFacts DEF UploadInv
  <2>2. PICK l \in Keys(account) \union used : l.id = k.id
    BY <2>1 DEF Kept
  <2>3. CASE l \in Keys(account)
    BY <2>1, <2>2, <2>3 DEF Match, LookupKey
  <2>4. CASE l \in used
    <3>1. l.key = k.key /\ l.id = k.id
      BY <2>1, <2>2, <2>4 DEF Match
    <3>2. l \in PublicKey /\ k \in PublicKey
      BY <2>1, <2>4 DEF TypeOK
    <3>3. l = k
      BY <3>1, <3>2 DEF PublicKey
    <3> QED  BY <2>4, <3>3
  <2> QED  BY <2>3, <2>4
<1> QED  BY <1>1, UploadInvariance, PTL

\* A key a session was started with is in no account again, after restarts too
\* unless its removal was never pickled.
THEOREM UsedKeysStayGone == Spec => []UsedKeysGone
<1>1. UploadInv => UsedKeysGone
  BY DEF UploadInv, UsedKeysGone
<1> QED  BY <1>1, UploadInvariance, PTL

\* The directory never has one id for two keys.
THEOREM DistinctIds == Spec => []UploadedIdsDistinct
<1>1. UploadInv => UploadedIdsDistinct
  <2> SUFFICES ASSUME UploadInv, NEW k \in uploaded, NEW l \in uploaded, k.id = l.id
               PROVE  k = l
    BY DEF UploadedIdsDistinct
  <2>1. k \in Known /\ l \in Known /\ Match(Known, Known)
    BY UploadFacts DEF UploadInv
  <2>2. k.key = l.key
    BY <2>1 DEF Match
  <2>3. k \in PublicKey /\ l \in PublicKey
    BY DEF UploadInv, TypeOK
  <2> QED  BY <2>2, <2>3 DEF PublicKey
<1> QED  BY <1>1, UploadInvariance, PTL

\* A key that is no longer listed for upload is one the directory has taken.
THEOREM MarkedWereTaken == Spec => []PublishedWereUploaded
<1>1. UploadInv => PublishedWereUploaded
  <2> SUFFICES ASSUME UploadInv PROVE PublishedWereUploaded
    OBVIOUS
  <2>1. MarkedIn(account, uploaded)
    BY DEF UploadInv
  <2> QED  BY <2>1, Zenon DEF MarkedIn, PublishedWereUploaded
<1> QED  BY <1>1, UploadInvariance, PTL
==============================================================================

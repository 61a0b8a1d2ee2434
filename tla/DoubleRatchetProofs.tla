------------------------- MODULE DoubleRatchetProofs -------------------------
(***************************************************************************)
(* Theorems about DoubleRatchet and RestoredSessions, for any limits of    *)
(* the three lists, any number of messages, every behaviour of the network *)
(* and every use of older pickles.                                         *)
(*                                                                         *)
(* The first rest on SessionInv, which is inductive.  Its steps rest on    *)
(* the lemmas of ObjectProofs about one ratchet: a key that is gone stays  *)
(* gone, and a message that opens takes its key along.                     *)
(* InStepInv adds how the two ratchets compare, and ReachInv what each     *)
(* still holds of all it has had, so that a message in reach opens.        *)
(* RestoredInv carries SessionInv over to the pickles.                     *)
(***************************************************************************)
EXTENDS RestoredSessions, ObjectProofs

USE TwoParties, SentBound

-----------------------------------------------------------------------------
(* The invariant, initially *)

\* Two sessions just set up, as outbound and inbound, satisfy the invariant.
LEMMA InitInv == Init => SessionInv
<1> SUFFICES ASSUME Init PROVE SessionInv
  OBVIOUS
<1>1. 0 \in RatchetKey
  BY DEF RatchetKey
<1>2. /\ InitialiseAsAlice(0) \in RatchetState
      /\ KeysApart(InitialiseAsAlice(0)) /\ Turns(InitialiseAsAlice(0), 1)
  BY <1>1, OutboundRatchet
<1>3. /\ InitialiseAsBob(0) \in RatchetState
      /\ KeysApart(InitialiseAsBob(0)) /\ Turns(InitialiseAsBob(0), 0)
  BY <1>1, InboundRatchet
<1>4. \A S : <<>> \in Seq(S)
  BY EmptySeq
<1>5. TypeOK
  BY <1>2, <1>3, <1>4 DEF Init, TypeOK, Party, Log
<1>6. ASSUME NEW p \in Party
      PROVE  /\ KeysApart(ratchet[p]) /\ Turns(ratchet[p], Turn(p))
             /\ received_message[p] <=> opened[p] # {}
             /\ OpenedAreGone(p)
             /\ SentAreBehind(p)
  BY <1>2, <1>3 DEF Init, Party, Turn, OpenedAreGone, SentAreBehind
<1> QED  BY <1>5, <1>6 DEF SessionInv

-----------------------------------------------------------------------------
(* The steps *)

\* The two parties are each other's peers and take opposite turns.
LEMMA PartyFacts ==
    \A p \in Party : /\ Turn(p) \in {0, 1}
                     /\ Peer(p) \in Party /\ Peer(p) # p
                     /\ Turn(Peer(p)) = 1 - Turn(p)
                     /\ \A q \in Party : q # p => q = Peer(p)
BY DEF Party, Peer, Turn

\* The messages of a log are of the wire, and their keys are message keys.
LEMMA SentMessage ==
    ASSUME TypeOK, NEW q \in Party, NEW n \in DOMAIN sent[q]
    PROVE  /\ n \in Nat \ {0} /\ Len(sent[q]) \in Nat /\ n <= Len(sent[q])
           /\ sent[q][n].message \in WireMessage
           /\ Header(sent[q][n].message)
           /\ sent[q][n].message.sealed_with \in MessageKey
           /\ sent[q][n].message.sealed_with.index \in Nat
           /\ Len(sent[q][n].message.sealed_with.key) \in Nat
<1>1. sent[q] \in Seq([type : {PRE_KEY, MESSAGE}, message : WireMessage])
  BY DEF TypeOK, Log
<1>2. /\ n \in Nat \ {0} /\ Len(sent[q]) \in Nat /\ n <= Len(sent[q])
      /\ sent[q][n] \in [type : {PRE_KEY, MESSAGE}, message : WireMessage]
  <2>1. DOMAIN sent[q] = 1..Len(sent[q]) /\ Len(sent[q]) \in Nat
    BY <1>1, LenProperties
  <2>2. n \in 1..Len(sent[q])
    BY <2>1
  <2>3. sent[q][n] \in [type : {PRE_KEY, MESSAGE}, message : WireMessage]
    BY <1>1, <2>2, ElementOfSeq
  <2>4. n \in Nat \ {0} /\ n <= Len(sent[q])
    BY <2>1, <2>2
  <2> QED  BY <2>1, <2>3, <2>4
<1>3. sent[q][n].message \in WireMessage
  BY <1>2
<1>4. /\ sent[q][n].message.ratchet_key \in RatchetKey
      /\ sent[q][n].message.counter \in Nat
      /\ sent[q][n].message.sealed_with \in MessageKey
  BY <1>3 DEF WireMessage
<1>5. /\ sent[q][n].message.sealed_with.index \in Nat
      /\ sent[q][n].message.sealed_with.key \in SharedKey
  BY <1>4 DEF MessageKey
<1> QED  BY <1>2, <1>3, <1>4, <1>5, LenProperties DEF Header, SharedKey

\* Session::encrypt preserves the invariant.
LEMMA EncryptStep ==
    ASSUME SessionInv, NEW p \in Party, Encrypt(p)
    PROVE  SessionInv'
<1> DEFINE r == ratchet[p]
<1>a. PICK after : after = AfterEncrypt(r, next_key)
  OBVIOUS
<1>b. PICK message : message = Encrypted(r, next_key)
  OBVIOUS
<1> DEFINE entry == [type |-> EncryptMessageType(p), message |-> message]
<1>0. /\ TypeOK
      /\ r \in RatchetState /\ next_key \in RatchetKey
      /\ KeysApart(r) /\ Turns(r, Turn(p)) /\ Turn(p) \in {0, 1}
  BY PartyFacts DEF SessionInv, TypeOK, RatchetKey
<1>1. /\ after \in RatchetState
      /\ KeysApart(after)
      /\ Turns(after, Turn(p))
      /\ \A message_key : Gone(r, message_key) => Gone(after, message_key)
      /\ message \in WireMessage
      /\ \A message_key : Spent(r, message_key) =>
            Spent(after, message_key) /\ message_key # message.sealed_with
      /\ Spent(after, message.sealed_with)
      /\ ~OnTurn(message.sealed_with.key, Turn(p))
  <2> DEFINE t == Turn(p)
  <2>1. r \in RatchetState /\ KeysApart(r) /\ t \in {0, 1} /\ Turns(r, t)
        /\ next_key \in RatchetKey
    BY <1>0
  <2> HIDE DEF r, t
  <2>2. /\ after \in RatchetState
        /\ KeysApart(after)
        /\ Turns(after, t)
        /\ \A message_key : Gone(r, message_key) => Gone(after, message_key)
        /\ message \in WireMessage
        /\ \A message_key : Spent(r, message_key) =>
              Spent(after, message_key) /\ message_key # message.sealed_with
        /\ Spent(after, message.sealed_with)
        /\ ~OnTurn(message.sealed_with.key, t)
    BY <1>a, <1>b, <2>1, EncryptKeys
  <2> QED  BY <2>2 DEF t
<1>2. /\ sent' = [sent EXCEPT ![p] = Append(sent[p], entry)]
      /\ ratchet' = [ratchet EXCEPT ![p] = after]
      /\ next_key' \in Nat
      /\ UNCHANGED <<received_message, opened, decrypted, passed>>
  BY <1>0, <1>a, <1>b DEF Encrypt, RatchetKey
<1>3. entry \in [type : {PRE_KEY, MESSAGE}, message : WireMessage]
  BY <1>1 DEF EncryptMessageType
<1> HIDE DEF entry
<1>4. /\ sent[p] \in Log /\ Len(sent[p]) \in Nat
      /\ DOMAIN sent[p] = 1..Len(sent[p])
      /\ Append(sent[p], entry) \in Log
      /\ Len(Append(sent[p], entry)) = Len(sent[p]) + 1
      /\ DOMAIN Append(sent[p], entry) = 1..Len(sent[p]) + 1
      /\ \A n \in DOMAIN sent[p] : Append(sent[p], entry)[n] = sent[p][n]
      /\ Append(sent[p], entry)[Len(sent[p]) + 1] = entry
  <2>1. sent[p] \in Seq([type : {PRE_KEY, MESSAGE}, message : WireMessage])
    BY <1>0 DEF TypeOK, Log
  <2>2. Append(sent[p], entry) \in Seq([type : {PRE_KEY, MESSAGE}, message : WireMessage])
    BY <1>3, <2>1, AppendProperties
  <2>3. /\ Len(Append(sent[p], entry)) = Len(sent[p]) + 1
        /\ \A n \in 1..Len(sent[p]) : Append(sent[p], entry)[n] = sent[p][n]
        /\ Append(sent[p], entry)[Len(sent[p]) + 1] = entry
    BY <1>3, <2>1, AppendProperties
  <2>4. DOMAIN sent[p] = 1..Len(sent[p]) /\ Len(sent[p]) \in Nat
    BY <2>1, LenProperties
  <2>5. DOMAIN Append(sent[p], entry) = 1..Len(Append(sent[p], entry))
    BY <2>2, LenProperties
  <2> QED  BY <2>1, <2>2, <2>3, <2>4, <2>5 DEF Log
<1>5. /\ sent'[p] = Append(sent[p], entry) /\ ratchet'[p] = after
      /\ \A q \in Party : q # p => sent'[q] = sent[q] /\ ratchet'[q] = ratchet[q]
      /\ DOMAIN sent = Party /\ DOMAIN sent' = Party
  BY <1>0, <1>2 DEF TypeOK
<1>6. \A q \in Party : \A n \in DOMAIN sent[q] :
         n \in DOMAIN sent'[q] /\ sent'[q][n] = sent[q][n]
  BY <1>4, <1>5
<1>7. TypeOK'
  BY <1>0, <1>1, <1>2, <1>4 DEF TypeOK
<1>8. ASSUME NEW q \in Party
      PROVE  /\ KeysApart(ratchet'[q]) /\ Turns(ratchet'[q], Turn(q))
             /\ received_message'[q] <=> opened'[q] # {}
  BY <1>1, <1>2, <1>5 DEF SessionInv
<1>9. ASSUME NEW q \in Party
      PROVE  OpenedAreGone(q)'
  <2> SUFFICES ASSUME NEW id \in opened[q]
               PROVE  /\ id[1] = Peer(q)
                      /\ id[2] \in DOMAIN sent'[id[1]]
                      /\ Gone(ratchet'[q], sent'[id[1]][id[2]].message.sealed_with)
    BY <1>2 DEF OpenedAreGone, Message
  <2>1. /\ id[1] = Peer(q) /\ id[1] \in Party
        /\ id[2] \in DOMAIN sent[id[1]]
        /\ Gone(ratchet[q], sent[id[1]][id[2]].message.sealed_with)
    BY PartyFacts DEF SessionInv, OpenedAreGone, Message
  <2>2. id[2] \in DOMAIN sent'[id[1]] /\ sent'[id[1]][id[2]] = sent[id[1]][id[2]]
    BY <1>6, <2>1
  <2>3. Gone(ratchet'[q], sent[id[1]][id[2]].message.sealed_with)
    BY <1>1, <1>5, <2>1
  <2> QED  BY <2>1, <2>2, <2>3
<1>10. SentAreBehind(p)'
  <2> DEFINE key(n) == sent[p][n].message.sealed_with
             last   == Len(sent[p]) + 1
  <2>1. /\ \A n \in DOMAIN sent[p] :
              Spent(r, key(n)) /\ ~OnTurn(key(n).key, Turn(p))
        /\ \A n, m \in DOMAIN sent[p] : key(n) = key(m) => n = m
    BY DEF SessionInv, SentAreBehind
  <2>2. \A n \in DOMAIN sent[p] : sent'[p][n].message.sealed_with = key(n)
    BY <1>6
  <2>3. sent'[p][last].message.sealed_with = message.sealed_with
    BY <1>4, <1>5 DEF entry
  <2>4. DOMAIN sent'[p] = DOMAIN sent[p] \union {last}
    BY <1>4, <1>5
  <2> HIDE DEF key, last
  <2>5. \A n \in DOMAIN sent'[p] :
           /\ Spent(after, sent'[p][n].message.sealed_with)
           /\ ~OnTurn(sent'[p][n].message.sealed_with.key, Turn(p))
    <3> TAKE n \in DOMAIN sent'[p]
    <3>1. CASE n \in DOMAIN sent[p]
      <4>1. Spent(after, key(n)) /\ ~OnTurn(key(n).key, Turn(p))
        BY <1>1, <2>1, <3>1
      <4>2. sent'[p][n].message.sealed_with = key(n)
        BY <2>2, <3>1
      <4> QED  BY <4>1, <4>2, Zenon
    <3>2. CASE n = last
      <4>1. Spent(after, message.sealed_with)
            /\ ~OnTurn(message.sealed_with.key, Turn(p))
        BY <1>1
      <4>2. sent'[p][n].message.sealed_with = message.sealed_with
        BY <2>3, <3>2
      <4> QED  BY <4>1, <4>2, Zenon
    <3> QED  BY <2>4, <3>1, <3>2
  <2>6. ASSUME NEW n \in DOMAIN sent'[p], NEW m \in DOMAIN sent'[p],
               sent'[p][n].message.sealed_with = sent'[p][m].message.sealed_with
        PROVE  n = m
    <3>1. \A k \in DOMAIN sent[p] : key(k) # message.sealed_with
      BY <1>1, <2>1
    <3> QED  BY <2>1, <2>2, <2>3, <2>4, <2>6, <3>1
  <2> QED  BY <1>5, <2>5, <2>6 DEF SentAreBehind
<1>11. ASSUME NEW q \in Party, q # p
       PROVE  SentAreBehind(q)'
  BY <1>5, <1>11 DEF SessionInv, SentAreBehind
<1> QED  BY <1>7, <1>8, <1>9, <1>10, <1>11 DEF SessionInv

\* The keys p passes over are message keys.
LEMMA PassedKeysType ==
    ASSUME NEW p \in Party, NEW reader, Header(reader), reader.sealed_with \in MessageKey
    PROVE  PassedKeys(p, reader) \in Seq(MessageKey)
<1> DEFINE gap == Cardinality(PassedBy(p, reader))
           key(i) == [reader.sealed_with EXCEPT !.index = reader.counter - i]
<1>0. reader.counter \in Nat
  BY DEF Header
<1>1. /\ IsFiniteSet(0 .. reader.counter - 1)
      /\ Cardinality(0 .. reader.counter - 1) = reader.counter
  BY <1>0, FS_Interval
<1>2. PassedBy(p, reader) \subseteq 0 .. reader.counter - 1
  BY DEF PassedBy
<1>3. gap \in Nat /\ gap <= reader.counter
  <2>1. IsFiniteSet(PassedBy(p, reader)) /\ gap <= Cardinality(0 .. reader.counter - 1)
    BY <1>1, <1>2, FS_Subset
  <2> QED  BY <1>1, <2>1, FS_CardinalityType
<1> HIDE DEF gap
<1>4. \A i \in 1..gap : key(i) \in MessageKey
  <2> TAKE i \in 1..gap
  <2>1. reader.counter - i \in Nat
    BY <1>0, <1>3
  <2> QED  BY <2>1 DEF MessageKey
<1>5. [i \in 1..gap |-> key(i)] \in Seq(MessageKey)
  BY <1>3, <1>4
<1> QED  BY <1>5 DEF PassedKeys, gap

\* What a call of decrypt does, if it can only succeed on a message of the peer.
LEMMA ReceiveStep ==
    ASSUME SessionInv, NEW p \in Party, NEW id, NEW reader, Header(reader),
           Receive(p, id, reader),
           CanDecrypt(ratchet[p], reader)
               => /\ id \in Party \X Nat /\ id[1] = Peer(p)
                  /\ id[2] \in DOMAIN sent[id[1]]
                  /\ reader = Message(id)
    PROVE  SessionInv'
<1> DEFINE r == ratchet[p]
           t == Turn(p)
<1>0. /\ TypeOK
      /\ r \in RatchetState
      /\ KeysApart(r) /\ Turns(r, t) /\ t \in {0, 1}
  BY PartyFacts DEF SessionInv, TypeOK
<1>1. CASE ~CanDecrypt(r, reader)
  <2>1. Decrypt(r, reader).ok = FALSE /\ Decrypt(r, reader).ratchet = r
    BY <1>1 DEF Decrypt
  <2>2. UNCHANGED <<ratchet, received_message, next_key, sent, opened, decrypted, passed>>
    BY <1>0, <2>1 DEF Receive, TypeOK
  <2> QED  BY <2>2 DEF SessionInv, TypeOK, OpenedAreGone, SentAreBehind, Message
<1>2. CASE CanDecrypt(r, reader)
  <2>a. PICK after : after = AfterDecrypt(r, reader)
    OBVIOUS
  <2>1. Decrypt(r, reader).ok = TRUE /\ Decrypt(r, reader).ratchet = after
    BY <1>2, <2>a DEF Decrypt
  <2>2. /\ ratchet' = [ratchet EXCEPT ![p] = after]
        /\ received_message' = [received_message EXCEPT ![p] = TRUE]
        /\ opened' = [opened EXCEPT ![p] = opened[p] \union {id}]
        /\ decrypted' = [decrypted EXCEPT ![p] = decrypted[p] + 1]
        /\ passed' = [passed EXCEPT ![p] = PassedKeys(p, reader) \o passed[p]]
        /\ UNCHANGED <<next_key, sent>>
    BY <2>1 DEF Receive
  <2>3. /\ after \in RatchetState
        /\ KeysApart(after)
        /\ Turns(after, t)
        /\ \A message_key : Gone(r, message_key) => Gone(after, message_key)
        /\ Gone(after, reader.sealed_with)
        /\ \/ after.root_key = r.root_key /\ after.sender_chain = r.sender_chain
           \/ Len(after.root_key) = Len(r.root_key) + 1 /\ after.sender_chain = <<>>
    <3> HIDE DEF r, t
    <3> QED  BY <1>0, <1>2, <2>a, DecryptOpens
  <2>4. /\ id \in Party \X Nat /\ id[1] = Peer(p)
        /\ id[2] \in DOMAIN sent[id[1]]
        /\ reader = Message(id)
    BY <1>2
  <2>5. /\ ratchet'[p] = after /\ received_message'[p] = TRUE
        /\ opened'[p] = opened[p] \union {id}
        /\ \A q \in Party : q # p => /\ ratchet'[q] = ratchet[q]
                                     /\ received_message'[q] = received_message[q]
                                     /\ opened'[q] = opened[q]
    BY <1>0, <2>2 DEF TypeOK
  <2>6. \A message_key : Spent(r, message_key) => Spent(after, message_key)
    <3> SUFFICES ASSUME NEW message_key, Spent(r, message_key)
                 PROVE  Spent(after, message_key)
      OBVIOUS
    <3>1. CASE after.root_key = r.root_key /\ after.sender_chain = r.sender_chain
      BY <3>1 DEF Spent
    <3>2. CASE Len(after.root_key) = Len(r.root_key) + 1 /\ after.sender_chain = <<>>
      <4>1. /\ Len(message_key.key) \in Nat /\ Len(r.root_key) \in Nat
            /\ Len(message_key.key) <= Len(r.root_key)
        BY <1>0, RatchetFields, LenProperties DEF Spent, MessageKey, SharedKey
      <4>2. Len(message_key.key) <= Len(after.root_key)
        BY <3>2, <4>1
      <4> QED  BY <3>2, <4>2 DEF Spent
    <3> QED  BY <2>3, <3>1, <3>2
  <2>7. TypeOK'
    <3>1. PassedKeys(p, reader) \o passed[p] \in Seq(MessageKey)
      <4>1. PassedKeys(p, reader) \in Seq(MessageKey)
        BY <2>3, PassedKeysType DEF Gone
      <4>2. passed[p] \in Seq(MessageKey)
        BY <1>0 DEF TypeOK
      <4> QED  BY <4>1, <4>2, ConcatProperties
    <3>2. passed' \in [Party -> Seq(MessageKey)]
      BY <1>0, <2>2, <3>1 DEF TypeOK
    <3>3. opened' \in [Party -> SUBSET (Party \X Nat)]
      <4>1. opened[p] \union {id} \in SUBSET (Party \X Nat)
        BY <1>0, <2>4 DEF TypeOK
      <4> QED  BY <1>0, <2>2, <4>1 DEF TypeOK
    <3>4. ratchet' \in [Party -> RatchetState]
      BY <1>0, <2>2, <2>3 DEF TypeOK
    <3>5. /\ received_message' \in [Party -> BOOLEAN]
          /\ decrypted' \in [Party -> Nat]
      BY <1>0, <2>2 DEF TypeOK
    <3> QED  BY <1>0, <2>2, <3>2, <3>3, <3>4, <3>5 DEF TypeOK
  <2>8. ASSUME NEW q \in Party
        PROVE  /\ KeysApart(ratchet'[q]) /\ Turns(ratchet'[q], Turn(q))
               /\ received_message'[q] <=> opened'[q] # {}
    <3>1. CASE q = p
      BY <2>3, <2>5, <3>1
    <3>2. CASE q # p
      BY <2>5, <3>2 DEF SessionInv
    <3> QED  BY <3>1, <3>2
  <2>9. OpenedAreGone(p)'
    <3> SUFFICES ASSUME NEW i \in opened[p] \union {id}
                 PROVE  /\ i[1] = Peer(p)
                        /\ i[2] \in DOMAIN sent[i[1]]
                        /\ Gone(after, sent[i[1]][i[2]].message.sealed_with)
      BY <2>2, <2>5 DEF OpenedAreGone, Message
    <3>1. CASE i = id
      BY <2>3, <2>4, <3>1 DEF Message
    <3>2. CASE i \in opened[p]
      BY <2>3, <3>2 DEF SessionInv, OpenedAreGone, Message
    <3> QED  BY <3>1, <3>2
  <2>10. ASSUME NEW q \in Party, q # p
         PROVE  OpenedAreGone(q)'
    BY <2>2, <2>5, <2>10 DEF SessionInv, OpenedAreGone, Message
  <2>11. SentAreBehind(p)'
    BY <2>2, <2>5, <2>6 DEF SessionInv, SentAreBehind
  <2>12. ASSUME NEW q \in Party, q # p
         PROVE  SentAreBehind(q)'
    BY <2>2, <2>5, <2>12 DEF SessionInv, SentAreBehind
  <2> QED  BY <2>7, <2>8, <2>9, <2>10, <2>11, <2>12 DEF SessionInv
<1> QED  BY <1>1, <1>2

\* A message a party sealed itself is refused: it is of the wrong turn.
LEMMA IntactFromPeer ==
    ASSUME SessionInv, NEW p \in Party, NEW q \in Party, NEW n \in DOMAIN sent[q],
           CanDecrypt(ratchet[p], sent[q][n].message)
    PROVE  /\ q = Peer(p) /\ n \in Nat
           /\ <<q, n>> \notin opened[p]
<1> DEFINE reader == sent[q][n].message
           r == ratchet[p]
           t == Turn(p)
<1>0. /\ TypeOK
      /\ r \in RatchetState
      /\ KeysApart(r) /\ Turns(r, t) /\ t \in {0, 1}
  BY PartyFacts DEF SessionInv, TypeOK
<1>1. Header(reader) /\ n \in Nat
  BY <1>0, SentMessage
<1>2. OnTurn(reader.sealed_with.key, t)
  <2>a. PICK after : after = AfterDecrypt(r, reader)
    OBVIOUS
  <2>b. CanDecrypt(r, reader)
    OBVIOUS
  <2> HIDE DEF r, t, reader
  <2> QED  BY <1>0, <1>1, <2>a, <2>b, DecryptOpens
<1>3. q # p
  BY <1>2 DEF SessionInv, SentAreBehind
<1>4. ASSUME <<q, n>> \in opened[p]
      PROVE  FALSE
  <2>1. Gone(r, reader.sealed_with)
    BY <1>4 DEF SessionInv, OpenedAreGone, Message
  <2> QED  BY <1>0, <1>1, <2>1, GoneIsRefused
<1> QED  BY <1>1, <1>3, <1>4, PartyFacts

\* A damaged message is refused.
LEMMA DamagedIsRefused ==
    ASSUME SessionInv, NEW p \in Party, NEW k \in Nat, NEW c \in Nat
    PROVE  ~CanDecrypt(ratchet[p], [ratchet_key |-> k, counter |-> c, sealed_with |-> NoKey])
<1> DEFINE r == ratchet[p]
           t == Turn(p)
<1>a. PICK reader : reader = [ratchet_key |-> k, counter |-> c, sealed_with |-> NoKey]
  OBVIOUS
<1>0. /\ r \in RatchetState
      /\ KeysApart(r) /\ Turns(r, t) /\ t \in {0, 1}
  BY PartyFacts DEF SessionInv, TypeOK
<1>1. Header(reader)
  BY <1>a DEF Header, RatchetKey
<1>2. reader.sealed_with.index = -1 /\ reader.counter \in Nat
  BY <1>a DEF NoKey
<1>3. ASSUME CanDecrypt(r, reader)
      PROVE  FALSE
  <2>a. PICK after : after = AfterDecrypt(r, reader)
    OBVIOUS
  <2> HIDE DEF r, t
  <2>1. reader.sealed_with.index = reader.counter
    BY <1>0, <1>1, <1>3, <2>a, DecryptOpens
  <2> QED  BY <1>2, <2>1
<1> QED  BY <1>a, <1>3

\* Session pickled and restored is the session: nothing has changed.
LEMMA RestartStep ==
    ASSUME SessionInv, NEW p \in Party, Restart(p)
    PROVE  UNCHANGED vars
<1>1. ratchet \in [Party -> RatchetState]
  BY DEF SessionInv, TypeOK
<1>2. Unpickle(ratchet[p]) = ratchet[p]
  BY <1>1, UnpickleIsIdentity
<1> QED  BY <1>1, <1>2 DEF Restart, vars

-----------------------------------------------------------------------------
(* The theorems *)

\* Every call, and whatever the network does, keeps the invariant.
LEMMA NextInv == SessionInv /\ [Next]_vars => SessionInv'
<1> SUFFICES ASSUME SessionInv, [Next]_vars
             PROVE  SessionInv'
  OBVIOUS
<1>0. TypeOK
  BY DEF SessionInv
<1>1. CASE UNCHANGED vars
  BY <1>1 DEF SessionInv, TypeOK, OpenedAreGone, SentAreBehind, Message, vars
<1>2. ASSUME NEW p \in Party, Encrypt(p)
      PROVE  SessionInv'
  BY <1>2, EncryptStep
<1>3. ASSUME NEW p \in Party, ReceiveIntact(p)
      PROVE  SessionInv'
  <2>0. PICK q \in Party : \E n \in DOMAIN sent[q] :
                              Receive(p, <<q, n>>, sent[q][n].message)
    BY <1>3 DEF ReceiveIntact
  <2>1. PICK n \in DOMAIN sent[q] : Receive(p, <<q, n>>, sent[q][n].message)
    BY <2>0
  <2>2. Header(sent[q][n].message)
    BY <1>0, SentMessage
  <2>3. CanDecrypt(ratchet[p], sent[q][n].message)
           => /\ <<q, n>> \in Party \X Nat /\ <<q, n>>[1] = Peer(p)
              /\ <<q, n>>[2] \in DOMAIN sent[<<q, n>>[1]]
              /\ sent[q][n].message = Message(<<q, n>>)
    BY IntactFromPeer DEF Message
  <2> QED  BY <2>1, <2>2, <2>3, ReceiveStep
<1>4. ASSUME NEW p \in Party, ReceiveDamaged(p)
      PROVE  SessionInv'
  <2>1. PICK k \in 0..next_key, c \in 0..MaxSent :
           Receive(p, <<Peer(p), 0>>,
                   [ratchet_key |-> k, counter |-> c, sealed_with |-> NoKey])
    BY <1>4 DEF ReceiveDamaged
  <2>2. k \in Nat /\ c \in Nat
    BY <1>0, SentBound DEF TypeOK
  <2>a. PICK reader : reader = [ratchet_key |-> k, counter |-> c, sealed_with |-> NoKey]
    OBVIOUS
  <2>3. Header(reader)
    BY <2>2, <2>a DEF Header, RatchetKey
  <2>4. ~CanDecrypt(ratchet[p], reader)
    BY <2>2, <2>a, DamagedIsRefused
  <2>5. Receive(p, <<Peer(p), 0>>, reader)
    BY <2>1, <2>a
  <2> QED  BY <2>3, <2>4, <2>5, ReceiveStep
<1>5. ASSUME NEW p \in Party, Restart(p)
      PROVE  SessionInv'
  BY <1>1, <1>5, RestartStep
<1> QED  BY <1>1, <1>2, <1>3, <1>4, <1>5 DEF Next

\* SessionInv holds in every reachable state.
THEOREM Invariance == Spec => []SessionInv
<1>1. Init => SessionInv
  BY InitInv
<1>2. SessionInv /\ [Next]_vars => SessionInv'
  BY NextInv
<1> QED  BY <1>1, <1>2, PTL DEF Spec

\* The state keeps its types, and no list of a ratchet outgrows its capacity.
THEOREM TypeCorrect == Spec => []TypeOK
<1>1. SessionInv => TypeOK
  BY DEF SessionInv
<1> QED  BY <1>1, Invariance, PTL

\* A message that was opened once is refused ever after, whichever of its keys
\* fell off a list, whatever arrives in between, and across restarts.
THEOREM ReplayRefused == Spec => []NoReplay
<1>1. SessionInv => NoReplay
  <2> SUFFICES ASSUME SessionInv, NEW p \in Party, NEW id \in opened[p]
               PROVE  ~CanDecrypt(ratchet[p], Message(id))
    BY DEF NoReplay
  <2>1. TypeOK /\ ratchet[p] \in RatchetState
    BY DEF SessionInv, TypeOK
  <2>2. /\ id[1] \in Party /\ id[2] \in DOMAIN sent[id[1]]
        /\ Gone(ratchet[p], Message(id).sealed_with)
    BY PartyFacts DEF SessionInv, OpenedAreGone
  <2>3. Header(Message(id))
    BY <2>1, <2>2, SentMessage DEF Message
  <2> QED  BY <2>1, <2>2, <2>3, GoneIsRefused
<1> QED  BY <1>1, Invariance, PTL

\* What is gone from a ratchet, or spent by it, it cannot derive: the one is on the
\* turn of its receiver chains, the other on that of its sender chain.
LEMMA NotDerivable ==
    ASSUME NEW r \in RatchetState, NEW t \in {0, 1}, Turns(r, t), NEW key,
           \/ Gone(r, key) /\ OnTurn(key.key, t)
           \/ Spent(r, key) /\ ~OnTurn(key.key, t)
    PROVE  ~Derivable(r, key)
<1>1. /\ \A i \in DOMAIN r.receiver_chains :
            /\ OnTurn(r.receiver_chains[i].chain_key.key, t)
            /\ r.receiver_chains[i].chain_key.index \in Nat
      /\ \A k \in DOMAIN r.skipped_message_keys :
            OnTurn(r.skipped_message_keys[k].message_key.key, t)
  BY ReceiverChainType DEF Turns
<1>2. \A j \in DOMAIN r.sender_chain :
         /\ j = 1 /\ r.sender_chain # <<>>
         /\ ~OnTurn(r.sender_chain[j].chain_key.key, t)
         /\ r.sender_chain[j].chain_key.key = r.root_key
         /\ r.sender_chain[j].chain_key.index \in Nat
  <2> TAKE j \in DOMAIN r.sender_chain
  <2>1. r.sender_chain # <<>>
    OBVIOUS
  <2>2. j = 1
    BY <2>1, RatchetFields, SenderChainType
  <2> QED  BY <2>1, <2>2, SenderChainType DEF Turns
<1>3. CASE Gone(r, key) /\ OnTurn(key.key, t)
  <2>0. key.index \in Nat
    BY <1>3 DEF Gone, MessageKey
  <2>1. \A i \in DOMAIN r.receiver_chains :
           ~( /\ r.receiver_chains[i].chain_key.key = key.key
              /\ r.receiver_chains[i].chain_key.index <= key.index )
    BY <1>1, <1>3, <2>0 DEF Gone
  <2>2. \A j \in DOMAIN r.sender_chain : r.sender_chain[j].chain_key.key # key.key
    BY <1>2, <1>3
  <2> QED  BY <1>3, <2>1, <2>2 DEF Derivable, Gone
<1>4. CASE Spent(r, key) /\ ~OnTurn(key.key, t)
  <2>0. key.index \in Nat
    BY <1>4 DEF Spent, MessageKey
  <2>1. \A i \in DOMAIN r.receiver_chains : r.receiver_chains[i].chain_key.key # key.key
    BY <1>1, <1>4
  <2>2. \A j \in DOMAIN r.sender_chain :
           ~( /\ r.sender_chain[j].chain_key.key = key.key
              /\ r.sender_chain[j].chain_key.index <= key.index )
    BY <1>2, <1>4, <2>0 DEF Spent
  <2>3. \A k \in DOMAIN r.skipped_message_keys : r.skipped_message_keys[k].message_key # key
    BY <1>1, <1>4
  <2> QED  BY <2>1, <2>2, <2>3 DEF Derivable
<1> QED  BY <1>3, <1>4

\* What is not on the turn of one party is on the other's.
LEMMA OtherTurn ==
    ASSUME NEW p \in Party, NEW key, Len(key) \in Nat, ~OnTurn(key, Turn(Peer(p)))
    PROVE  OnTurn(key, Turn(p))
<1> DEFINE t == Turn(p)
           u == Turn(Peer(p))
<1>1. t \in {0, 1} /\ u = 1 - t /\ ~OnTurn(key, u)
  BY PartyFacts
<1> HIDE DEF t, u
<1>2. OnTurn(key, t)
  BY <1>1 DEF OnTurn
<1> QED  BY <1>2 DEF t

\* No session can still make a key that it has sealed or opened a message with.
LEMMA InvErased == SessionInv => KeysErased
<1> SUFFICES ASSUME SessionInv, NEW p \in Party
             PROVE  /\ \A id \in opened[p] :
                          ~Derivable(ratchet[p], Message(id).sealed_with)
                    /\ \A n \in DOMAIN sent[p] :
                          ~Derivable(ratchet[p], sent[p][n].message.sealed_with)
  BY DEF KeysErased
<1>0. /\ TypeOK /\ ratchet[p] \in RatchetState
      /\ Turns(ratchet[p], Turn(p)) /\ Turn(p) \in {0, 1}
  BY PartyFacts DEF SessionInv, TypeOK
<1>1. ASSUME NEW id \in opened[p]
      PROVE  ~Derivable(ratchet[p], Message(id).sealed_with)
  <2>1. /\ id[1] = Peer(p) /\ id[1] \in Party
        /\ id[2] \in DOMAIN sent[id[1]]
        /\ Gone(ratchet[p], Message(id).sealed_with)
    BY PartyFacts DEF SessionInv, OpenedAreGone
  <2>2. ~OnTurn(Message(id).sealed_with.key, Turn(Peer(p)))
    BY <2>1 DEF SessionInv, SentAreBehind, Message
  <2>3. Len(Message(id).sealed_with.key) \in Nat
    BY <1>0, <2>1, SentMessage DEF Message
  <2>4. OnTurn(Message(id).sealed_with.key, Turn(p))
    BY <2>2, <2>3, OtherTurn
  <2> QED  BY <1>0, <2>1, <2>4, NotDerivable
<1>2. ASSUME NEW n \in DOMAIN sent[p]
      PROVE  ~Derivable(ratchet[p], sent[p][n].message.sealed_with)
  <2>1. /\ Spent(ratchet[p], sent[p][n].message.sealed_with)
        /\ ~OnTurn(sent[p][n].message.sealed_with.key, Turn(p))
    BY DEF SessionInv, SentAreBehind
  <2> QED  BY <1>0, <2>1, NotDerivable
<1> QED  BY <1>1, <1>2

\* A session never holds what derives the key of a message it opened or sent.
THEOREM ForwardSecrecy == Spec => []KeysErased
BY InvErased, Invariance, PTL

\* No key seals two messages, of one end or of both.
THEOREM KeysUsedOnce == Spec => []NoKeyReuse
<1>1. SessionInv => NoKeyReuse
  <2> SUFFICES ASSUME SessionInv, NEW p \in Party, NEW q \in Party,
                      NEW n \in DOMAIN sent[p], NEW m \in DOMAIN sent[q],
                      sent[p][n].message.sealed_with = sent[q][m].message.sealed_with
               PROVE  p = q /\ n = m
    BY DEF NoKeyReuse
  <2>1. CASE p = q
    BY <2>1 DEF SessionInv, SentAreBehind
  <2>2. CASE p # q
    <3> DEFINE key == sent[p][n].message.sealed_with.key
    <3>1. ~OnTurn(key, Turn(p)) /\ ~OnTurn(key, Turn(q))
      BY DEF SessionInv, SentAreBehind
    <3>2. Len(key) \in Nat
      BY SentMessage DEF SessionInv
    <3>3. Turn(p) \in {0, 1} /\ Turn(q) = 1 - Turn(p)
      BY <2>2, PartyFacts
    <3> HIDE DEF key
    <3> QED  BY <3>1, <3>2, <3>3 DEF OnTurn
  <2> QED  BY <2>1, <2>2
<1> QED  BY <1>1, Invariance, PTL

\* encrypt() never has to start a chain without a ratchet key of the peer.
THEOREM PeerKeyThere == Spec => []PeerKeyKnown
<1>1. SessionInv => PeerKeyKnown
  BY DEF SessionInv, PeerKeyKnown, Turns
<1> QED  BY <1>1, Invariance, PTL

\* Messages go out as pre-key messages exactly until the peer has been heard.
THEOREM PreKeyUntilHeard == Spec => PreKeyUntilAnswered
<1> DEFINE Typed(p) ==
             Len(sent'[p]) > Len(sent[p])
               => (sent'[p][Len(sent'[p])].type = PRE_KEY <=> opened[p] = {})
<1>1. ASSUME SessionInv, [Next]_vars
      PROVE  [\A p \in Party : Typed(p)]_vars
  <2>0. TypeOK
    BY <1>1 DEF SessionInv
  <2>1. SUFFICES ASSUME NEW p \in Party, Len(sent'[p]) > Len(sent[p])
                 PROVE  sent'[p][Len(sent'[p])].type = PRE_KEY <=> opened[p] = {}
    OBVIOUS
  <2>2. sent[p] \in Seq([type : {PRE_KEY, MESSAGE}, message : WireMessage])
        /\ Len(sent[p]) \in Nat
    BY <2>0, LenProperties DEF TypeOK, Log
  <2>3. sent'[p] # sent[p]
    BY <2>1, <2>2
  <2>4. PICK q \in Party : Encrypt(q)
    <3>1. \A q \in Party : \A id, reader : Receive(q, id, reader) => UNCHANGED sent
      BY DEF Receive
    <3>2. \A q \in Party : Restart(q) => UNCHANGED sent
      BY DEF Restart
    <3> QED  BY <1>1, <2>3, <3>1, <3>2 DEF Next, ReceiveIntact, ReceiveDamaged, vars
  <2> DEFINE entry == [type    |-> EncryptMessageType(p),
                       message |-> Encrypted(ratchet[p], next_key)]
  <2>5. q = p /\ sent'[p] = Append(sent[p], entry)
    BY <2>0, <2>3, <2>4 DEF Encrypt, TypeOK
  <2>6. sent'[p][Len(sent'[p])] = entry
    BY <2>2, <2>5
  <2>7. EncryptMessageType(p) = PRE_KEY <=> ~received_message[p]
    BY <2>0 DEF EncryptMessageType, PRE_KEY, MESSAGE, TypeOK
  <2>8. received_message[p] <=> opened[p] # {}
    BY <1>1 DEF SessionInv
  <2> QED  BY <2>6, <2>7, <2>8
<1> QED  BY <1>1, Invariance, PTL DEF Spec, PreKeyUntilAnswered

-----------------------------------------------------------------------------
(* The pair of sessions implements the channel *)

\* Two sessions just set up are an empty channel.
LEMMA ChannelInit == Init => Promise!Init
BY DEF Init, Promise!Init, Promise!Party, Party

\* Every call on a session is a step of the channel, or none.
LEMMA ChannelNext ==
    SessionInv /\ [Next]_vars
        => [Promise!Next]_<<[p \in Party |-> Len(sent[p])], opened, decrypted>>
<1> SUFFICES ASSUME SessionInv, [Next]_vars
             PROVE  [Promise!Next]_<<[p \in Party |-> Len(sent[p])], opened, decrypted>>
  OBVIOUS
<1> DEFINE made == [p \in Party |-> Len(sent[p])]
<1>0. TypeOK /\ Promise!Party = Party /\ \A p \in Party : Promise!Other(p) = Peer(p)
  BY DEF SessionInv, Promise!Party, Party, Promise!Other, Peer
<1>1. CASE UNCHANGED vars
  BY <1>1 DEF vars
<1>2. ASSUME NEW p \in Party, Encrypt(p)
      PROVE  Promise!Next
  <2> DEFINE entry == [type    |-> EncryptMessageType(p),
                       message |-> Encrypted(ratchet[p], next_key)]
  <2>1. sent' = [sent EXCEPT ![p] = Append(sent[p], entry)] /\ UNCHANGED <<opened, decrypted>>
    BY <1>2 DEF Encrypt
  <2>2. Len(Append(sent[p], entry)) = Len(sent[p]) + 1
    BY <1>0 DEF TypeOK, Log
  <2>3. made' = [made EXCEPT ![p] = made[p] + 1]
    <3>1. \A q \in Party : Len(sent'[q]) = IF q = p THEN Len(sent[p]) + 1 ELSE Len(sent[q])
      BY <1>0, <2>1, <2>2 DEF TypeOK
    <3> QED  BY <3>1
  <2>4. Promise!Make(p)
    BY <2>1, <2>3 DEF Promise!Make
  <2> QED  BY <1>0, <2>4 DEF Promise!Next
<1>3. ASSUME NEW p \in Party, NEW id, NEW reader, Receive(p, id, reader),
             CanDecrypt(ratchet[p], reader)
                 => \E n \in DOMAIN sent[Peer(p)] : /\ id = <<Peer(p), n>>
                                                    /\ id \notin opened[p]
      PROVE  Promise!Next \/ UNCHANGED <<made, opened, decrypted>>
  <2>1. CASE ~CanDecrypt(ratchet[p], reader)
    BY <1>3, <2>1 DEF Receive, Decrypt
  <2>2. CASE CanDecrypt(ratchet[p], reader)
    <3>1. Decrypt(ratchet[p], reader).ok = TRUE
      BY <2>2 DEF Decrypt
    <3>2. /\ opened' = [opened EXCEPT ![p] = opened[p] \union {id}]
          /\ decrypted' = [decrypted EXCEPT ![p] = decrypted[p] + 1]
          /\ UNCHANGED made
      BY <1>3, <3>1 DEF Receive
    <3>3. PICK n \in DOMAIN sent[Peer(p)] : id = <<Peer(p), n>> /\ id \notin opened[p]
      BY <1>3, <2>2
    <3>4. n \in 1..made[Peer(p)]
      BY <1>0, PartyFacts, SentMessage
    <3>5. Promise!Accept(p, n)
      BY <1>0, <3>2, <3>3, <3>4 DEF Promise!Accept
    <3> QED  BY <1>0, <3>4, <3>5 DEF Promise!Next
  <2> QED  BY <2>1, <2>2
<1>4. ASSUME NEW p \in Party, ReceiveIntact(p)
      PROVE  Promise!Next \/ UNCHANGED <<made, opened, decrypted>>
  <2>0. PICK q \in Party : \E n \in DOMAIN sent[q] :
                              Receive(p, <<q, n>>, sent[q][n].message)
    BY <1>4 DEF ReceiveIntact
  <2>1. PICK n \in DOMAIN sent[q] : Receive(p, <<q, n>>, sent[q][n].message)
    BY <2>0
  <2>2. CanDecrypt(ratchet[p], sent[q][n].message)
           => /\ q = Peer(p)
              /\ <<q, n>> \notin opened[p]
    BY IntactFromPeer
  <2> QED  BY <1>3, <2>1, <2>2
<1>5. ASSUME NEW p \in Party, ReceiveDamaged(p)
      PROVE  Promise!Next \/ UNCHANGED <<made, opened, decrypted>>
  <2>1. PICK k \in 0..next_key, c \in 0..MaxSent :
           Receive(p, <<Peer(p), 0>>,
                   [ratchet_key |-> k, counter |-> c, sealed_with |-> NoKey])
    BY <1>5 DEF ReceiveDamaged
  <2>2. k \in Nat /\ c \in Nat
    BY <1>0, SentBound DEF TypeOK
  <2>a. PICK reader : reader = [ratchet_key |-> k, counter |-> c, sealed_with |-> NoKey]
    OBVIOUS
  <2>3. ~CanDecrypt(ratchet[p], reader)
    BY <2>2, <2>a, DamagedIsRefused
  <2>4. Receive(p, <<Peer(p), 0>>, reader)
    BY <2>1, <2>a
  <2> QED  BY <1>3, <2>3, <2>4
<1>6. ASSUME NEW p \in Party, Restart(p)
      PROVE  UNCHANGED vars
  BY <1>6, RestartStep
<1> QED  BY <1>1, <1>2, <1>4, <1>5, <1>6 DEF Next

\* Whatever the network does, a message is accepted at most once, and only if
\* the other end made it.
THEOREM ImplementsChannel == Spec => ChannelSpec
<1> USE DEF ChannelSpec
<1> QED  BY ChannelInit, ChannelNext, Invariance, PTL DEF Spec, Promise!Spec

-----------------------------------------------------------------------------
(***************************************************************************)
(* The two ends of a session stay in step, for any limits, any number of   *)
(* messages, and every behaviour of the network: their root keys never     *)
(* fork, and a receiver chain never passes the sender chain it follows.    *)
(*                                                                         *)
(* To SessionInv, which speaks of each ratchet alone, InStepInv adds how   *)
(* the two compare and how each received chain came out of a message.      *)
(***************************************************************************)

\* t begins with s.
Heads(s, t) == Len(s) <= Len(t) /\ \A i \in 1..Len(s) : s[i] = t[i]

Root(p) == ratchet[p].root_key

\* An end without a sender chain has just received its peer's newest chain; what an
\* end has sent is sealed under root keys on its own way.
RootsInv ==
    \A p \in Party :
        /\ \/ Heads(Root(p), Root(Peer(p))) /\ Len(Root(Peer(p))) <= Len(Root(p)) + 1
           \/ Heads(Root(Peer(p)), Root(p)) /\ Len(Root(p)) <= Len(Root(Peer(p))) + 1
        /\ ratchet[p].sender_chain = <<>> => Root(p) = Root(Peer(p))
        /\ \A n \in DOMAIN sent[p] : Heads(sent[p][n].message.sealed_with.key, Root(p))

\* A receiver chain is the first one, or was left by a message of the peer.
FromPeer(p, chain) ==
    \/ chain = FirstChain(0)
    \/ \E n \in DOMAIN sent[Peer(p)] :
          LET message == sent[Peer(p)][n].message
          IN  /\ chain.ratchet_key = message.ratchet_key
              /\ chain.chain_key.key = message.sealed_with.key
              /\ chain.chain_key.index = message.sealed_with.index + 1

\* A ratchet key pair is made for one chain.
KeyNamesChain(p) ==
    /\ \A n \in DOMAIN sent[p] : sent[p][n].message.ratchet_key < next_key
    /\ \A i \in DOMAIN ratchet[p].sender_chain :
          LET chain == ratchet[p].sender_chain[i]
          IN  /\ chain.ratchet_key < next_key
              /\ chain.ratchet_key = 0 => chain.chain_key.key = <<>>
              /\ \A n \in DOMAIN sent[p] :
                    sent[p][n].message.ratchet_key = chain.ratchet_key
                        => sent[p][n].message.sealed_with.key = chain.chain_key.key

InStepInv ==
    /\ SessionInv
    /\ RootsInv
    /\ next_key >= 1
    /\ \A p \in Party :
          /\ KeyNamesChain(p)
          /\ \A i \in DOMAIN ratchet[p].receiver_chains :
                FromPeer(p, ratchet[p].receiver_chains[i])

-----------------------------------------------------------------------------
(* Root keys *)

\* To begin with is a partial order, and a longer root key begins with the old one.
LEMMA HeadsFacts ==
    /\ \A s \in SharedKey : Heads(s, s)
    /\ \A s, t, u \in SharedKey : Heads(s, t) /\ Heads(t, u) => Heads(s, u)
    /\ \A s, t \in SharedKey : Heads(s, t) /\ Len(s) = Len(t) => s = t
<1>1. \A s \in SharedKey : Len(s) \in Nat /\ s \in [1..Len(s) -> Secret]
  BY LenProperties DEF SharedKey
<1>2. \A s \in SharedKey : Heads(s, s)
  BY <1>1 DEF Heads
<1>3. ASSUME NEW s \in SharedKey, NEW t \in SharedKey, NEW u \in SharedKey,
             Heads(s, t), Heads(t, u)
      PROVE  Heads(s, u)
  <2>1. /\ Len(s) \in Nat /\ Len(t) \in Nat /\ Len(u) \in Nat
        /\ Len(s) <= Len(t) /\ Len(t) <= Len(u)
        /\ \A i \in 1..Len(s) : s[i] = t[i]
        /\ \A i \in 1..Len(t) : t[i] = u[i]
    BY <1>1, <1>3 DEF Heads
  <2>2. \A i \in 1..Len(s) : i \in 1..Len(t)
    BY <2>1
  <2> QED  BY <2>1, <2>2 DEF Heads
<1>4. ASSUME NEW s \in SharedKey, NEW t \in SharedKey, Heads(s, t), Len(s) = Len(t)
      PROVE  s = t
  <2>1. s \in [1..Len(s) -> Secret] /\ t \in [1..Len(s) -> Secret]
    BY <1>1, <1>4
  <2>2. \A i \in 1..Len(s) : s[i] = t[i]
    BY <1>4 DEF Heads
  <2> QED  BY <2>1, <2>2
<1> QED  BY <1>2, <1>3, <1>4

\* Mixing a secret in puts it behind what was mixed in before.
LEMMA NewRootHeads ==
    ASSUME NEW root_key \in SharedKey, NEW our_key \in RatchetKey, NEW their_key \in RatchetKey
    PROVE  Heads(root_key, CreateChainKey(root_key, our_key, their_key).root_key)
<1> DEFINE secret == {our_key, their_key}
<1>1. secret \in Secret
  BY DEF Secret
<1>2. root_key \in Seq(Secret) /\ Len(root_key) \in Nat
  BY LenProperties DEF SharedKey
<1> HIDE DEF secret
<1>3. /\ Len(Append(root_key, secret)) = Len(root_key) + 1
      /\ \A i \in 1..Len(root_key) : Append(root_key, secret)[i] = root_key[i]
  BY <1>1, <1>2, AppendProperties
<1>4. Heads(root_key, Append(root_key, secret))
  BY <1>2, <1>3 DEF Heads
<1> QED  BY <1>4 DEF CreateChainKey, secret

\* A head is a prefix in the words of the property.
LEMMA HeadsIsPrefix ==
    ASSUME NEW s \in SharedKey, NEW t \in SharedKey, Heads(s, t)
    PROVE  IsPrefixOf(s, t)
<1>1. /\ Len(s) \in Nat /\ Len(t) \in Nat /\ Len(s) <= Len(t)
      /\ \A i \in 1..Len(s) : s[i] = t[i]
      /\ s \in [1..Len(s) -> Secret] /\ t \in Seq(Secret)
  BY LenProperties DEF SharedKey, Heads
<1>2. \A i \in 1..Len(s) : t[i] \in Secret
  BY <1>1, ElementOfSeq
<1>3. /\ SubSeq(t, 1, Len(s)) \in Seq(Secret)
      /\ Len(SubSeq(t, 1, Len(s))) = Len(s)
      /\ \A i \in 1..Len(s) : SubSeq(t, 1, Len(s))[i] = t[i]
  BY <1>1, <1>2, SubSeqProperties, Z3
<1>4. SubSeq(t, 1, Len(s)) \in [1..Len(s) -> Secret]
  BY <1>3, LenProperties
<1>5. SubSeq(t, 1, Len(s)) = s
  BY <1>1, <1>3, <1>4
<1> QED  BY <1>1, <1>5 DEF IsPrefixOf

-----------------------------------------------------------------------------
(* What the two calls do to roots and chains *)

\* encrypt() starts a chain under the new key pair or goes on with the one it has.
LEMMA EncryptChains ==
    ASSUME NEW r \in RatchetState, NEW t \in {0, 1}, KeysApart(r), Turns(r, t),
           NEW new_key \in RatchetKey,
           NEW after, after = AfterEncrypt(r, new_key),
           NEW message, message = Encrypted(r, new_key)
    PROVE  /\ after \in RatchetState
           /\ message \in WireMessage
           /\ Len(after.sender_chain) = 1
           /\ after.receiver_chains = r.receiver_chains
           /\ after.sender_chain[1].ratchet_key = message.ratchet_key
           /\ after.sender_chain[1].chain_key.key = message.sealed_with.key
           /\ message.sealed_with.key = after.root_key
           /\ IF NeedsRatchetKey(r)
              THEN /\ message.ratchet_key = new_key
                   /\ Heads(r.root_key, after.root_key)
                   /\ Len(after.root_key) = Len(r.root_key) + 1
              ELSE /\ message.ratchet_key = r.sender_chain[1].ratchet_key
                   /\ after.root_key = r.root_key
<1>1. NeedsRatchetKey(r) => r.receiver_chains # <<>>
  BY DEF Turns, NeedsRatchetKey
<1>2. /\ after \in RatchetState
      /\ after.sender_chain # <<>>
      /\ after.receiver_chains = r.receiver_chains
      /\ IF NeedsRatchetKey(r)
         THEN /\ Len(after.root_key) = Len(r.root_key) + 1
              /\ message.sealed_with.key = after.root_key
         ELSE /\ after.root_key = r.root_key
              /\ message.sealed_with.key = r.sender_chain[1].chain_key.key
      /\ after.sender_chain[1].chain_key.key = message.sealed_with.key
      /\ message \in WireMessage
  BY <1>1, EncryptFields
<1>3. Len(after.sender_chain) = 1
  BY <1>2, SenderChainType
<1> DEFINE ready == ReadyToSend(r, new_key)
           chain == ready.sender_chain[1]
<1>4. message.ratchet_key = chain.ratchet_key
  BY DEF Encrypted
<1>5. CASE ~NeedsRatchetKey(r)
  <2>1. ready = r
    BY <1>5 DEF ReadyToSend
  <2>2. r.sender_chain # <<>> /\ Len(r.sender_chain) = 1
    BY <1>5, SenderChainType DEF NeedsRatchetKey
  <2>3. r.sender_chain[1].chain_key.key = r.root_key
    BY <2>2 DEF Turns
  <2>4. after.sender_chain[1].ratchet_key = r.sender_chain[1].ratchet_key
    <3>1. after = [r EXCEPT !.sender_chain[1].chain_key = AdvanceChainKey(@)]
      BY <2>1 DEF AfterEncrypt
    <3>2. /\ 1 \in DOMAIN r.sender_chain
          /\ r.sender_chain[1] \in [ratchet_key : RatchetKey, chain_key : ChainKey]
      BY <2>2, RatchetFields, SenderChainType DEF SenderChain
    <3>3. after.sender_chain = [r.sender_chain EXCEPT ![1].chain_key = AdvanceChainKey(@)]
      BY <3>1, RatchetFields
    <3>4. after.sender_chain[1] = [r.sender_chain[1] EXCEPT !.chain_key = AdvanceChainKey(@)]
      BY <3>2, <3>3
    <3> QED  BY <3>2, <3>4
  <2> QED  BY <1>2, <1>3, <1>4, <1>5, <2>1, <2>3, <2>4
<1>6. CASE NeedsRatchetKey(r)
  <2> DEFINE derived == CreateChainKey(r.root_key, new_key, r.receiver_chains[1].ratchet_key)
             first   == [ratchet_key |-> new_key, chain_key |-> derived.chain_key]
  <2>1. r.receiver_chains[1].ratchet_key \in RatchetKey
    <3>1. 1 \in DOMAIN r.receiver_chains
      BY <1>1, <1>6, RatchetFields, EmptySeq, LenProperties
    <3> QED  BY <3>1, ReceiverChainType
  <2>2. ready = [r EXCEPT !.root_key = derived.root_key, !.sender_chain = <<first>>]
    BY <1>6 DEF ReadyToSend, StartSenderChain
  <2>3. Heads(r.root_key, derived.root_key)
    BY <2>1, RatchetFields, NewRootHeads
  <2> HIDE DEF derived
  <2>4. ready.sender_chain = <<first>> /\ ready.root_key = derived.root_key
    BY <2>2, RatchetFields
  <2>5. chain.ratchet_key = new_key
    BY <2>4
  <2>6. after.root_key = derived.root_key
    <3>1. after = [ready EXCEPT !.sender_chain[1].chain_key = AdvanceChainKey(@)]
      BY DEF AfterEncrypt
    <3> HIDE DEF first
    <3>2. ready.root_key = derived.root_key /\ "root_key" # "sender_chain"
          /\ "root_key" \in DOMAIN ready
      BY <2>2, <2>4, RatchetFields
    <3> QED  BY <3>1, <3>2
  <2>7. after.sender_chain[1].ratchet_key = new_key
    <3>1. after = [ready EXCEPT !.sender_chain[1].chain_key = AdvanceChainKey(@)]
      BY DEF AfterEncrypt
    <3>2. "sender_chain" \in DOMAIN ready
      BY <2>2, RatchetFields
    <3>3. after.sender_chain = [<<first>> EXCEPT ![1].chain_key = AdvanceChainKey(@)]
      BY <2>4, <3>1, <3>2
    <3>4. after.sender_chain[1] = [first EXCEPT !.chain_key = AdvanceChainKey(@)]
      BY <3>3
    <3> QED  BY <3>4
  <2> QED  BY <1>2, <1>3, <1>4, <1>6, <2>3, <2>5, <2>6, <2>7
<1> QED  BY <1>5, <1>6

\* decrypt() goes on with the chains it has, or starts the one that the message
\* names; then the message is sealed under the root key that comes out.
LEMMA DecryptChains ==
    ASSUME NEW r \in RatchetState, NEW t \in {0, 1}, KeysApart(r), Turns(r, t),
           NEW reader, Header(reader), CanDecrypt(r, reader),
           NEW after, after = AfterDecrypt(r, reader)
    PROVE  /\ after \in RatchetState
           /\ \/ after.root_key = r.root_key /\ after.sender_chain = r.sender_chain
              \/ /\ r.sender_chain # <<>>
                 /\ after.sender_chain = <<>>
                 /\ after.root_key = reader.sealed_with.key
                 /\ Len(after.root_key) = Len(r.root_key) + 1
                 /\ Heads(r.root_key, after.root_key)
           /\ \A i \in DOMAIN after.receiver_chains :
                 \/ \E j \in DOMAIN r.receiver_chains :
                       after.receiver_chains[i] = r.receiver_chains[j]
                 \/ /\ after.receiver_chains[i].ratchet_key = reader.ratchet_key
                    /\ after.receiver_chains[i].chain_key.key = reader.sealed_with.key
                    /\ after.receiver_chains[i].chain_key.index = reader.sealed_with.index + 1
<1>0. reader.ratchet_key \in RatchetKey /\ reader.counter \in Nat
  BY DEF Header
<1>1. /\ after \in RatchetState
      /\ \/ after.root_key = r.root_key /\ after.sender_chain = r.sender_chain
         \/ Len(after.root_key) = Len(r.root_key) + 1 /\ after.sender_chain = <<>>
      /\ reader.sealed_with.index = reader.counter
  BY DecryptOpens
<1>2. CASE ~HasChain(r, reader)
  <2> DEFINE mid == StartReceiverChain(r, reader)
  <2>1. VerifyForNewChain(r, reader)
    BY <1>2 DEF CanDecrypt
  <2>2. r.sender_chain # <<>>
    BY <2>1 DEF VerifyForNewChain
  <2>3. /\ mid \in RatchetState
        /\ Len(mid.root_key) = Len(r.root_key) + 1
        /\ mid.sender_chain = <<>>
        /\ mid.root_key = CreateChainKey(r.root_key, r.sender_chain[1].ratchet_key,
                                         reader.ratchet_key).root_key
        /\ 1 \in DOMAIN mid.receiver_chains
        /\ mid.receiver_chains[1] =
              [ratchet_key |-> reader.ratchet_key,
               chain_key   |-> [key |-> mid.root_key, index |-> 0]]
        /\ \A j \in DOMAIN mid.receiver_chains :
              j # 1 => /\ j - 1 \in DOMAIN r.receiver_chains
                       /\ mid.receiver_chains[j] = r.receiver_chains[j - 1]
    BY <2>2, StartReceiverChainFields
  <2>4. Heads(r.root_key, mid.root_key)
    BY <1>0, <2>2, <2>3, NewRootHeads, RatchetFields, SenderChainType
  <2>5. reader.sealed_with.key = mid.root_key
    <3> DEFINE derived == CreateChainKey(r.root_key, r.sender_chain[1].ratchet_key,
                                         reader.ratchet_key)
    <3>1. derived.chain_key = [key |-> mid.root_key, index |-> 0]
      BY <1>0, <2>2, <2>3, SenderChainType, RatchetFields, CreateChainKeyFields
    <3>2. VerifyForExistingChain(derived.chain_key, reader)
      BY <2>1 DEF VerifyForNewChain
    <3> HIDE DEF derived, mid
    <3>3. [derived.chain_key EXCEPT !.index = reader.counter] =
              [key |-> mid.root_key, index |-> reader.counter]
      BY <3>1
    <3>4. reader.sealed_with = [key |-> mid.root_key, index |-> reader.counter]
      BY <3>2, <3>3 DEF VerifyForExistingChain, VerifyMac, CreateMessageKeys
    <3> QED  BY <3>4
  <2>6. after = AdvanceReceiverChain(mid, 1, reader.counter)
    BY <1>2 DEF AfterDecrypt
  <2> HIDE DEF mid
  <2>7. reader.counter >= mid.receiver_chains[1].chain_key.index
    <3>1. mid.receiver_chains[1].chain_key.index = 0
      BY <2>3
    <3> QED  BY <1>0, <3>1
  <2>8. /\ after.root_key = mid.root_key
        /\ after.sender_chain = mid.sender_chain
        /\ DOMAIN after.receiver_chains = DOMAIN mid.receiver_chains
        /\ \A j \in DOMAIN mid.receiver_chains :
              j # 1 => after.receiver_chains[j] = mid.receiver_chains[j]
        /\ after.receiver_chains[1] =
              [ratchet_key |-> mid.receiver_chains[1].ratchet_key,
               chain_key   |-> [key   |-> mid.receiver_chains[1].chain_key.key,
                                index |-> reader.counter + 1]]
    <3>1. PICK c \in Nat : c = reader.counter
      BY <1>0
    <3>2. /\ mid \in RatchetState /\ 1 \in DOMAIN mid.receiver_chains
          /\ c >= mid.receiver_chains[1].chain_key.index
          /\ after = AdvanceReceiverChain(mid, 1, c)
      BY <2>3, <2>6, <2>7, <3>1
    <3>3. /\ after.root_key = mid.root_key
          /\ after.sender_chain = mid.sender_chain
          /\ DOMAIN after.receiver_chains = DOMAIN mid.receiver_chains
          /\ \A j \in DOMAIN mid.receiver_chains :
                j # 1 => after.receiver_chains[j] = mid.receiver_chains[j]
          /\ after.receiver_chains[1] =
                [ratchet_key |-> mid.receiver_chains[1].ratchet_key,
                 chain_key   |-> [key   |-> mid.receiver_chains[1].chain_key.key,
                                  index |-> c + 1]]
      BY <3>2, AdvanceReceiverChainFields
    <3> QED  BY <3>1, <3>3
  <2>9. /\ after.receiver_chains[1].ratchet_key = reader.ratchet_key
        /\ after.receiver_chains[1].chain_key.key = mid.root_key
        /\ after.receiver_chains[1].chain_key.index = reader.counter + 1
    BY <2>3, <2>8
  <2>10. \A i \in DOMAIN after.receiver_chains :
            i # 1 => \E j \in DOMAIN r.receiver_chains :
                        after.receiver_chains[i] = r.receiver_chains[j]
    BY <2>3, <2>8
  <2> QED  BY <1>1, <2>2, <2>3, <2>4, <2>5, <2>8, <2>9, <2>10
<1>3. CASE HasChain(r, reader) /\ IsLate(r, reader)
  <2>1. HasSkipped(r, reader) /\ after = UseSkippedKey(r, reader)
    BY <1>3 DEF CanDecrypt, AfterDecrypt
  <2>2. /\ after.root_key = r.root_key /\ after.sender_chain = r.sender_chain
        /\ after.receiver_chains = r.receiver_chains
    BY <2>1, UseSkippedKeyFields
  <2> QED  BY <1>1, <2>2
<1>4. CASE HasChain(r, reader) /\ ~IsLate(r, reader)
  <2> DEFINE i     == ChainFor(r, reader)
             chain == r.receiver_chains[i].chain_key
  <2>1. i \in DOMAIN r.receiver_chains
        /\ r.receiver_chains[i].ratchet_key = reader.ratchet_key
    BY <1>4, ChainForFound
  <2>2. chain \in ChainKey /\ chain.index \in Nat
    BY <2>1, ReceiverChainType
  <2>3. VerifyForExistingChain(chain, reader)
    BY <1>4 DEF CanDecrypt
  <2>4. reader.counter >= chain.index
    BY <2>3 DEF VerifyForExistingChain
  <2>5. reader.sealed_with.key = chain.key
    <3> HIDE DEF chain
    <3>1. [chain EXCEPT !.index = reader.counter] =
              [key |-> chain.key, index |-> reader.counter]
      BY <2>2 DEF ChainKey
    <3>2. reader.sealed_with = [key |-> chain.key, index |-> reader.counter]
      BY <2>3, <3>1 DEF VerifyForExistingChain, VerifyMac, CreateMessageKeys
    <3> QED  BY <3>2
  <2>6. after = AdvanceReceiverChain(r, i, reader.counter)
    BY <1>4 DEF AfterDecrypt
  <2> HIDE DEF i
  <2>7. /\ after.root_key = r.root_key
        /\ after.sender_chain = r.sender_chain
        /\ DOMAIN after.receiver_chains = DOMAIN r.receiver_chains
        /\ \A j \in DOMAIN r.receiver_chains :
              j # i => after.receiver_chains[j] = r.receiver_chains[j]
        /\ after.receiver_chains[i] =
              [ratchet_key |-> r.receiver_chains[i].ratchet_key,
               chain_key   |-> [key   |-> r.receiver_chains[i].chain_key.key,
                                index |-> reader.counter + 1]]
    BY <1>0, <2>1, <2>4, <2>6, AdvanceReceiverChainFields
  <2>8. /\ after.receiver_chains[i].ratchet_key = reader.ratchet_key
        /\ after.receiver_chains[i].chain_key.key = chain.key
        /\ after.receiver_chains[i].chain_key.index = reader.counter + 1
    BY <2>1, <2>7
  <2> HIDE DEF chain
  <2> QED  BY <1>1, <2>5, <2>7, <2>8
<1> QED  BY <1>2, <1>3, <1>4

-----------------------------------------------------------------------------
(* The invariant holds initially and is preserved *)

\* The root keys of the two ends, and the keys of what they sent, are root keys.
LEMMA RootTypes ==
    ASSUME TypeOK
    PROVE  \A p \in Party :
              /\ ratchet[p] \in RatchetState
              /\ Root(p) \in SharedKey /\ Len(Root(p)) \in Nat
              /\ \A n \in DOMAIN sent[p] :
                    /\ sent[p][n].message.sealed_with.key \in SharedKey
                    /\ sent[p][n].message.sealed_with.index \in Nat
                    /\ sent[p][n].message.ratchet_key \in Nat
<1> SUFFICES ASSUME NEW p \in Party
             PROVE  /\ ratchet[p] \in RatchetState
                    /\ Root(p) \in SharedKey /\ Len(Root(p)) \in Nat
                    /\ \A n \in DOMAIN sent[p] :
                          /\ sent[p][n].message.sealed_with.key \in SharedKey
                          /\ sent[p][n].message.sealed_with.index \in Nat
                          /\ sent[p][n].message.ratchet_key \in Nat
  OBVIOUS
<1>1. ratchet[p] \in RatchetState
  BY DEF TypeOK
<1>2. Root(p) \in SharedKey /\ Len(Root(p)) \in Nat
  BY <1>1, RatchetFields DEF Root
<1>3. ASSUME NEW n \in DOMAIN sent[p]
      PROVE  /\ sent[p][n].message.sealed_with.key \in SharedKey
             /\ sent[p][n].message.sealed_with.index \in Nat
             /\ sent[p][n].message.ratchet_key \in Nat
  <2>1. sent[p][n].message \in WireMessage
    BY SentMessage
  <2> QED  BY <2>1 DEF WireMessage, MessageKey, RatchetKey
<1> QED  BY <1>1, <1>2, <1>3

\* Both ends begin with the empty root key, and Bob with Alice's first chain.
LEMMA InitInStep == Init => InStepInv
<1> SUFFICES ASSUME Init PROVE InStepInv
  OBVIOUS
<1>1. /\ ratchet[Alice] = InitialiseAsAlice(0) /\ ratchet[Bob] = InitialiseAsBob(0)
      /\ next_key = 1
      /\ \A p \in Party : sent[p] = <<>> /\ DOMAIN sent[p] = {}
  BY TwoParties DEF Init, Party
<1>2. SessionInv
  BY InitInv
<1>3. RootsInv
  <2>1. \A p \in Party : Root(p) = <<>>
    BY <1>1 DEF Root, InitialiseAsAlice, InitialiseAsBob, Party
  <2>2. Heads(<<>>, <<>>) /\ Len(<<>>) <= Len(<<>>) + 1
    BY DEF Heads
  <2> QED  BY <1>1, <2>1, <2>2, PartyFacts DEF RootsInv
<1>4. ASSUME NEW p \in Party
      PROVE  KeyNamesChain(p)
  <2>1. ASSUME NEW i \in DOMAIN ratchet[p].sender_chain
        PROVE  /\ ratchet[p].sender_chain[i].ratchet_key = 0
               /\ ratchet[p].sender_chain[i].chain_key.key = <<>>
    <3>1. CASE p = Alice
      <4>1. ratchet[p].sender_chain = <<FirstChain(0)>>
        BY <1>1, <3>1 DEF InitialiseAsAlice
      <4>2. ratchet[p].sender_chain[i] = FirstChain(0)
        BY <4>1
      <4> QED  BY <4>2 DEF FirstChain
    <3>2. CASE p = Bob
      <4>1. ratchet[p].sender_chain = <<>>
        BY <1>1, <3>2 DEF InitialiseAsBob
      <4> QED  BY <4>1
    <3> QED  BY <3>1, <3>2 DEF Party
  <2> QED  BY <1>1, <2>1 DEF KeyNamesChain
<1>5. ASSUME NEW p \in Party, NEW i \in DOMAIN ratchet[p].receiver_chains
      PROVE  FromPeer(p, ratchet[p].receiver_chains[i])
  <2>1. CASE p = Alice
    <3>1. ratchet[p].receiver_chains = <<>>
      BY <1>1, <2>1 DEF InitialiseAsAlice
    <3> QED  BY <3>1
  <2>2. CASE p = Bob
    <3>1. ratchet[p].receiver_chains = <<FirstChain(0)>>
      BY <1>1, <2>2 DEF InitialiseAsBob
    <3>2. ratchet[p].receiver_chains[i] = FirstChain(0)
      BY <3>1
    <3> QED  BY <3>2 DEF FromPeer
  <2> QED  BY <2>1, <2>2 DEF Party
<1> QED  BY <1>1, <1>2, <1>3, <1>4, <1>5 DEF InStepInv

\* Of two ends with one root key exactly one has a sender chain.
LEMMA OneSends ==
    ASSUME SessionInv, NEW p \in Party, Root(p) = Root(Peer(p)),
           ratchet[p].sender_chain = <<>>
    PROVE  ratchet[Peer(p)].sender_chain # <<>>
<1>1. /\ Turns(ratchet[p], Turn(p)) /\ Turns(ratchet[Peer(p)], Turn(Peer(p)))
      /\ Turn(Peer(p)) = 1 - Turn(p) /\ Turn(p) \in {0, 1}
  BY PartyFacts DEF SessionInv
<1>2. Len(Root(p)) % 2 = Turn(p)
  BY <1>1 DEF Turns, OnTurn, Root
<1>3. Len(Root(p)) % 2 # Turn(Peer(p))
  BY <1>1, <1>2
<1> QED  BY <1>1, <1>3 DEF Turns, OnTurn, Root

\* A chain is started only by the end that is not ahead, and puts it one ahead.
LEMMA EncryptInStep ==
    ASSUME InStepInv, NEW p \in Party, Encrypt(p)
    PROVE  InStepInv'
<1> DEFINE r == ratchet[p]
           q == Peer(p)
<1>a. PICK after : after = AfterEncrypt(r, next_key)
  OBVIOUS
<1>b. PICK message : message = Encrypted(r, next_key)
  OBVIOUS
<1> DEFINE entry == [type |-> EncryptMessageType(p), message |-> message]
<1>0. /\ SessionInv /\ TypeOK /\ next_key \in RatchetKey /\ next_key \in Nat
      /\ r \in RatchetState /\ KeysApart(r) /\ Turns(r, Turn(p)) /\ Turn(p) \in {0, 1}
      /\ q \in Party /\ q # p /\ Peer(q) = p /\ \A o \in Party : o = p \/ o = q
  BY PartyFacts DEF InStepInv, SessionInv, TypeOK, RatchetKey
<1>1. /\ after \in RatchetState
      /\ message \in WireMessage
      /\ Len(after.sender_chain) = 1
      /\ after.receiver_chains = r.receiver_chains
      /\ after.sender_chain[1].ratchet_key = message.ratchet_key
      /\ after.sender_chain[1].chain_key.key = message.sealed_with.key
      /\ message.sealed_with.key = after.root_key
      /\ IF NeedsRatchetKey(r)
         THEN /\ message.ratchet_key = next_key
              /\ Heads(r.root_key, after.root_key)
              /\ Len(after.root_key) = Len(r.root_key) + 1
         ELSE /\ message.ratchet_key = r.sender_chain[1].ratchet_key
              /\ after.root_key = r.root_key
  <2> DEFINE t == Turn(p)
  <2>1. r \in RatchetState /\ KeysApart(r) /\ t \in {0, 1} /\ Turns(r, t)
        /\ next_key \in RatchetKey
    BY <1>0
  <2> HIDE DEF r, t
  <2> QED  BY <1>a, <1>b, <2>1, EncryptChains
<1>2. SessionInv'
  BY <1>0, EncryptStep
<1>3. /\ ratchet' = [ratchet EXCEPT ![p] = after]
      /\ sent' = [sent EXCEPT ![p] = Append(sent[p], entry)]
      /\ next_key' = IF NeedsRatchetKey(r) THEN next_key + 1 ELSE next_key
  BY <1>a, <1>b DEF Encrypt
<1>4. /\ ratchet'[p] = after /\ ratchet'[q] = ratchet[q]
      /\ sent'[p] = Append(sent[p], entry) /\ sent'[q] = sent[q]
  BY <1>0, <1>3 DEF TypeOK
<1>5. /\ DOMAIN sent'[p] = DOMAIN sent[p] \union {Len(sent[p]) + 1}
      /\ Len(sent[p]) + 1 \notin DOMAIN sent[p]
      /\ sent'[p][Len(sent[p]) + 1].message = message
      /\ \A n \in DOMAIN sent[p] : sent'[p][n] = sent[p][n]
  <2>1. sent[p] \in Log
    BY <1>0 DEF TypeOK
  <2>2. sent[p] \in Seq([type : {PRE_KEY, MESSAGE}, message : WireMessage])
    BY <2>1 DEF Log
  <2>3. entry \in [type : {PRE_KEY, MESSAGE}, message : WireMessage]
    BY <1>1 DEF EncryptMessageType
  <2>4. Len(sent[p]) \in Nat /\ DOMAIN sent[p] = 1..Len(sent[p])
    BY <2>2, LenProperties
  <2> HIDE DEF entry
  <2>5. /\ Append(sent[p], entry) \in Seq([type : {PRE_KEY, MESSAGE}, message : WireMessage])
        /\ Len(Append(sent[p], entry)) = Len(sent[p]) + 1
        /\ \A n \in 1..Len(sent[p]) : Append(sent[p], entry)[n] = sent[p][n]
        /\ Append(sent[p], entry)[Len(sent[p]) + 1] = entry
    BY <2>2, <2>3, AppendProperties
  <2>6. DOMAIN Append(sent[p], entry) = 1 .. Len(sent[p]) + 1
    BY <2>5, LenProperties
  <2>7. entry.message = message
    BY DEF entry
  <2> QED  BY <1>4, <2>4, <2>5, <2>6, <2>7
<1>6. /\ Root(p) \in SharedKey /\ Root(q) \in SharedKey /\ after.root_key \in SharedKey
      /\ Len(Root(p)) \in Nat /\ Len(Root(q)) \in Nat
      /\ Heads(Root(p), after.root_key)
      /\ Root(p) = r.root_key
  BY <1>0, <1>1, RootTypes, HeadsFacts, RatchetFields DEF Root
<1>7. /\ \/ Heads(after.root_key, Root(q)) /\ Len(Root(q)) <= Len(after.root_key) + 1
         \/ Heads(Root(q), after.root_key) /\ Len(after.root_key) <= Len(Root(q)) + 1
      /\ ratchet[q].sender_chain = <<>> => Root(q) = after.root_key
  <2>1. CASE NeedsRatchetKey(r)
    <3>1. r.sender_chain = <<>>
      BY <2>1 DEF NeedsRatchetKey
    <3>2. Root(p) = Root(q)
      BY <1>0, <3>1 DEF InStepInv, RootsInv
    <3>3. ratchet[q].sender_chain # <<>>
      BY <1>0, <3>1, <3>2, OneSends
    <3> QED  BY <1>1, <1>6, <2>1, <3>2, <3>3
  <2>2. CASE ~NeedsRatchetKey(r)
    <3>1. after.root_key = Root(p)
      BY <1>1, <2>2 DEF Root
    <3>2. /\ \/ Heads(Root(p), Root(q)) /\ Len(Root(q)) <= Len(Root(p)) + 1
             \/ Heads(Root(q), Root(p)) /\ Len(Root(p)) <= Len(Root(q)) + 1
          /\ ratchet[q].sender_chain = <<>> => Root(q) = Root(p)
      BY <1>0 DEF InStepInv, RootsInv
    <3> QED  BY <3>1, <3>2
  <2> QED  BY <2>1, <2>2
<1>8. \A n \in DOMAIN sent'[p] : Heads(sent'[p][n].message.sealed_with.key, after.root_key)
  <2>1. Heads(after.root_key, after.root_key)
    BY <1>6, HeadsFacts
  <2>2. ASSUME NEW n \in DOMAIN sent[p]
        PROVE  Heads(sent[p][n].message.sealed_with.key, after.root_key)
    <3>1. Heads(sent[p][n].message.sealed_with.key, Root(p))
      BY DEF InStepInv, RootsInv
    <3>2. sent[p][n].message.sealed_with.key \in SharedKey
      BY <1>0, RootTypes
    <3> QED  BY <1>6, <3>1, <3>2, HeadsFacts
  <2> QED  BY <1>1, <1>5, <2>1, <2>2
<1>9. \A n \in DOMAIN sent[q] : Heads(sent[q][n].message.sealed_with.key, Root(q))
  BY <1>0 DEF InStepInv, RootsInv
<1>10. Root(p)' = after.root_key /\ Root(q)' = Root(q)
  BY <1>4 DEF Root
<1>11. after.sender_chain # <<>>
  BY <1>1
<1>12. RootsInv'
  <2>1. ASSUME NEW o \in Party
        PROVE  /\ \/ Heads(Root(o)', Root(Peer(o))') /\ Len(Root(Peer(o))') <= Len(Root(o)') + 1
                  \/ Heads(Root(Peer(o))', Root(o)') /\ Len(Root(o)') <= Len(Root(Peer(o))') + 1
               /\ ratchet'[o].sender_chain = <<>> => Root(o)' = Root(Peer(o))'
               /\ \A n \in DOMAIN sent'[o] :
                     Heads(sent'[o][n].message.sealed_with.key, Root(o)')
    <3>1. CASE o = p
      BY <1>4, <1>7, <1>8, <1>10, <1>11, <3>1
    <3>2. CASE o = q
      BY <1>0, <1>4, <1>7, <1>9, <1>10, <3>2
    <3> QED  BY <1>0, <3>1, <3>2
  <2> QED  BY <2>1 DEF RootsInv
<1>13. next_key' \in Nat /\ next_key' >= 1 /\ next_key' >= next_key
  BY <1>0, <1>3 DEF InStepInv
<1>14. KeyNamesChain(q)'
  <2>1. KeyNamesChain(q)
    BY <1>0 DEF InStepInv
  <2>2. \A n \in DOMAIN sent[q] : sent[q][n].message.ratchet_key \in Nat
    BY <1>0, RootTypes
  <2>3. \A i \in DOMAIN ratchet[q].sender_chain :
           ratchet[q].sender_chain[i].ratchet_key \in Nat
    <3>1. ratchet[q] \in RatchetState
      BY <1>0 DEF TypeOK
    <3>2. ASSUME NEW i \in DOMAIN ratchet[q].sender_chain
          PROVE  ratchet[q].sender_chain[i].ratchet_key \in Nat
      <4>1. ratchet[q].sender_chain \in Seq(SenderChain)
        BY <3>1, RatchetFields
      <4>2. ratchet[q].sender_chain[i] \in SenderChain
        BY <4>1, ElementOfSeq, LenProperties
      <4> QED  BY <4>2 DEF SenderChain, RatchetKey
    <3> QED  BY <3>2
  <2> QED  BY <1>0, <1>4, <1>13, <2>1, <2>2, <2>3 DEF KeyNamesChain
<1>15. KeyNamesChain(p)'
  <2>1. KeyNamesChain(p)
    BY DEF InStepInv
  <2>2. \A n \in DOMAIN sent[p] : sent[p][n].message.ratchet_key \in Nat
    BY <1>0, RootTypes
  <2>3. /\ message.ratchet_key \in Nat
        /\ message.ratchet_key < next_key'
        /\ message.ratchet_key = 0 => message.sealed_with.key = <<>>
        /\ \A n \in DOMAIN sent[p] :
              sent[p][n].message.ratchet_key = message.ratchet_key
                  => sent[p][n].message.sealed_with.key = message.sealed_with.key
    <3>0. message.ratchet_key \in Nat
      BY <1>1 DEF WireMessage, RatchetKey
    <3>1. CASE NeedsRatchetKey(r)
      <4>1. message.ratchet_key = next_key /\ next_key' = next_key + 1 /\ next_key >= 1
        BY <1>1, <1>3, <3>1 DEF InStepInv
      <4>2. \A n \in DOMAIN sent[p] : sent[p][n].message.ratchet_key < next_key
        BY <2>1 DEF KeyNamesChain
      <4> QED  BY <1>0, <2>2, <3>0, <4>1, <4>2
    <3>2. CASE ~NeedsRatchetKey(r)
      <4>1. r.sender_chain # <<>>
        BY <3>2 DEF NeedsRatchetKey
      <4>2. /\ message.ratchet_key = r.sender_chain[1].ratchet_key
            /\ message.sealed_with.key = r.sender_chain[1].chain_key.key
            /\ next_key' = next_key
        BY <1>0, <1>1, <1>3, <3>2, <4>1 DEF Turns
      <4>3. 1 \in DOMAIN ratchet[p].sender_chain
        BY <1>0, <4>1, SenderChainType, RatchetFields
      <4> QED  BY <2>1, <3>0, <4>2, <4>3 DEF KeyNamesChain
    <3> QED  BY <3>1, <3>2
  <2>4. \A n \in DOMAIN sent'[p] :
           /\ sent'[p][n].message.ratchet_key < next_key'
           /\ sent'[p][n].message.ratchet_key = message.ratchet_key
                 => sent'[p][n].message.sealed_with.key = message.sealed_with.key
    <3>1. \A n \in DOMAIN sent[p] : sent[p][n].message.ratchet_key < next_key
      BY <2>1 DEF KeyNamesChain
    <3>2. \A n \in DOMAIN sent[p] : sent[p][n].message.ratchet_key < next_key'
      BY <1>0, <1>13, <2>2, <3>1
    <3> QED  BY <1>5, <2>3, <3>2
  <2>5. ASSUME NEW i \in DOMAIN after.sender_chain
        PROVE  /\ after.sender_chain[i].ratchet_key = message.ratchet_key
               /\ after.sender_chain[i].chain_key.key = message.sealed_with.key
    <3>1. i = 1
      BY <1>1, RatchetFields
    <3> QED  BY <1>1, <3>1
  <2> QED  BY <1>4, <2>3, <2>4, <2>5 DEF KeyNamesChain
<1>16. ASSUME NEW o \in Party, NEW i \in DOMAIN ratchet'[o].receiver_chains
       PROVE  FromPeer(o, ratchet[o].receiver_chains[i])'
  <2>1. ratchet'[o].receiver_chains = ratchet[o].receiver_chains
    BY <1>0, <1>1, <1>4
  <2>2. FromPeer(o, ratchet[o].receiver_chains[i])
    BY <2>1 DEF InStepInv
  <2>3. \A n \in DOMAIN sent[Peer(o)] :
           n \in DOMAIN sent'[Peer(o)] /\ sent'[Peer(o)][n] = sent[Peer(o)][n]
    BY <1>0, <1>4, <1>5
  <2> DEFINE chain == ratchet[o].receiver_chains[i]
  <2> HIDE DEF chain
  <2>4. FromPeer(o, chain)
    BY <2>2 DEF chain
  <2>5. \/ chain = FirstChain(0)
        \/ \E n \in DOMAIN sent'[Peer(o)] :
              /\ chain.ratchet_key = sent'[Peer(o)][n].message.ratchet_key
              /\ chain.chain_key.key = sent'[Peer(o)][n].message.sealed_with.key
              /\ chain.chain_key.index = sent'[Peer(o)][n].message.sealed_with.index + 1
    BY <2>3, <2>4 DEF FromPeer
  <2>6. ratchet'[o].receiver_chains[i] = chain
    BY <2>1 DEF chain
  <2> QED  BY <2>5, <2>6 DEF FromPeer
<1>17. \A o \in Party : KeyNamesChain(o)'
  BY <1>0, <1>14, <1>15
<1> QED  BY <1>2, <1>12, <1>13, <1>16, <1>17 DEF InStepInv

\* A new chain is received only by the end that is behind, and takes it to the root
\* key of the end ahead.
LEMMA ReceiveInStep ==
    ASSUME InStepInv, NEW p \in Party, NEW n \in DOMAIN sent[Peer(p)],
           NEW id, Receive(p, id, sent[Peer(p)][n].message),
           CanDecrypt(ratchet[p], sent[Peer(p)][n].message),
           SessionInv'
    PROVE  InStepInv'
<1> DEFINE r == ratchet[p]
           q == Peer(p)
           reader == sent[q][n].message
<1>a. PICK after : after = AfterDecrypt(r, reader)
  OBVIOUS
<1>0. /\ SessionInv /\ TypeOK
      /\ r \in RatchetState /\ KeysApart(r) /\ Turns(r, Turn(p)) /\ Turn(p) \in {0, 1}
      /\ q \in Party /\ q # p /\ Peer(q) = p /\ \A o \in Party : o = p \/ o = q
  BY PartyFacts DEF InStepInv, SessionInv, TypeOK
<1>1. /\ after \in RatchetState
      /\ \/ after.root_key = r.root_key /\ after.sender_chain = r.sender_chain
         \/ /\ r.sender_chain # <<>>
            /\ after.sender_chain = <<>>
            /\ after.root_key = reader.sealed_with.key
            /\ Len(after.root_key) = Len(r.root_key) + 1
            /\ Heads(r.root_key, after.root_key)
      /\ \A i \in DOMAIN after.receiver_chains :
            \/ \E j \in DOMAIN r.receiver_chains :
                  after.receiver_chains[i] = r.receiver_chains[j]
            \/ /\ after.receiver_chains[i].ratchet_key = reader.ratchet_key
               /\ after.receiver_chains[i].chain_key.key = reader.sealed_with.key
               /\ after.receiver_chains[i].chain_key.index = reader.sealed_with.index + 1
  <2>1. Header(reader)
    BY <1>0, SentMessage
  <2> DEFINE t == Turn(p)
  <2>2. t \in {0, 1} /\ Turns(r, t)
    BY <1>0
  <2>3. CanDecrypt(r, reader)
    OBVIOUS
  <2> HIDE DEF r, t, reader
  <2> QED  BY <1>0, <1>a, <2>1, <2>2, <2>3, DecryptChains
<1>2. /\ ratchet' = [ratchet EXCEPT ![p] = after]
      /\ sent' = sent /\ next_key' = next_key
  <2>1. Decrypt(r, reader).ratchet = after
    BY <1>a DEF Decrypt
  <2> QED  BY <2>1 DEF Receive
<1>3. ratchet'[p] = after /\ ratchet'[q] = ratchet[q]
  BY <1>0, <1>2 DEF TypeOK
<1>4. /\ Root(p) \in SharedKey /\ Root(q) \in SharedKey /\ after.root_key \in SharedKey
      /\ Len(Root(p)) \in Nat /\ Len(Root(q)) \in Nat
      /\ reader.sealed_with.key \in SharedKey
      /\ Root(p) = r.root_key
  BY <1>0, <1>1, RootTypes, RatchetFields DEF Root
<1>5. /\ \/ Heads(Root(p), Root(q)) /\ Len(Root(q)) <= Len(Root(p)) + 1
         \/ Heads(Root(q), Root(p)) /\ Len(Root(p)) <= Len(Root(q)) + 1
      /\ ratchet[q].sender_chain = <<>> => Root(q) = Root(p)
      /\ ratchet[p].sender_chain = <<>> => Root(p) = Root(q)
      /\ Heads(reader.sealed_with.key, Root(q))
  BY <1>0 DEF InStepInv, RootsInv
<1>6. /\ Heads(Root(p), after.root_key)
      /\ \/ Heads(after.root_key, Root(q)) /\ Len(Root(q)) <= Len(after.root_key) + 1
         \/ Heads(Root(q), after.root_key) /\ Len(after.root_key) <= Len(Root(q)) + 1
      /\ ratchet[q].sender_chain = <<>> => Root(q) = after.root_key
      /\ after.sender_chain = <<>> => Root(q) = after.root_key
  <2>1. CASE after.root_key = r.root_key /\ after.sender_chain = r.sender_chain
    BY <1>4, <1>5, <2>1, HeadsFacts
  <2>2. CASE /\ after.root_key = reader.sealed_with.key
             /\ Len(after.root_key) = Len(r.root_key) + 1
             /\ Heads(r.root_key, after.root_key)
    <3>1. Len(after.root_key) <= Len(Root(q))
      BY <1>5, <2>2 DEF Heads
    <3>2. Len(Root(q)) <= Len(Root(p)) + 1
      BY <1>4, <1>5, <2>2, <3>1 DEF Heads
    <3>3. Len(Root(q)) = Len(after.root_key)
      BY <1>4, <2>2, <3>1, <3>2
    <3>4. Root(q) = after.root_key
      BY <1>4, <1>5, <2>2, <3>3, HeadsFacts
    <3>5. Heads(Root(p), after.root_key)
      BY <1>4, <2>2
    <3>6. Heads(after.root_key, Root(q)) /\ Len(Root(q)) <= Len(after.root_key) + 1
      BY <1>4, <3>3, <3>4, HeadsFacts
    <3> QED  BY <3>4, <3>5, <3>6
  <2> QED  BY <1>1, <2>1, <2>2
<1>7. Root(p)' = after.root_key /\ Root(q)' = Root(q)
  BY <1>3 DEF Root
<1>8. \A m \in DOMAIN sent[p] : Heads(sent[p][m].message.sealed_with.key, after.root_key)
  <2>1. ASSUME NEW m \in DOMAIN sent[p]
        PROVE  Heads(sent[p][m].message.sealed_with.key, after.root_key)
    <3>1. Heads(sent[p][m].message.sealed_with.key, Root(p))
      BY DEF InStepInv, RootsInv
    <3>2. sent[p][m].message.sealed_with.key \in SharedKey
      BY <1>0, RootTypes
    <3> QED  BY <1>4, <1>6, <3>1, <3>2, HeadsFacts
  <2> QED  BY <2>1
<1>9. \A m \in DOMAIN sent[q] : Heads(sent[q][m].message.sealed_with.key, Root(q))
  BY <1>0 DEF InStepInv, RootsInv
<1>10. RootsInv'
  <2>1. ASSUME NEW o \in Party
        PROVE  /\ \/ Heads(Root(o)', Root(Peer(o))') /\ Len(Root(Peer(o))') <= Len(Root(o)') + 1
                  \/ Heads(Root(Peer(o))', Root(o)') /\ Len(Root(o)') <= Len(Root(Peer(o))') + 1
               /\ ratchet'[o].sender_chain = <<>> => Root(o)' = Root(Peer(o))'
               /\ \A m \in DOMAIN sent'[o] :
                     Heads(sent'[o][m].message.sealed_with.key, Root(o)')
    <3>1. CASE o = p
      BY <1>2, <1>3, <1>6, <1>7, <1>8, <3>1
    <3>2. CASE o = q
      BY <1>0, <1>2, <1>3, <1>6, <1>7, <1>9, <3>2
    <3> QED  BY <1>0, <3>1, <3>2
  <2> QED  BY <2>1 DEF RootsInv
<1>11. KeyNamesChain(q)'
  <2>1. KeyNamesChain(q)
    BY <1>0 DEF InStepInv
  <2> QED  BY <1>2, <1>3, <2>1 DEF KeyNamesChain
<1>12. KeyNamesChain(p)'
  <2>1. KeyNamesChain(p)
    BY DEF InStepInv
  <2>2. \A i \in DOMAIN after.sender_chain :
           i \in DOMAIN r.sender_chain /\ after.sender_chain[i] = r.sender_chain[i]
    BY <1>1
  <2> QED  BY <1>2, <1>3, <2>1, <2>2 DEF KeyNamesChain
<1>13. \A o \in Party : KeyNamesChain(o)'
  BY <1>0, <1>11, <1>12
<1>14. ASSUME NEW o \in Party, NEW i \in DOMAIN ratchet'[o].receiver_chains
       PROVE  FromPeer(o, ratchet[o].receiver_chains[i])'
  <2>1. CASE o = q
    <3>1. FromPeer(q, ratchet[q].receiver_chains[i])
      BY <1>0, <1>3, <2>1 DEF InStepInv
    <3> QED  BY <1>2, <1>3, <2>1, <3>1 DEF FromPeer
  <2>2. CASE o = p
    <3>1. CASE \E j \in DOMAIN r.receiver_chains :
                  after.receiver_chains[i] = r.receiver_chains[j]
      <4>1. FromPeer(p, after.receiver_chains[i])
        BY <3>1 DEF InStepInv
      <4> QED  BY <1>2, <1>3, <2>2, <4>1 DEF FromPeer
    <3>2. CASE /\ after.receiver_chains[i].ratchet_key = reader.ratchet_key
               /\ after.receiver_chains[i].chain_key.key = reader.sealed_with.key
               /\ after.receiver_chains[i].chain_key.index = reader.sealed_with.index + 1
      BY <1>2, <1>3, <2>2, <3>2 DEF FromPeer
    <3> QED  BY <1>1, <1>3, <2>2, <3>1, <3>2
  <2> QED  BY <1>0, <2>1, <2>2
<1>15. next_key' >= 1
  BY <1>2 DEF InStepInv
<1> QED  BY <1>10, <1>13, <1>14, <1>15 DEF InStepInv

\* What is refused changes nothing that is compared.
LEMMA RefusedInStep ==
    ASSUME InStepInv, NEW p \in Party, NEW id, NEW reader, Receive(p, id, reader),
           ~CanDecrypt(ratchet[p], reader), SessionInv'
    PROVE  InStepInv'
<1>1. Decrypt(ratchet[p], reader).ratchet = ratchet[p]
  BY DEF Decrypt
<1>2. ratchet' = ratchet /\ sent' = sent /\ next_key' = next_key
  BY <1>1 DEF Receive, InStepInv, SessionInv, TypeOK
<1> QED  BY <1>2 DEF InStepInv, RootsInv, Root, KeyNamesChain, FromPeer

\* InStepInv holds in every reachable state.
THEOREM InStep == Spec => []InStepInv
<1>1. InStepInv /\ [Next]_vars => InStepInv'
  <2> SUFFICES ASSUME InStepInv, [Next]_vars PROVE InStepInv'
    OBVIOUS
  <2>0. SessionInv /\ SessionInv' /\ TypeOK
    BY NextInv DEF InStepInv, SessionInv
  <2>1. CASE UNCHANGED vars
    BY <2>0, <2>1 DEF vars, InStepInv, RootsInv, Root, KeyNamesChain, FromPeer
  <2>2. ASSUME NEW p \in Party, Encrypt(p)
        PROVE  InStepInv'
    BY <2>2, EncryptInStep
  <2>3. ASSUME NEW p \in Party, ReceiveIntact(p)
        PROVE  InStepInv'
    <3>0. PICK q \in Party : \E n \in DOMAIN sent[q] :
             Receive(p, <<q, n>>, sent[q][n].message)
      BY <2>3 DEF ReceiveIntact
    <3>1. PICK n \in DOMAIN sent[q] : Receive(p, <<q, n>>, sent[q][n].message)
      BY <3>0
    <3>2. CASE CanDecrypt(ratchet[p], sent[q][n].message)
      <4>1. q = Peer(p)
        BY <2>0, <3>2, IntactFromPeer
      <4> QED  BY <2>0, <3>1, <3>2, <4>1, ReceiveInStep
    <3>3. CASE ~CanDecrypt(ratchet[p], sent[q][n].message)
      BY <2>0, <3>1, <3>3, RefusedInStep
    <3> QED  BY <3>2, <3>3
  <2>4. ASSUME NEW p \in Party, ReceiveDamaged(p)
        PROVE  InStepInv'
    <3>1. PICK k \in 0..next_key, c \in 0..MaxSent :
             Receive(p, <<Peer(p), 0>>,
                     [ratchet_key |-> k, counter |-> c, sealed_with |-> NoKey])
      BY <2>4 DEF ReceiveDamaged
    <3>2. k \in Nat /\ c \in Nat
      BY <2>0, SentBound DEF TypeOK
    <3>a. PICK reader : reader = [ratchet_key |-> k, counter |-> c, sealed_with |-> NoKey]
      OBVIOUS
    <3>3. ~CanDecrypt(ratchet[p], reader) /\ Receive(p, <<Peer(p), 0>>, reader)
      BY <2>0, <3>1, <3>2, <3>a, DamagedIsRefused
    <3> QED  BY <2>0, <3>3, RefusedInStep
  <2>5. ASSUME NEW p \in Party, Restart(p)
        PROVE  InStepInv'
    BY <2>0, <2>1, <2>5, RestartStep
  <2> QED  BY <2>1, <2>2, <2>3, <2>4, <2>5 DEF Next
<1> QED  BY <1>1, InitInStep, PTL DEF Spec

-----------------------------------------------------------------------------
(* What follows from it *)

\* The two root keys never fork, and neither is more than one step ahead.
THEOREM RootsStayInStep == Spec => []RootsInStep
<1>1. InStepInv => RootsInStep
  <2> SUFFICES ASSUME InStepInv PROVE RootsInStep
    OBVIOUS
  <2>1. /\ Alice \in Party /\ Peer(Alice) = Bob /\ Bob \in Party /\ TypeOK
    BY TwoParties DEF Party, Peer, InStepInv, SessionInv
  <2>2. \/ Heads(Root(Alice), Root(Bob)) /\ Len(Root(Bob)) <= Len(Root(Alice)) + 1
        \/ Heads(Root(Bob), Root(Alice)) /\ Len(Root(Alice)) <= Len(Root(Bob)) + 1
    BY <2>1 DEF InStepInv, RootsInv
  <2>3. Root(Alice) \in SharedKey /\ Root(Bob) \in SharedKey
    BY <2>1, RootTypes
  <2> QED  BY <2>2, <2>3, HeadsIsPrefix DEF RootsInStep, Root
<1> QED  BY <1>1, InStep, PTL

\* A receiver chain is the sender chain it is named like, and not ahead of it.
THEOREM ReceiverFollowsSender == Spec => []ReceiverBehindSender
<1>1. InStepInv => ReceiverBehindSender
  <2> SUFFICES ASSUME InStepInv, NEW p \in Party,
                      NEW i \in DOMAIN ratchet[p].receiver_chains,
                      NEW j \in DOMAIN ratchet[Peer(p)].sender_chain,
                      ratchet[p].receiver_chains[i].ratchet_key
                          = ratchet[Peer(p)].sender_chain[j].ratchet_key
               PROVE  /\ ratchet[p].receiver_chains[i].chain_key.key
                             = ratchet[Peer(p)].sender_chain[j].chain_key.key
                      /\ ratchet[p].receiver_chains[i].chain_key.index
                             <= ratchet[Peer(p)].sender_chain[j].chain_key.index
    BY DEF ReceiverBehindSender
  <2> DEFINE q == Peer(p)
             receiver == ratchet[p].receiver_chains[i]
             sender   == ratchet[q].sender_chain[j]
  <2>1. /\ q \in Party /\ SessionInv /\ TypeOK
        /\ ratchet[q] \in RatchetState /\ Turns(ratchet[q], Turn(q))
        /\ FromPeer(p, receiver) /\ KeyNamesChain(q)
    BY PartyFacts DEF InStepInv, SessionInv, TypeOK
  <2>2. ratchet[q].sender_chain # <<>>
    BY <2>1, RatchetFields, EmptySeq, LenProperties
  <2>3. j = 1 /\ sender.chain_key.index \in Nat /\ sender.chain_key.key = Root(q)
    <3>1. Len(ratchet[q].sender_chain) = 1
      BY <2>1, <2>2, SenderChainType
    <3>2. j = 1
      BY <2>1, <3>1, RatchetFields
    <3> QED  BY <2>1, <2>2, <3>2, SenderChainType DEF Turns, Root
  <2>4. CASE receiver = FirstChain(0)
    <3>1. receiver.ratchet_key = 0 /\ receiver.chain_key.key = <<>>
          /\ receiver.chain_key.index = 0
      BY <2>4 DEF FirstChain
    <3>2. sender.ratchet_key = 0
      BY <3>1
    <3>3. sender.chain_key.key = <<>>
      BY <2>1, <3>2 DEF KeyNamesChain
    <3> QED  BY <2>3, <3>1, <3>3
  <2>5. CASE \E n \in DOMAIN sent[q] :
                LET message == sent[q][n].message
                IN  /\ receiver.ratchet_key = message.ratchet_key
                    /\ receiver.chain_key.key = message.sealed_with.key
                    /\ receiver.chain_key.index = message.sealed_with.index + 1
    <3>1. PICK n \in DOMAIN sent[q] :
             /\ receiver.ratchet_key = sent[q][n].message.ratchet_key
             /\ receiver.chain_key.key = sent[q][n].message.sealed_with.key
             /\ receiver.chain_key.index = sent[q][n].message.sealed_with.index + 1
      BY <2>5
    <3>2. sent[q][n].message.sealed_with.key = sender.chain_key.key
      BY <2>1, <3>1 DEF KeyNamesChain
    <3>3. Spent(ratchet[q], sent[q][n].message.sealed_with)
      BY <2>1 DEF SessionInv, SentAreBehind
    <3>4. sent[q][n].message.sealed_with.index < sender.chain_key.index
      BY <2>2, <2>3, <3>2, <3>3 DEF Spent, Root
    <3>5. sent[q][n].message.sealed_with.index \in Nat
      BY <2>1, RootTypes
    <3> QED  BY <2>3, <3>1, <3>2, <3>4, <3>5
  <2> QED  BY <2>1, <2>4, <2>5 DEF FromPeer
<1> QED  BY <1>1, InStep, PTL

-----------------------------------------------------------------------------
(***************************************************************************)
(* A message in reach opens, for any limits, any number of messages, and   *)
(* every behaviour of the network.                                         *)
(*                                                                         *)
(* ReachInv says what each end still holds of all it has opened and passed *)
(* over (Remain, of ObjectProofs), that both ends call a chain by the same *)
(* two names, and that an end which is behind makes the other's root key   *)
(* out of the next message it gets.                                        *)
(***************************************************************************)

Used(p)  == { Message(id).sealed_with : id \in opened[p] }
First(p) == IF p = Bob THEN {<<>>} ELSE {}

FirstName == <<0, <<>>>>

\* The names of the chains p has sent on, or is about to.
SentNames(p)   == { MessageName(sent[p][n].message) : n \in DOMAIN sent[p] }
SenderNames(p) == { ChainName(ratchet[p].sender_chain[i]) : i \in DOMAIN ratchet[p].sender_chain }
ChainNames(p)  == SentNames(p) \union SenderNames(p)

\* A ratchet key names one chain, and a chain has one ratchet key.
OneToOne(names) == \A a, b \in names : a[1] = b[1] <=> a[2] = b[2]

\* A message counts along its chain, a key is kept under a name its chain was sent by,
\* and the newest chain received is that of the root key until it is answered.
NamesOf(p) ==
    /\ OneToOne({FirstName} \union ChainNames(p))
    /\ \A n \in DOMAIN sent[p] :
          sent[p][n].message.counter = sent[p][n].message.sealed_with.index
    /\ \A k \in DOMAIN ratchet[p].skipped_message_keys :
          SkippedName(ratchet[p].skipped_message_keys[k]) \in {FirstName} \union SentNames(Peer(p))
    /\ NewestReceived(ratchet[p])

NamesInv == \A p \in Party : NamesOf(p)

\* Of the chains of its peer an end has opened a message of all but the one that
\* takes it on.
ChainsHad(p) ==
    \A name \in ChainNames(Peer(p)) :
        Len(name[2]) <= Len(Root(p)) => name[2] \in Names(Used(p), First(p))

\* The root key of the end ahead is the next one of the end behind.
NextRoot(p) ==
    Len(Root(Peer(p))) > Len(Root(p)) =>
        /\ ratchet[p].sender_chain # <<>>
        /\ ratchet[Peer(p)].sender_chain # <<>>
        /\ Root(Peer(p)) = CreateChainKey(Root(p), ratchet[p].sender_chain[1].ratchet_key,
                              ratchet[Peer(p)].sender_chain[1].ratchet_key).root_key

\* What an end keeps of its own history.
KeptBy(p) == Remain(ratchet[p], Used(p), First(p), passed[p])

ReachInv ==
    /\ InStepInv
    /\ NamesInv
    /\ \A p \in Party :
          /\ ChainsHad(p)
          /\ NextRoot(p)
          /\ KeptBy(p)

-----------------------------------------------------------------------------
(* What the two calls do to the state *)

\* p has sent message, and its ratchet is after; q is its peer.
Sends(p, q, after, message) ==
    /\ ratchet'[p] = after /\ ratchet'[q] = ratchet[q]
    /\ sent'[q] = sent[q]
    /\ \A n \in DOMAIN sent[p] : n \in DOMAIN sent'[p] /\ sent'[p][n] = sent[p][n]
    /\ \A n \in DOMAIN sent'[p] :
          \/ sent'[p][n].message = message
          \/ n \in DOMAIN sent[p] /\ sent'[p][n] = sent[p][n]
    /\ \E n \in DOMAIN sent'[p] : sent'[p][n].message = message
    /\ opened' = opened /\ passed' = passed

\* p has opened reader, the message of its peer q called id.
Opened(p, q, after, id, reader) ==
    /\ ratchet'[p] = after /\ ratchet'[q] = ratchet[q]
    /\ sent' = sent
    /\ opened'[p] = opened[p] \union {id} /\ opened'[q] = opened[q]
    /\ passed'[p] = PassedKeys(p, reader) \o passed[p] /\ passed'[q] = passed[q]

\* Everyone is one of the two ends, and each ratchet has its types.
LEMMA TwoEnds ==
    ASSUME SessionInv, NEW p \in Party, NEW q, q = Peer(p)
    PROVE  /\ q \in Party /\ q # p /\ Peer(q) = p /\ \A o \in Party : o = p \/ o = q
           /\ TypeOK
           /\ ratchet[p] \in RatchetState /\ ratchet[q] \in RatchetState
           /\ KeysApart(ratchet[p]) /\ KeysApart(ratchet[q])
           /\ Turns(ratchet[p], Turn(p)) /\ Turns(ratchet[q], Turn(q))
           /\ Turn(p) \in {0, 1} /\ Turn(q) = 1 - Turn(p)
           /\ passed[p] \in Seq(MessageKey) /\ passed[q] \in Seq(MessageKey)
BY PartyFacts DEF SessionInv, TypeOK

\* encrypt() by p.
LEMMA EncryptSends ==
    ASSUME SessionInv, NEW p \in Party, NEW q, q = Peer(p), Encrypt(p),
           NEW after, after = AfterEncrypt(ratchet[p], next_key),
           NEW message, message = Encrypted(ratchet[p], next_key)
    PROVE  Sends(p, q, after, message)
<1> DEFINE entry == [type |-> EncryptMessageType(p), message |-> message]
<1>0. /\ q \in Party /\ q # p /\ TypeOK
      /\ ratchet[p] \in RatchetState /\ KeysApart(ratchet[p]) /\ next_key \in RatchetKey
      /\ Turns(ratchet[p], Turn(p)) /\ Turn(p) \in {0, 1}
  BY TwoEnds DEF TypeOK, RatchetKey
<1>1. message \in WireMessage
  <2> DEFINE t == Turn(p)
             r == ratchet[p]
  <2>1. r \in RatchetState /\ KeysApart(r) /\ t \in {0, 1} /\ Turns(r, t)
        /\ next_key \in RatchetKey
        /\ after = AfterEncrypt(r, next_key) /\ message = Encrypted(r, next_key)
    BY <1>0
  <2> HIDE DEF r, t
  <2> QED  BY <2>1, EncryptChains
<1>2. /\ ratchet' = [ratchet EXCEPT ![p] = after]
      /\ sent' = [sent EXCEPT ![p] = Append(sent[p], entry)]
      /\ opened' = opened /\ passed' = passed
  BY DEF Encrypt
<1>3. /\ ratchet'[p] = after /\ ratchet'[q] = ratchet[q]
      /\ sent'[p] = Append(sent[p], entry) /\ sent'[q] = sent[q]
  BY <1>0, <1>2 DEF TypeOK
<1>4. sent[p] \in Seq([type : {PRE_KEY, MESSAGE}, message : WireMessage])
  <2>1. sent[p] \in Log
    BY <1>0 DEF TypeOK
  <2> QED  BY <2>1 DEF Log
<1>5. entry \in [type : {PRE_KEY, MESSAGE}, message : WireMessage] /\ entry.message = message
  BY <1>1 DEF EncryptMessageType
<1>6. Len(sent[p]) \in Nat /\ DOMAIN sent[p] = 1..Len(sent[p])
  BY <1>4, LenProperties
<1> HIDE DEF entry
<1>7. /\ Append(sent[p], entry) \in Seq([type : {PRE_KEY, MESSAGE}, message : WireMessage])
      /\ Len(Append(sent[p], entry)) = Len(sent[p]) + 1
      /\ \A n \in 1..Len(sent[p]) : Append(sent[p], entry)[n] = sent[p][n]
      /\ Append(sent[p], entry)[Len(sent[p]) + 1] = entry
  BY <1>4, <1>5, AppendProperties
<1>8. DOMAIN Append(sent[p], entry) = 1 .. Len(sent[p]) + 1
  BY <1>7, LenProperties
<1>a. PICK last : last = Len(sent[p]) + 1
  OBVIOUS
<1>9. /\ \A n \in DOMAIN sent[p] : n \in DOMAIN sent'[p] /\ sent'[p][n] = sent[p][n]
      /\ \A n \in DOMAIN sent'[p] : n = last \/ n \in DOMAIN sent[p]
      /\ last \in DOMAIN sent'[p]
      /\ sent'[p][last].message = message
  BY <1>a, <1>3, <1>5, <1>6, <1>7, <1>8
<1>10. \A n \in DOMAIN sent'[p] :
          \/ sent'[p][n].message = message
          \/ n \in DOMAIN sent[p] /\ sent'[p][n] = sent[p][n]
  <2> TAKE n \in DOMAIN sent'[p]
  <2>1. CASE n = last
    BY <1>9, <2>1
  <2>2. CASE n \in DOMAIN sent[p]
    BY <1>9, <2>2
  <2> QED  BY <1>9, <2>1, <2>2
<1> QED  BY <1>2, <1>3, <1>9, <1>10 DEF Sends

\* decrypt() by p of a message it accepts.
LEMMA DecryptOpened ==
    ASSUME SessionInv, NEW p \in Party, NEW q, q = Peer(p), NEW id, NEW reader,
           Receive(p, id, reader), CanDecrypt(ratchet[p], reader),
           NEW after, after = AfterDecrypt(ratchet[p], reader)
    PROVE  Opened(p, q, after, id, reader)
<1>0. q \in Party /\ q # p /\ TypeOK
  BY TwoEnds
<1>1. Decrypt(ratchet[p], reader) = [ok |-> TRUE, ratchet |-> after]
  BY DEF Decrypt
<1>2. /\ ratchet' = [ratchet EXCEPT ![p] = after]
      /\ sent' = sent
      /\ opened' = [opened EXCEPT ![p] = opened[p] \union {id}]
      /\ passed' = [passed EXCEPT ![p] = PassedKeys(p, reader) \o passed[p]]
  BY <1>1 DEF Receive
<1> QED  BY <1>0, <1>2 DEF Opened, TypeOK

-----------------------------------------------------------------------------
(* The keys that have opened a message *)

\* They are keys of messages of the peer, finitely many.
LEMMA UsedKeys ==
    ASSUME SessionInv, NEW p \in Party
    PROVE  /\ Used(p) \subseteq MessageKey
           /\ IsFiniteSet(Used(p))
           /\ \A k \in Used(p) : \E n \in DOMAIN sent[Peer(p)] :
                 /\ <<Peer(p), n>> \in opened[p]
                 /\ k = sent[Peer(p)][n].message.sealed_with
<1> DEFINE q == Peer(p)
<1>0. q \in Party /\ TypeOK
  BY TwoEnds
<1>1. \A id \in opened[p] : id \in Party \X Nat /\ id[1] = q /\ id[2] \in DOMAIN sent[q]
  BY <1>0 DEF SessionInv, OpenedAreGone, TypeOK
<1>2. \A id \in opened[p] : id = <<q, id[2]>> /\ Message(id) = sent[q][id[2]].message
  BY <1>1 DEF Message
<1>3. \A k \in Used(p) : \E n \in DOMAIN sent[q] :
         <<q, n>> \in opened[p] /\ k = sent[q][n].message.sealed_with
  BY <1>1, <1>2 DEF Used
<1>4. Used(p) \subseteq MessageKey
  BY <1>0, <1>3, SentMessage
<1>5. IsFiniteSet(Used(p))
  <2> DEFINE keys == { sent[q][n].message.sealed_with : n \in DOMAIN sent[q] }
  <2>1. IsFiniteSet(DOMAIN sent[q])
    <3>1. sent[q] \in Log
      BY <1>0 DEF TypeOK
    <3>2. DOMAIN sent[q] = 1..Len(sent[q]) /\ Len(sent[q]) \in Nat
      BY <3>1, LenProperties DEF Log
    <3>3. \A k \in Nat : IsFiniteSet(1..k)
      BY FS_Interval
    <3> QED  BY <3>2, <3>3
  <2>2. IsFiniteSet(keys)
    <3> DEFINE key == [n \in DOMAIN sent[q] |-> sent[q][n].message.sealed_with]
    <3>1. key \in Surjection(DOMAIN sent[q], keys)
      BY DEF Surjection
    <3> HIDE DEF key, keys
    <3> QED  BY <2>1, <3>1, FS_Surjection
  <2>3. Used(p) \subseteq keys
    BY <1>3
  <2> QED  BY <2>2, <2>3, FS_Subset
<1> QED  BY <1>3, <1>4, <1>5

\* A message that has not been opened is sealed under none of them.
LEMMA NotUsed ==
    ASSUME SessionInv, NEW p \in Party, NEW n \in DOMAIN sent[Peer(p)],
           <<Peer(p), n>> \notin opened[p]
    PROVE  sent[Peer(p)][n].message.sealed_with \notin Used(p)
<1>1. SentAreBehind(Peer(p))
  BY PartyFacts DEF SessionInv
<1> QED  BY <1>1, UsedKeys DEF SentAreBehind

\* Sending a message leaves them alone.
LEMMA UsedSent ==
    ASSUME SessionInv, NEW p \in Party, NEW q, q = Peer(p), NEW after, NEW message,
           Sends(p, q, after, message), NEW o \in Party
    PROVE  Used(o)' = Used(o)
<1>1. opened' = opened
  BY DEF Sends
<1>2. ASSUME NEW id \in opened[o] PROVE Message(id)' = Message(id)
  <2>1. id[1] \in Party /\ id[2] \in DOMAIN sent[id[1]]
    BY PartyFacts DEF SessionInv, OpenedAreGone
  <2>2. id[1] = p \/ id[1] = q
    BY <2>1, PartyFacts
  <2>3. sent'[id[1]][id[2]] = sent[id[1]][id[2]]
    BY <2>1, <2>2 DEF Sends
  <2> QED  BY <2>3 DEF Message
<1> QED  BY <1>1, <1>2 DEF Used

\* Opening a message adds its own.
LEMMA UsedOpened ==
    ASSUME SessionInv, NEW p \in Party, NEW q, q = Peer(p), NEW after,
           NEW n \in DOMAIN sent[q], NEW reader, reader = sent[q][n].message,
           Opened(p, q, after, <<q, n>>, reader)
    PROVE  /\ Used(p)' = Used(p) \union {reader.sealed_with}
           /\ Used(q)' = Used(q)
<1>1. /\ sent' = sent /\ opened'[p] = opened[p] \union {<<q, n>>} /\ opened'[q] = opened[q]
  BY DEF Opened
<1>2. \A id : Message(id)' = Message(id)
  BY <1>1 DEF Message
<1>3. Message(<<q, n>>) = reader
  BY DEF Message
<1>4. Used(q)' = Used(q)
  BY <1>1, <1>2 DEF Used
<1>5. Used(p)' = { Message(id).sealed_with : id \in opened[p] \union {<<q, n>>} }
  BY <1>1, <1>2 DEF Used
<1>6. Used(p)' = Used(p) \union {reader.sealed_with}
  BY <1>3, <1>5 DEF Used
<1> QED  BY <1>4, <1>6

-----------------------------------------------------------------------------
(* The history in the words of the ratchet *)

\* What opening a message passes over is what lies between it and all that was
\* opened of its chain before.
LEMMA PassedAre ==
    ASSUME SessionInv, NamesInv, NEW p \in Party, NEW n \in DOMAIN sent[Peer(p)],
           NEW reader, reader = sent[Peer(p)][n].message
    PROVE  /\ PassedBy(p, reader) = Between(Used(p), reader.sealed_with.key, reader.counter)
           /\ PassedKeys(p, reader) =
                 Over(reader.sealed_with.key,
                      Cardinality(Between(Used(p), reader.sealed_with.key, reader.counter)),
                      reader.counter)
<1> DEFINE q == Peer(p)
<1>0. q \in Party /\ TypeOK
  BY TwoEnds
<1>1. \A id \in opened[p] : id[1] = q /\ id[2] \in DOMAIN sent[q]
  BY DEF SessionInv, OpenedAreGone
<1>2. \A id \in opened[p] : /\ id[2] \in DOMAIN sent[id[1]]
                            /\ Message(id) = sent[q][id[2]].message
                            /\ Message(id).counter = Message(id).sealed_with.index
  BY <1>0, <1>1 DEF Message, NamesInv, NamesOf
<1>3. ASSUME NEW name, NEW c
      PROVE  (\A id \in { i \in opened[p] : Message(i).sealed_with.key = name } :
                 Message(id).counter < c)
             <=> (\A k \in Used(p) : k.key = name => k.index < c)
  BY <1>2 DEF Used
<1>4. \A name : OpenedOnChain(p, name) =
                   { i \in opened[p] : Message(i).sealed_with.key = name }
  BY <1>2 DEF OpenedOnChain
<1>5. PassedBy(p, reader) = Between(Used(p), reader.sealed_with.key, reader.counter)
  BY <1>3, <1>4 DEF PassedBy, Between
<1>6. reader.sealed_with \in MessageKey
  BY <1>0, SentMessage
<1>7. \A i : [reader.sealed_with EXCEPT !.index = reader.counter - i] =
                KeyAt(reader.sealed_with.key, reader.counter - i)
  BY <1>6 DEF KeyAt, MessageKey
<1> QED  BY <1>5, <1>7 DEF PassedKeys, Over

\* The newer chains an end has opened messages of.
LEMMA NewerAre ==
    ASSUME SessionInv, NEW p \in Party, NEW message_key
    PROVE  /\ NewerChains(p, message_key) = Newer(Used(p), message_key.key)
           /\ IsFiniteSet(Newer(Used(p), message_key.key))
<1>1. NewerChains(p, message_key) = Newer(Used(p), message_key.key)
  BY DEF NewerChains, Newer, Used
<1>2. IsFiniteSet(Used(p))
  BY UsedKeys
<1>3. PICK used : used = Used(p)
  OBVIOUS
<1>4. IsFiniteSet(Newer(used, message_key.key))
  <2> DEFINE names == { k.key : k \in used }
             name == [k \in used |-> k.key]
  <2>1. name \in Surjection(used, names)
    BY DEF Surjection
  <2>2. IsFiniteSet(names)
    <3> HIDE DEF name, names
    <3> QED  BY <1>2, <1>3, <2>1, FS_Surjection
  <2>3. Newer(used, message_key.key) \subseteq names
    BY DEF Newer
  <2> HIDE DEF names
  <2> QED  BY <2>2, <2>3, FS_Subset
<1> QED  BY <1>1, <1>3, <1>4

-----------------------------------------------------------------------------
(* What the two calls do to a ratchet, in one piece *)

\* after and message are what encrypt() makes of r.
Encrypts(r, new_key, after, message) ==
    /\ after \in RatchetState
    /\ after.receiver_chains = r.receiver_chains
    /\ after.skipped_message_keys = r.skipped_message_keys
    /\ after.sender_chain # <<>>
    /\ DOMAIN after.sender_chain = {1}
    /\ ChainName(after.sender_chain[1]) = MessageName(message)
    /\ message.sealed_with.key = after.root_key
    /\ message.counter = message.sealed_with.index
    /\ IF r.sender_chain = <<>>
       THEN /\ message.ratchet_key = new_key
            /\ Len(after.root_key) = Len(r.root_key) + 1
            /\ after.root_key = CreateChainKey(r.root_key, new_key,
                                               r.receiver_chains[1].ratchet_key).root_key
       ELSE /\ 1 \in DOMAIN r.sender_chain
            /\ ChainName(r.sender_chain[1]) = MessageName(message)
            /\ after.root_key = r.root_key

\* AfterEncrypt and Encrypted make it so.
LEMMA EncryptedOnce ==
    ASSUME NEW r \in RatchetState, NEW t \in {0, 1}, KeysApart(r), Turns(r, t),
           NEW new_key \in RatchetKey,
           NEW after, after = AfterEncrypt(r, new_key),
           NEW message, message = Encrypted(r, new_key)
    PROVE  Encrypts(r, new_key, after, message)
<1>1. NeedsRatchetKey(r) <=> r.sender_chain = <<>>
  BY DEF NeedsRatchetKey
<1>2. NeedsRatchetKey(r) => r.receiver_chains # <<>>
  BY <1>1 DEF Turns
<1>3. after.skipped_message_keys = r.skipped_message_keys /\ after.sender_chain # <<>>
  BY <1>2, EncryptFields
<1>4. /\ message.counter = message.sealed_with.index
      /\ NeedsRatchetKey(r) =>
            after.root_key = CreateChainKey(r.root_key, new_key,
                                            r.receiver_chains[1].ratchet_key).root_key
  BY EncryptNames
<1>5. /\ after \in RatchetState
      /\ message \in WireMessage
      /\ Len(after.sender_chain) = 1
      /\ after.receiver_chains = r.receiver_chains
      /\ after.sender_chain[1].ratchet_key = message.ratchet_key
      /\ after.sender_chain[1].chain_key.key = message.sealed_with.key
      /\ message.sealed_with.key = after.root_key
      /\ IF NeedsRatchetKey(r)
         THEN /\ message.ratchet_key = new_key
              /\ Heads(r.root_key, after.root_key)
              /\ Len(after.root_key) = Len(r.root_key) + 1
         ELSE /\ message.ratchet_key = r.sender_chain[1].ratchet_key
              /\ after.root_key = r.root_key
  BY EncryptChains
<1>6. DOMAIN after.sender_chain = {1}
  BY <1>5, RatchetFields
<1>7. r.sender_chain # <<>> => /\ r.sender_chain[1].chain_key.key = r.root_key
                               /\ 1 \in DOMAIN r.sender_chain
  BY RatchetFields, SenderChainType DEF Turns
<1> QED  BY <1>1, <1>3, <1>4, <1>5, <1>6, <1>7 DEF Encrypts, ChainName, MessageName

\* after is what decrypt() of the message leaves of r.
Decrypts(r, reader, after) ==
    /\ after \in RatchetState
    /\ NewestReceived(after)
    /\ \A k \in DOMAIN after.skipped_message_keys :
          \/ SkippedName(after.skipped_message_keys[k]) = MessageName(reader)
          \/ \E j \in DOMAIN r.skipped_message_keys :
                after.skipped_message_keys[k] = r.skipped_message_keys[j]
    /\ \/ after.root_key = r.root_key /\ after.sender_chain = r.sender_chain
       \/ /\ after.sender_chain = <<>>
          /\ after.root_key = reader.sealed_with.key
          /\ Len(after.root_key) = Len(r.root_key) + 1
          /\ Heads(r.root_key, after.root_key)

\* AfterDecrypt makes it so.
LEMMA DecryptedOnce ==
    ASSUME NEW r \in RatchetState, NEW t \in {0, 1}, KeysApart(r), Turns(r, t),
           NewestReceived(r),
           NEW reader, Header(reader), CanDecrypt(r, reader),
           NEW after, after = AfterDecrypt(r, reader)
    PROVE  Decrypts(r, reader, after)
<1>1. /\ NewestReceived(after)
      /\ \A k \in DOMAIN after.skipped_message_keys :
            \/ SkippedName(after.skipped_message_keys[k]) = MessageName(reader)
            \/ \E j \in DOMAIN r.skipped_message_keys :
                  after.skipped_message_keys[k] = r.skipped_message_keys[j]
  BY DecryptNames
<1>2. /\ after \in RatchetState
      /\ \/ after.root_key = r.root_key /\ after.sender_chain = r.sender_chain
         \/ /\ r.sender_chain # <<>>
            /\ after.sender_chain = <<>>
            /\ after.root_key = reader.sealed_with.key
            /\ Len(after.root_key) = Len(r.root_key) + 1
            /\ Heads(r.root_key, after.root_key)
      /\ \A i \in DOMAIN after.receiver_chains :
            \/ \E j \in DOMAIN r.receiver_chains :
                  after.receiver_chains[i] = r.receiver_chains[j]
            \/ /\ after.receiver_chains[i].ratchet_key = reader.ratchet_key
               /\ after.receiver_chains[i].chain_key.key = reader.sealed_with.key
               /\ after.receiver_chains[i].chain_key.index = reader.sealed_with.index + 1
  BY DecryptChains
<1> QED  BY <1>1, <1>2 DEF Decrypts

-----------------------------------------------------------------------------
(* Names *)

\* What the names of the chains of an end are bounded by.
LEMMA NamesBounds ==
    ASSUME InStepInv, NEW p \in Party, NEW name \in ChainNames(p)
    PROVE  /\ name[1] \in Nat /\ name[1] < next_key
           /\ name[2] \in SharedKey /\ Len(name[2]) \in Nat
           /\ Len(name[2]) <= Len(Root(p)) /\ Heads(name[2], Root(p))
           /\ name \in SenderNames(p) => name[2] = Root(p)
<1>0. /\ SessionInv /\ TypeOK /\ KeyNamesChain(p)
      /\ ratchet[p] \in RatchetState /\ Turns(ratchet[p], Turn(p))
      /\ Root(p) \in SharedKey /\ Len(Root(p)) \in Nat
  BY TwoEnds, RootTypes DEF InStepInv
<1>1. ASSUME name \in SenderNames(p)
      PROVE  /\ name[1] \in Nat /\ name[1] < next_key
             /\ name[2] = Root(p)
  <2>1. PICK i \in DOMAIN ratchet[p].sender_chain : name = ChainName(ratchet[p].sender_chain[i])
    BY <1>1 DEF SenderNames
  <2>2. ratchet[p].sender_chain # <<>>
    BY <2>1, <1>0, RatchetFields, EmptySeq, LenProperties
  <2>3. i = 1
    BY <1>0, <2>1, <2>2, RatchetFields, SenderChainType
  <2>4. /\ ratchet[p].sender_chain[1].ratchet_key \in Nat
        /\ ratchet[p].sender_chain[1].ratchet_key < next_key
        /\ ratchet[p].sender_chain[1].chain_key.key = Root(p)
    BY <1>0, <2>1, <2>2, <2>3, SenderChainType DEF KeyNamesChain, Turns, Root, RatchetKey
  <2> QED  BY <2>1, <2>3, <2>4 DEF ChainName
<1>2. ASSUME name \in SentNames(p)
      PROVE  /\ name[1] \in Nat /\ name[1] < next_key
             /\ name[2] \in SharedKey
             /\ Len(name[2]) <= Len(Root(p)) /\ Heads(name[2], Root(p))
  <2>1. PICK n \in DOMAIN sent[p] : name = MessageName(sent[p][n].message)
    BY <1>2 DEF SentNames
  <2>2. /\ sent[p][n].message.ratchet_key \in Nat
        /\ sent[p][n].message.sealed_with.key \in SharedKey
        /\ sent[p][n].message.ratchet_key < next_key
    BY <1>0, RootTypes DEF KeyNamesChain
  <2>3. Heads(sent[p][n].message.sealed_with.key, Root(p))
    BY DEF InStepInv, RootsInv
  <2>4. Len(sent[p][n].message.sealed_with.key) <= Len(Root(p))
    BY <2>3 DEF Heads
  <2> QED  BY <2>1, <2>2, <2>3, <2>4 DEF MessageName
<1>3. name \in SentNames(p) \/ name \in SenderNames(p)
  BY DEF ChainNames
<1>4. \A s \in SharedKey : Len(s) \in Nat
  BY LenProperties DEF SharedKey
<1>5. Heads(Root(p), Root(p))
  BY <1>0, HeadsFacts
<1> QED  BY <1>0, <1>1, <1>2, <1>3, <1>4, <1>5

\* A new name that shares neither key with the others.
LEMMA OneToOneNew ==
    ASSUME NEW names, OneToOne(names), NEW new,
           \A a \in names : a[1] # new[1] /\ a[2] # new[2],
           NEW later, later \subseteq names \union {new}
    PROVE  OneToOne(later)
BY DEF OneToOne

\* Fewer names are as good.
LEMMA OneToOneFewer ==
    ASSUME NEW names, OneToOne(names), NEW later, later \subseteq names
    PROVE  OneToOne(later)
BY DEF OneToOne

\* A call of encrypt() and what it does.
LEMMA EncryptDone ==
    ASSUME InStepInv, NEW p \in Party, NEW q, q = Peer(p), Encrypt(p)
    PROVE  \E after, message : /\ Sends(p, q, after, message)
                               /\ Encrypts(ratchet[p], next_key, after, message)
<1>1. PICK after : after = AfterEncrypt(ratchet[p], next_key)
  OBVIOUS
<1>2. PICK message : message = Encrypted(ratchet[p], next_key)
  OBVIOUS
<1>3. PICK t \in {0, 1} : t = Turn(p)
  BY PartyFacts
<1>4. SessionInv /\ next_key \in RatchetKey
  BY DEF InStepInv, SessionInv, TypeOK, RatchetKey
<1>5. ratchet[p] \in RatchetState /\ KeysApart(ratchet[p]) /\ Turns(ratchet[p], t)
  BY <1>3, <1>4, TwoEnds
<1>6. PICK r : r = ratchet[p]
  OBVIOUS
<1>7. Encrypts(r, next_key, after, message)
  BY <1>1, <1>2, <1>4, <1>5, <1>6, EncryptedOnce
<1> QED  BY <1>1, <1>2, <1>4, <1>6, <1>7, EncryptSends

\* A call of decrypt() that accepts a message of the peer, and what it does.
LEMMA DecryptDone ==
    ASSUME InStepInv, NamesInv, NEW p \in Party, NEW q, q = Peer(p), NEW n \in DOMAIN sent[q],
           NEW reader, reader = sent[q][n].message,
           Receive(p, <<q, n>>, reader), CanDecrypt(ratchet[p], reader),
           NEW after, after = AfterDecrypt(ratchet[p], reader)
    PROVE  /\ Opened(p, q, after, <<q, n>>, reader)
           /\ Decrypts(ratchet[p], reader, after)
<1>1. PICK t \in {0, 1} : t = Turn(p)
  BY PartyFacts
<1>2. SessionInv /\ NewestReceived(ratchet[p])
  BY DEF InStepInv, NamesInv, NamesOf
<1>3. ratchet[p] \in RatchetState /\ KeysApart(ratchet[p]) /\ Turns(ratchet[p], t)
  BY <1>1, <1>2, TwoEnds
<1>4. Header(reader)
  BY <1>2, TwoEnds, SentMessage
<1>5. PICK r : r = ratchet[p]
  OBVIOUS
<1>6. Decrypts(r, reader, after)
  BY <1>2, <1>3, <1>4, <1>5, DecryptedOnce
<1> QED  BY <1>2, <1>5, <1>6, DecryptOpened

\* Sending adds the name of the message, which is the sender chain's too.
LEMMA NamesSent ==
    ASSUME InStepInv, NEW p \in Party, NEW q, q = Peer(p), NEW after, NEW message,
           Sends(p, q, after, message),
           Encrypts(ratchet[p], next_key, after, message)
    PROVE  /\ SentNames(p)' = SentNames(p) \union {MessageName(message)}
           /\ SenderNames(p)' = {MessageName(message)}
           /\ SentNames(q)' = SentNames(q) /\ SenderNames(q)' = SenderNames(q)
           /\ ratchet[p].sender_chain # <<>> => SenderNames(p) = {MessageName(message)}
           /\ ratchet[p].sender_chain = <<>> => SenderNames(p) = {}
<1>1. SentNames(p)' = SentNames(p) \union {MessageName(message)}
  <2>1. SentNames(p)' = { MessageName(sent'[p][n].message) : n \in DOMAIN sent'[p] }
    BY DEF SentNames, MessageName
  <2>2. SentNames(p) = { MessageName(sent[p][n].message) : n \in DOMAIN sent[p] }
    BY DEF SentNames
  <2>3. /\ \A n \in DOMAIN sent[p] : n \in DOMAIN sent'[p] /\ sent'[p][n] = sent[p][n]
        /\ \A n \in DOMAIN sent'[p] :
              \/ sent'[p][n].message = message
              \/ n \in DOMAIN sent[p] /\ sent'[p][n] = sent[p][n]
        /\ \E n \in DOMAIN sent'[p] : sent'[p][n].message = message
    BY DEF Sends
  <2>4. \A name \in SentNames(p)' : name \in SentNames(p) \union {MessageName(message)}
    BY <2>1, <2>2, <2>3
  <2>5. \A name \in SentNames(p) \union {MessageName(message)} : name \in SentNames(p)'
    BY <2>1, <2>2, <2>3
  <2> QED  BY <2>4, <2>5
<1>2. SenderNames(p)' = {MessageName(message)}
  <2>1. ratchet'[p] = after
    BY DEF Sends
  <2>2. DOMAIN after.sender_chain = {1} /\ ChainName(after.sender_chain[1]) = MessageName(message)
    BY DEF Encrypts
  <2>3. SenderNames(p)' = { ChainName(after.sender_chain[i]) : i \in DOMAIN after.sender_chain }
    BY <2>1 DEF SenderNames, ChainName
  <2> QED  BY <2>2, <2>3
<1>3. SentNames(q)' = SentNames(q) /\ SenderNames(q)' = SenderNames(q)
  <2>1. ratchet'[q] = ratchet[q] /\ sent'[q] = sent[q]
    BY DEF Sends
  <2> QED  BY <2>1 DEF SentNames, SenderNames, MessageName, ChainName
<1>4. ASSUME ratchet[p].sender_chain # <<>>
      PROVE  SenderNames(p) = {MessageName(message)}
  <2>1. DOMAIN ratchet[p].sender_chain = {1}
    <3>1. ratchet[p] \in RatchetState
      BY DEF InStepInv, SessionInv, TypeOK
    <3> QED  BY <1>4, <3>1, RatchetFields, SenderChainType
  <2>2. ChainName(ratchet[p].sender_chain[1]) = MessageName(message)
    BY <1>4 DEF Encrypts
  <2> QED  BY <2>1, <2>2 DEF SenderNames
<1>5. ASSUME ratchet[p].sender_chain = <<>>
      PROVE  SenderNames(p) = {}
  BY <1>5 DEF SenderNames
<1> QED  BY <1>1, <1>2, <1>3, <1>4, <1>5

\* Opening a message adds none.
LEMMA NamesOpened ==
    ASSUME NEW p \in Party, NEW q, q = Peer(p), NEW after, NEW id, NEW reader,
           Opened(p, q, after, id, reader), Decrypts(ratchet[p], reader, after)
    PROVE  /\ SentNames(p)' = SentNames(p) /\ SentNames(q)' = SentNames(q)
           /\ SenderNames(q)' = SenderNames(q)
           /\ SenderNames(p)' \subseteq SenderNames(p)
<1>1. ratchet'[p] = after /\ ratchet'[q] = ratchet[q] /\ sent' = sent
  BY DEF Opened
<1>2. after.sender_chain = ratchet[p].sender_chain \/ after.sender_chain = <<>>
  BY DEF Decrypts
<1>3. SentNames(p)' = SentNames(p) /\ SentNames(q)' = SentNames(q)
  BY <1>1 DEF SentNames, MessageName
<1>4. SenderNames(q)' = SenderNames(q)
  BY <1>1 DEF SenderNames, ChainName
<1>5. SenderNames(p)' = { ChainName(after.sender_chain[i]) : i \in DOMAIN after.sender_chain }
  BY <1>1 DEF SenderNames, ChainName
<1>6. SenderNames(p)' \subseteq SenderNames(p)
  <2>1. CASE after.sender_chain = ratchet[p].sender_chain
    BY <1>5, <2>1 DEF SenderNames
  <2>2. CASE after.sender_chain = <<>>
    BY <1>5, <2>2
  <2> QED  BY <1>2, <2>1, <2>2
<1> QED  BY <1>3, <1>4, <1>6

\* encrypt() gives a new chain a name of its own.
LEMMA EncryptNamesInv ==
    ASSUME InStepInv, NamesInv, NEW p \in Party, NEW q, q = Peer(p), NEW after, NEW message,
           Sends(p, q, after, message),
           Encrypts(ratchet[p], next_key, after, message)
    PROVE  NamesInv'
<1>0. /\ q \in Party /\ q # p /\ Peer(q) = p /\ \A o \in Party : o = p \/ o = q
      /\ ratchet[p] \in RatchetState /\ next_key \in Nat /\ next_key >= 1
      /\ Len(Root(p)) \in Nat /\ Root(p) = ratchet[p].root_key
  BY TwoEnds, RatchetFields DEF InStepInv, TypeOK, Root
<1>1. /\ SentNames(p)' = SentNames(p) \union {MessageName(message)}
      /\ SenderNames(p)' = {MessageName(message)}
      /\ SentNames(q)' = SentNames(q) /\ SenderNames(q)' = SenderNames(q)
      /\ ratchet[p].sender_chain # <<>> => SenderNames(p) = {MessageName(message)}
      /\ ratchet[p].sender_chain = <<>> => SenderNames(p) = {}
  BY NamesSent
<1>2. /\ ratchet'[p] = after /\ ratchet'[q] = ratchet[q] /\ sent'[q] = sent[q]
      /\ \A n \in DOMAIN sent'[p] :
            \/ sent'[p][n].message = message
            \/ n \in DOMAIN sent[p] /\ sent'[p][n] = sent[p][n]
  BY DEF Sends
<1>3. OneToOne({FirstName} \union ChainNames(p))'
  <2> DEFINE old == {FirstName} \union ChainNames(p)
             new == MessageName(message)
             later == {FirstName} \union ChainNames(p)'
  <2>1. OneToOne(old)
    BY DEF NamesInv, NamesOf
  <2>2. later \subseteq old \union {new}
    BY <1>1 DEF ChainNames
  <2>3. CASE ratchet[p].sender_chain # <<>>
    <3>1. later \subseteq old
      BY <1>1, <2>2, <2>3 DEF ChainNames
    <3> HIDE DEF old, later
    <3>2. OneToOne(later)
      BY <2>1, <3>1, OneToOneFewer
    <3> QED  BY <3>2 DEF later, OneToOne
  <2>4. CASE ratchet[p].sender_chain = <<>>
    <3>1. new[1] = next_key /\ Len(new[2]) = Len(Root(p)) + 1
      BY <1>0, <2>4 DEF Encrypts, MessageName
    <3>2. ASSUME NEW a \in ChainNames(p) PROVE a[1] # new[1] /\ a[2] # new[2]
      <4>1. a[1] \in Nat /\ a[1] < next_key /\ Len(a[2]) \in Nat /\ Len(a[2]) <= Len(Root(p))
        BY NamesBounds
      <4> QED  BY <1>0, <3>1, <4>1
    <3>3. FirstName[1] # new[1] /\ FirstName[2] # new[2]
      <4>1. FirstName[1] = 0 /\ FirstName[2] = <<>> /\ Len(<<>>) = 0
        BY DEF FirstName
      <4> QED  BY <1>0, <3>1, <4>1
    <3>4. \A a \in old : a[1] # new[1] /\ a[2] # new[2]
      BY <3>2, <3>3
    <3> HIDE DEF old, later, new
    <3>5. OneToOne(later)
      BY <2>1, <2>2, <3>4, OneToOneNew
    <3> QED  BY <3>5 DEF later, OneToOne
  <2> QED  BY <2>3, <2>4
<1>4. OneToOne({FirstName} \union ChainNames(q))'
  <2>1. OneToOne({FirstName} \union ChainNames(q)) /\ ChainNames(q)' = ChainNames(q)
    BY <1>0, <1>1 DEF NamesInv, NamesOf, ChainNames
  <2> QED  BY <2>1 DEF OneToOne
<1>5. \A n \in DOMAIN sent'[p] :
         sent'[p][n].message.counter = sent'[p][n].message.sealed_with.index
  <2>1. message.counter = message.sealed_with.index
    BY DEF Encrypts
  <2>2. \A n \in DOMAIN sent[p] :
           sent[p][n].message.counter = sent[p][n].message.sealed_with.index
    BY DEF NamesInv, NamesOf
  <2> QED  BY <1>2, <2>1, <2>2
<1>6. \A n \in DOMAIN sent'[q] :
         sent'[q][n].message.counter = sent'[q][n].message.sealed_with.index
  BY <1>0, <1>2 DEF NamesInv, NamesOf
<1>7. ASSUME NEW o \in Party, NEW k \in DOMAIN ratchet'[o].skipped_message_keys
      PROVE  SkippedName(ratchet'[o].skipped_message_keys[k])
                 \in {FirstName} \union SentNames(Peer(o))'
  <2>1. ratchet'[o].skipped_message_keys = ratchet[o].skipped_message_keys
    BY <1>0, <1>2 DEF Encrypts
  <2>2. SkippedName(ratchet[o].skipped_message_keys[k]) \in {FirstName} \union SentNames(Peer(o))
    BY <2>1 DEF NamesInv, NamesOf
  <2>3. SentNames(Peer(o)) \subseteq SentNames(Peer(o))'
    BY <1>0, <1>1
  <2> QED  BY <2>1, <2>2, <2>3
<1>8. NewestReceived(after) /\ NewestReceived(ratchet[q])
  BY <1>0 DEF NamesInv, NamesOf, NewestReceived, Encrypts
<1>9. \A o \in Party : NewestReceived(ratchet'[o])
  BY <1>0, <1>2, <1>8
<1>10. \A o \in Party : NamesOf(o)'
  <2> TAKE o \in Party
  <2>1. \A k \in DOMAIN ratchet'[o].skipped_message_keys :
           SkippedName(ratchet'[o].skipped_message_keys[k]) \in {FirstName} \union SentNames(Peer(o))'
    BY <1>7
  <2>2. CASE o = p
    BY <1>3, <1>5, <1>9, <2>1, <2>2 DEF NamesOf, NewestReceived, SkippedName
  <2>3. CASE o = q
    BY <1>4, <1>6, <1>9, <2>1, <2>3 DEF NamesOf, NewestReceived, SkippedName
  <2> QED  BY <1>0, <2>2, <2>3
<1> QED  BY <1>10 DEF NamesInv, NamesOf

\* decrypt() keeps keys only under the names the peer sent them by.
LEMMA DecryptNamesInv ==
    ASSUME InStepInv, NamesInv, NEW p \in Party, NEW q, q = Peer(p), NEW after,
           NEW n \in DOMAIN sent[q], NEW reader, reader = sent[q][n].message,
           Opened(p, q, after, <<q, n>>, reader), Decrypts(ratchet[p], reader, after)
    PROVE  NamesInv'
<1>0. q \in Party /\ q # p /\ Peer(q) = p /\ \A o \in Party : o = p \/ o = q
  BY TwoEnds DEF InStepInv
<1>1. /\ SentNames(p)' = SentNames(p) /\ SentNames(q)' = SentNames(q)
      /\ SenderNames(q)' = SenderNames(q)
      /\ SenderNames(p)' \subseteq SenderNames(p)
  BY NamesOpened
<1>2. /\ ratchet'[p] = after /\ ratchet'[q] = ratchet[q] /\ sent' = sent
  BY DEF Opened
<1>3. ASSUME NEW o \in Party PROVE OneToOne({FirstName} \union ChainNames(o))'
  <2>1. OneToOne({FirstName} \union ChainNames(o))
    BY DEF NamesInv, NamesOf
  <2>2. ChainNames(o)' \subseteq ChainNames(o)
    BY <1>0, <1>1 DEF ChainNames
  <2>3. PICK later : later = {FirstName} \union ChainNames(o)'
    OBVIOUS
  <2>4. OneToOne(later)
    BY <2>1, <2>2, <2>3, OneToOneFewer
  <2> QED  BY <2>3, <2>4 DEF OneToOne
<1>4. ASSUME NEW k \in DOMAIN after.skipped_message_keys
      PROVE  SkippedName(after.skipped_message_keys[k]) \in {FirstName} \union SentNames(q)
  <2>1. CASE SkippedName(after.skipped_message_keys[k]) = MessageName(reader)
    BY <2>1 DEF SentNames
  <2>2. CASE \E j \in DOMAIN ratchet[p].skipped_message_keys :
                after.skipped_message_keys[k] = ratchet[p].skipped_message_keys[j]
    BY <2>2 DEF NamesInv, NamesOf
  <2> QED  BY <2>1, <2>2 DEF Decrypts
<1>5. NewestReceived(after)
  BY DEF Decrypts
<1>6. \A o \in Party : NamesOf(o)'
  <2> TAKE o \in Party
  <2>1. \A m \in DOMAIN sent[o] :
           sent[o][m].message.counter = sent[o][m].message.sealed_with.index
    BY DEF NamesInv, NamesOf
  <2>2. CASE o = p
    BY <1>0, <1>1, <1>2, <1>3, <1>4, <1>5, <2>1, <2>2 DEF NamesOf, NewestReceived, SkippedName
  <2>3. CASE o = q
    <3>1. /\ NewestReceived(ratchet[q])
          /\ \A k \in DOMAIN ratchet[q].skipped_message_keys :
                SkippedName(ratchet[q].skipped_message_keys[k]) \in {FirstName} \union SentNames(p)
      BY <1>0 DEF NamesInv, NamesOf
    <3> QED  BY <1>0, <1>1, <1>2, <1>3, <2>1, <2>3, <3>1 DEF NamesOf, NewestReceived, SkippedName
  <2> QED  BY <1>0, <2>2, <2>3
<1> QED  BY <1>6 DEF NamesInv, NamesOf

\* A received chain has a name it was sent by.
LEMMA ReceiverNames ==
    ASSUME InStepInv, NEW p \in Party, NEW i \in DOMAIN ratchet[p].receiver_chains
    PROVE  ChainName(ratchet[p].receiver_chains[i]) \in {FirstName} \union SentNames(Peer(p))
<1>1. PICK chain : chain = ratchet[p].receiver_chains[i]
  OBVIOUS
<1>2. FromPeer(p, chain)
  BY <1>1 DEF InStepInv
<1>3. CASE chain = FirstChain(0)
  <2>1. ChainName(chain) = FirstName
    BY <1>3 DEF FirstChain, FirstName, ChainName
  <2> QED  BY <1>1, <2>1
<1>4. CASE \E n \in DOMAIN sent[Peer(p)] :
              LET message == sent[Peer(p)][n].message
              IN  /\ chain.ratchet_key = message.ratchet_key
                  /\ chain.chain_key.key = message.sealed_with.key
                  /\ chain.chain_key.index = message.sealed_with.index + 1
  <2>1. ChainName(chain) \in SentNames(Peer(p))
    BY <1>4 DEF SentNames, MessageName, ChainName
  <2> QED  BY <1>1, <2>1
<1> QED  BY <1>2, <1>3, <1>4 DEF FromPeer

-----------------------------------------------------------------------------
(* Root keys *)

\* A new chain takes the end that receives it to the root key of the other.
LEMMA RootReceived ==
    ASSUME InStepInv, NEW p \in Party, NEW q, q = Peer(p), NEW after,
           NEW n \in DOMAIN sent[q], NEW reader, reader = sent[q][n].message,
           Decrypts(ratchet[p], reader, after),
           ~(after.root_key = Root(p) /\ after.sender_chain = ratchet[p].sender_chain)
    PROVE  /\ after.root_key = Root(q)
           /\ after.root_key = reader.sealed_with.key
           /\ Len(Root(q)) = Len(Root(p)) + 1
<1>0. /\ SessionInv /\ q \in Party /\ Peer(q) = p
      /\ Root(p) \in SharedKey /\ Len(Root(p)) \in Nat /\ Root(p) = ratchet[p].root_key
      /\ Root(q) \in SharedKey /\ Len(Root(q)) \in Nat
      /\ reader.sealed_with.key \in SharedKey
  BY TwoEnds, RootTypes DEF InStepInv, Root
<1>1. /\ after.root_key = reader.sealed_with.key
      /\ Len(after.root_key) = Len(Root(p)) + 1
  BY <1>0 DEF Decrypts
<1>2. Heads(reader.sealed_with.key, Root(q))
  BY <1>0 DEF InStepInv, RootsInv
<1>3. Len(after.root_key) <= Len(Root(q))
  BY <1>1, <1>2 DEF Heads
<1>4. \/ Len(Root(q)) <= Len(Root(p)) + 1
      \/ Heads(Root(q), Root(p))
  BY <1>0 DEF InStepInv, RootsInv
<1>5. Len(Root(q)) <= Len(Root(p)) + 1
  BY <1>0, <1>4 DEF Heads
<1>6. Len(Root(q)) = Len(after.root_key)
  BY <1>0, <1>1, <1>3, <1>5
<1>7. after.root_key = Root(q)
  BY <1>0, <1>1, <1>2, <1>6, HeadsFacts
<1> QED  BY <1>1, <1>6, <1>7

\* encrypt() answers the chain its peer sends on.
LEMMA AnswersPeer ==
    ASSUME InStepInv, NamesInv, NEW p \in Party, NEW q, q = Peer(p),
           ratchet[p].sender_chain = <<>>
    PROVE  /\ Root(p) = Root(q)
           /\ ratchet[q].sender_chain # <<>>
           /\ ratchet[p].receiver_chains[1].ratchet_key = ratchet[q].sender_chain[1].ratchet_key
           /\ ratchet[q].sender_chain[1].ratchet_key \in RatchetKey
<1>0. /\ SessionInv /\ q \in Party /\ Peer(q) = p
      /\ ratchet[q] \in RatchetState /\ Turns(ratchet[q], Turn(q))
  BY TwoEnds DEF InStepInv
<1>1. Root(p) = Root(q)
  BY DEF InStepInv, RootsInv
<1>2. ratchet[q].sender_chain # <<>>
  BY <1>0, <1>1, OneSends
<1>3. /\ 1 \in DOMAIN ratchet[q].sender_chain
      /\ ratchet[q].sender_chain[1].chain_key.key = Root(q)
      /\ ratchet[q].sender_chain[1].ratchet_key \in RatchetKey
  BY <1>0, <1>2, RatchetFields, SenderChainType DEF Turns, Root
<1>4. /\ 1 \in DOMAIN ratchet[p].receiver_chains
      /\ ratchet[p].receiver_chains[1].chain_key.key = Root(p)
  BY DEF NamesInv, NamesOf, NewestReceived, Root
<1>5. PICK received : received = ChainName(ratchet[p].receiver_chains[1])
  OBVIOUS
<1>6. PICK sending : sending = ChainName(ratchet[q].sender_chain[1])
  OBVIOUS
<1>7. received \in {FirstName} \union ChainNames(q)
  BY <1>4, <1>5, ReceiverNames DEF ChainNames
<1>8. sending \in {FirstName} \union ChainNames(q)
  BY <1>3, <1>6 DEF ChainNames, SenderNames
<1>9. received[2] = Root(p) /\ sending[2] = Root(q)
  BY <1>3, <1>4, <1>5, <1>6 DEF ChainName
<1>10. received[1] = sending[1]
  BY <1>0, <1>1, <1>7, <1>8, <1>9 DEF NamesInv, NamesOf, OneToOne
<1> QED  BY <1>1, <1>2, <1>3, <1>5, <1>6, <1>10 DEF ChainName

\* encrypt() starts a chain the peer has not reached, and only after reaching the peer's.
LEMMA EncryptHad ==
    ASSUME InStepInv, NamesInv, NEW p \in Party, NEW q, q = Peer(p), NEW after, NEW message,
           Sends(p, q, after, message),
           Encrypts(ratchet[p], next_key, after, message),
           ChainsHad(p), ChainsHad(q)
    PROVE  ChainsHad(p)' /\ ChainsHad(q)'
<1>0. /\ SessionInv /\ q \in Party /\ q # p /\ Peer(q) = p
      /\ Root(p) = ratchet[p].root_key /\ Len(Root(p)) \in Nat
  BY TwoEnds, RootTypes DEF InStepInv, Root
<1>1. /\ SentNames(p)' = SentNames(p) \union {MessageName(message)}
      /\ SenderNames(p)' = {MessageName(message)}
      /\ SentNames(q)' = SentNames(q) /\ SenderNames(q)' = SenderNames(q)
      /\ ratchet[p].sender_chain # <<>> => SenderNames(p) = {MessageName(message)}
      /\ ratchet[p].sender_chain = <<>> => SenderNames(p) = {}
  BY NamesSent
<1>2. Used(p)' = Used(p) /\ Used(q)' = Used(q)
  BY <1>0, UsedSent
<1>3. Root(p)' = after.root_key /\ Root(q)' = Root(q)
  BY DEF Sends, Root
<1>4. ASSUME NEW name \in ChainNames(q), Len(name[2]) <= Len(after.root_key)
      PROVE  name[2] \in Names(Used(p), First(p))
  <2>1. CASE ratchet[p].sender_chain = <<>>
    <3>1. Root(p) = Root(q)
      BY <2>1, AnswersPeer
    <3>2. Len(name[2]) <= Len(Root(p))
      BY <1>0, <3>1, NamesBounds
    <3> QED  BY <3>2 DEF ChainsHad
  <2>2. CASE ratchet[p].sender_chain # <<>>
    <3>1. after.root_key = Root(p)
      BY <1>0, <2>2 DEF Encrypts
    <3> QED  BY <1>4, <3>1 DEF ChainsHad
  <2> QED  BY <2>1, <2>2
<1>5. ASSUME NEW name \in ChainNames(p) \union {MessageName(message)},
             Len(name[2]) <= Len(Root(q))
      PROVE  name[2] \in Names(Used(q), First(q))
  <2>1. CASE name \in ChainNames(p)
    BY <1>0, <1>5, <2>1 DEF ChainsHad
  <2>2. CASE name = MessageName(message) /\ ratchet[p].sender_chain # <<>>
    <3>1. name \in ChainNames(p)
      BY <1>1, <2>2 DEF ChainNames
    <3> QED  BY <2>1, <3>1
  <2>3. CASE name = MessageName(message) /\ ratchet[p].sender_chain = <<>>
    <3>1. Root(p) = Root(q)
      BY <2>3, AnswersPeer
    <3>2. Len(name[2]) = Len(Root(p)) + 1
      BY <1>0, <2>3 DEF Encrypts, MessageName
    <3> QED  BY <1>0, <1>5, <3>1, <3>2
  <2> QED  BY <1>5, <2>1, <2>2, <2>3
<1>6. ChainNames(q)' = ChainNames(q)
  BY <1>1 DEF ChainNames
<1>7. ChainNames(p)' \subseteq ChainNames(p) \union {MessageName(message)}
  BY <1>1 DEF ChainNames
<1>8. ChainsHad(p)'
  <2>1. \A name \in ChainNames(q)' : Len(name[2]) <= Len(Root(p)') =>
           name[2] \in Names(Used(p), First(p))
    BY <1>3, <1>4, <1>6
  <2> QED  BY <1>2, <2>1 DEF ChainsHad, Names, First
<1>9. ChainsHad(q)'
  <2>1. \A name \in ChainNames(p)' : Len(name[2]) <= Len(Root(q)') =>
           name[2] \in Names(Used(q), First(q))
    BY <1>3, <1>5, <1>7
  <2> QED  BY <1>0, <1>2, <2>1 DEF ChainsHad, Names, First
<1> QED  BY <1>8, <1>9

\* A new chain takes decrypt() on only with the message that is of it.
LEMMA DecryptHad ==
    ASSUME InStepInv, NamesInv, NEW p \in Party, NEW q, q = Peer(p), NEW after,
           NEW n \in DOMAIN sent[q], NEW reader, reader = sent[q][n].message,
           Opened(p, q, after, <<q, n>>, reader), Decrypts(ratchet[p], reader, after),
           ChainsHad(p), ChainsHad(q)
    PROVE  ChainsHad(p)' /\ ChainsHad(q)'
<1>0. /\ SessionInv /\ q \in Party /\ q # p /\ Peer(q) = p
      /\ Root(p) = ratchet[p].root_key /\ Len(Root(p)) \in Nat
      /\ Root(q) \in SharedKey /\ Len(Root(q)) \in Nat
  BY TwoEnds, RootTypes DEF InStepInv, Root
<1>a. SessionInv
  BY <1>0
<1>b. ASSUME ~(after.root_key = Root(p) /\ after.sender_chain = ratchet[p].sender_chain)
      PROVE  /\ after.root_key = Root(q)
             /\ after.root_key = reader.sealed_with.key
             /\ Len(Root(q)) = Len(Root(p)) + 1
  <2>1. after.root_key = Root(q)
    BY <1>b, RootReceived
  <2>2. after.root_key = reader.sealed_with.key
    BY <1>b, RootReceived
  <2>3. Len(Root(q)) = Len(Root(p)) + 1
    BY <1>b, RootReceived
  <2> QED  BY <2>1, <2>2, <2>3
<1>1. /\ SentNames(p)' = SentNames(p) /\ SentNames(q)' = SentNames(q)
      /\ SenderNames(q)' = SenderNames(q)
      /\ SenderNames(p)' \subseteq SenderNames(p)
  BY NamesOpened
<1>2. /\ Used(p)' = Used(p) \union {reader.sealed_with}
      /\ Used(q)' = Used(q)
  BY <1>a, UsedOpened
<1>3. Root(p)' = after.root_key /\ Root(q)' = Root(q)
  BY DEF Opened, Root
<1>4. /\ Names(Used(p), First(p)) \subseteq Names(Used(p)', First(p))
      /\ reader.sealed_with.key \in Names(Used(p)', First(p))
  BY <1>2 DEF Names
<1>5. ASSUME NEW name \in ChainNames(q), Len(name[2]) <= Len(after.root_key)
      PROVE  name[2] \in Names(Used(p)', First(p))
  <2>1. CASE after.root_key = Root(p) /\ after.sender_chain = ratchet[p].sender_chain
    BY <1>4, <1>5, <2>1 DEF ChainsHad
  <2>2. CASE ~(after.root_key = Root(p) /\ after.sender_chain = ratchet[p].sender_chain)
    <3>1. /\ after.root_key = Root(q)
          /\ after.root_key = reader.sealed_with.key
          /\ Len(Root(q)) = Len(Root(p)) + 1
      BY <1>b, <2>2
    <3>2. /\ name[2] \in SharedKey /\ Len(name[2]) \in Nat
          /\ Heads(name[2], Root(q))
      BY <1>0, NamesBounds
    <3>3. CASE Len(name[2]) = Len(Root(q))
      <4>1. name[2] = Root(q)
        BY <1>0, <3>2, <3>3, HeadsFacts
      <4> QED  BY <1>4, <3>1, <4>1
    <3>4. CASE Len(name[2]) # Len(Root(q))
      <4>1. Len(name[2]) <= Len(Root(p))
        BY <1>0, <1>5, <3>1, <3>2, <3>4
      <4> QED  BY <1>4, <4>1 DEF ChainsHad
    <3> QED  BY <3>3, <3>4
  <2> QED  BY <2>1, <2>2
<1>6. ChainNames(q)' = ChainNames(q) /\ ChainNames(p)' \subseteq ChainNames(p)
  BY <1>1 DEF ChainNames
<1>7. ChainsHad(p)'
  <2>1. \A name \in ChainNames(q)' : Len(name[2]) <= Len(Root(p)') =>
           name[2] \in Names(Used(p)', First(p))
    BY <1>3, <1>5, <1>6
  <2> QED  BY <2>1 DEF ChainsHad, Names, First
<1>8. ChainsHad(q)'
  <2>1. \A name \in ChainNames(p)' : Len(name[2]) <= Len(Root(q)') =>
           name[2] \in Names(Used(q), First(q))
    BY <1>0, <1>3, <1>6 DEF ChainsHad
  <2> QED  BY <1>0, <1>2, <2>1 DEF ChainsHad, Names, First
<1> QED  BY <1>7, <1>8

\* A secret is of the two keys, whoever computes it.
LEMMA SameSecret ==
    ASSUME NEW root_key, NEW a, NEW b
    PROVE  CreateChainKey(root_key, a, b) = CreateChainKey(root_key, b, a)
<1>1. {a, b} = {b, a}
  OBVIOUS
<1> QED  BY <1>1 DEF CreateChainKey

\* The root key encrypt() makes is the one its peer will make.
LEMMA EncryptNext ==
    ASSUME InStepInv, NamesInv, NEW p \in Party, NEW q, q = Peer(p), NEW after, NEW message,
           Sends(p, q, after, message),
           Encrypts(ratchet[p], next_key, after, message),
           NextRoot(p), NextRoot(q)
    PROVE  NextRoot(p)' /\ NextRoot(q)'
<1>0. /\ SessionInv /\ q \in Party /\ q # p /\ Peer(q) = p
      /\ Root(p) = ratchet[p].root_key /\ Len(Root(p)) \in Nat
  BY TwoEnds, RootTypes DEF InStepInv, Root
<1>1. /\ ratchet'[p] = after /\ ratchet'[q] = ratchet[q]
      /\ Root(p)' = after.root_key /\ Root(q)' = Root(q)
  BY DEF Sends, Root
<1>2. CASE ratchet[p].sender_chain # <<>>
  <2>1. /\ after.root_key = Root(p) /\ after.sender_chain # <<>>
        /\ ChainName(after.sender_chain[1]) = ChainName(ratchet[p].sender_chain[1])
    BY <1>0, <1>2 DEF Encrypts
  <2>2. after.sender_chain[1].ratchet_key = ratchet[p].sender_chain[1].ratchet_key
    BY <2>1 DEF ChainName
  <2>3. NextRoot(p)'
    <3>1. Len(Root(q)) > Len(Root(p)) =>
             Root(q) = CreateChainKey(Root(p), ratchet[p].sender_chain[1].ratchet_key,
                              ratchet[q].sender_chain[1].ratchet_key).root_key
             /\ ratchet[q].sender_chain # <<>>
      BY DEF NextRoot
    <3> QED  BY <1>1, <2>1, <2>2, <3>1 DEF NextRoot, CreateChainKey
  <2>4. NextRoot(q)'
    <3>1. Len(Root(p)) > Len(Root(q)) =>
             Root(p) = CreateChainKey(Root(q), ratchet[q].sender_chain[1].ratchet_key,
                              ratchet[p].sender_chain[1].ratchet_key).root_key
             /\ ratchet[q].sender_chain # <<>>
      BY <1>0 DEF NextRoot
    <3> QED  BY <1>0, <1>1, <2>1, <2>2, <3>1 DEF NextRoot, CreateChainKey
  <2> QED  BY <2>3, <2>4
<1>3. CASE ratchet[p].sender_chain = <<>>
  <2>1. /\ Root(p) = Root(q)
        /\ ratchet[q].sender_chain # <<>>
        /\ ratchet[p].receiver_chains[1].ratchet_key = ratchet[q].sender_chain[1].ratchet_key
    BY <1>3, AnswersPeer
  <2>2. /\ message.ratchet_key = next_key
        /\ ChainName(after.sender_chain[1]) = MessageName(message)
        /\ after.sender_chain # <<>>
        /\ Len(after.root_key) = Len(Root(p)) + 1
        /\ after.root_key = CreateChainKey(Root(p), next_key,
                               ratchet[p].receiver_chains[1].ratchet_key).root_key
    BY <1>0, <1>3 DEF Encrypts
  <2>3. after.sender_chain[1].ratchet_key = next_key
    BY <2>2 DEF ChainName, MessageName
  <2>4. after.root_key = CreateChainKey(Root(q), ratchet[q].sender_chain[1].ratchet_key,
                                        after.sender_chain[1].ratchet_key).root_key
    BY <2>1, <2>2, <2>3, SameSecret
  <2>5. NextRoot(p)'
    <3>1. ~(Len(Root(q)') > Len(Root(p)'))
      BY <1>0, <1>1, <2>1, <2>2
    <3> QED  BY <3>1 DEF NextRoot
  <2>6. NextRoot(q)'
    BY <1>0, <1>1, <2>1, <2>2, <2>4 DEF NextRoot, CreateChainKey
  <2> QED  BY <2>5, <2>6
<1> QED  BY <1>2, <1>3

\* After a new chain neither end is ahead.
LEMMA DecryptNext ==
    ASSUME InStepInv, NamesInv, NEW p \in Party, NEW q, q = Peer(p), NEW after,
           NEW n \in DOMAIN sent[q], NEW reader, reader = sent[q][n].message,
           Opened(p, q, after, <<q, n>>, reader), Decrypts(ratchet[p], reader, after),
           NextRoot(p), NextRoot(q)
    PROVE  NextRoot(p)' /\ NextRoot(q)'
<1>0. /\ SessionInv /\ q \in Party /\ q # p /\ Peer(q) = p
      /\ Len(Root(q)) \in Nat
  BY TwoEnds, RootTypes DEF InStepInv
<1>1. /\ ratchet'[p] = after /\ ratchet'[q] = ratchet[q]
      /\ Root(p)' = after.root_key /\ Root(q)' = Root(q)
  BY DEF Opened, Root
<1>2. CASE after.root_key = Root(p) /\ after.sender_chain = ratchet[p].sender_chain
  BY <1>0, <1>1, <1>2 DEF NextRoot, CreateChainKey
<1>3. CASE ~(after.root_key = Root(p) /\ after.sender_chain = ratchet[p].sender_chain)
  <2>1. after.root_key = Root(q)
    BY <1>3, RootReceived
  <2> QED  BY <1>0, <1>1, <2>1 DEF NextRoot
<1> QED  BY <1>2, <1>3

-----------------------------------------------------------------------------
(* What is kept *)

\* The chain of a message has the message's name.
LEMMA SameName ==
    ASSUME InStepInv, NamesInv, NEW p \in Party, NEW q, q = Peer(p),
           NEW n \in DOMAIN sent[q], NEW reader, reader = sent[q][n].message,
           NEW name \in {FirstName} \union ChainNames(q)
    PROVE  name[1] = reader.ratchet_key <=> name[2] = reader.sealed_with.key
<1>1. q \in Party
  BY TwoEnds DEF InStepInv
<1>2. OneToOne({FirstName} \union ChainNames(q))
  BY <1>1 DEF NamesInv, NamesOf
<1>3. PICK other : other = MessageName(reader)
  OBVIOUS
<1>4. /\ other \in {FirstName} \union ChainNames(q)
      /\ name \in {FirstName} \union ChainNames(q)
  BY <1>3 DEF ChainNames, SentNames
<1>5. other[1] = reader.ratchet_key /\ other[2] = reader.sealed_with.key
  BY <1>3 DEF MessageName
<1>6. name[1] = other[1] <=> name[2] = other[2]
  BY <1>2, <1>4 DEF OneToOne
<1> QED  BY <1>5, <1>6

\* encrypt() gives nothing up.
LEMMA EncryptKeeps ==
    ASSUME InStepInv, NEW p \in Party, NEW q, q = Peer(p), NEW after, NEW message,
           Sends(p, q, after, message),
           Encrypts(ratchet[p], next_key, after, message),
           KeptBy(p), KeptBy(q)
    PROVE  KeptBy(p)' /\ KeptBy(q)'
<1>0. /\ SessionInv /\ q \in Party
      /\ ratchet[p] \in RatchetState /\ Len(ratchet[p].root_key) \in Nat
      /\ passed[p] \in Seq(MessageKey)
      /\ Used(p) \subseteq MessageKey
  BY TwoEnds, UsedKeys, RatchetFields DEF InStepInv
<1>1. Used(p)' = Used(p) /\ Used(q)' = Used(q)
  BY <1>0, UsedSent
<1>2. /\ ratchet'[p] = after /\ ratchet'[q] = ratchet[q] /\ passed' = passed
  BY DEF Sends
<1>3. /\ after \in RatchetState
      /\ after.receiver_chains = ratchet[p].receiver_chains
      /\ after.skipped_message_keys = ratchet[p].skipped_message_keys
      /\ Len(ratchet[p].root_key) <= Len(after.root_key)
  BY <1>0 DEF Encrypts
<1>4. Remain(after, Used(p), First(p), passed[p])
  <2>1. PICK r, used, first, past : /\ r = ratchet[p] /\ used = Used(p)
                                    /\ first = First(p) /\ past = passed[p]
    OBVIOUS
  <2>2. Remain(r, used, first, past)
    BY <2>1 DEF KeptBy
  <2>3. Remain(after, used, first, past)
    BY <1>0, <1>3, <2>1, <2>2, EncryptKept
  <2> QED  BY <2>1, <2>3
<1>5. KeptBy(p)'
  BY <1>1, <1>2, <1>4 DEF KeptBy, First
<1>6. KeptBy(q)'
  BY <1>1, <1>2 DEF KeptBy, First
<1> QED  BY <1>5, <1>6

\* decrypt() gives up only what falls out of the full lists.
LEMMA DecryptKeeps ==
    ASSUME InStepInv, NamesInv, NEW p \in Party, NEW q, q = Peer(p), NEW after,
           NEW n \in DOMAIN sent[q], NEW reader, reader = sent[q][n].message,
           CanDecrypt(ratchet[p], reader), after = AfterDecrypt(ratchet[p], reader),
           Opened(p, q, after, <<q, n>>, reader),
           KeptBy(p), KeptBy(q)
    PROVE  KeptBy(p)' /\ KeptBy(q)'
<1>0. /\ SessionInv /\ q \in Party
      /\ ratchet[p] \in RatchetState /\ KeysApart(ratchet[p])
      /\ passed[p] \in Seq(MessageKey)
      /\ Used(p) \subseteq MessageKey
  BY TwoEnds, UsedKeys DEF InStepInv
<1>1. Header(reader) /\ reader.sealed_with \in MessageKey
  BY <1>0, TwoEnds, SentMessage
<1>2. /\ Used(p)' = Used(p) \union {reader.sealed_with}
      /\ Used(q)' = Used(q)
  <2>1. SessionInv
    BY <1>0
  <2> QED  BY <2>1, UsedOpened
<1>3. /\ ratchet'[p] = after /\ ratchet'[q] = ratchet[q]
      /\ passed'[p] = PassedKeys(p, reader) \o passed[p] /\ passed'[q] = passed[q]
  BY DEF Opened
<1>4. PICK gap : gap = Cardinality(Between(Used(p), reader.sealed_with.key, reader.counter))
  OBVIOUS
<1>5. PassedKeys(p, reader) = Over(reader.sealed_with.key, gap, reader.counter)
  BY <1>0, <1>4, PassedAre
<1>6. reader.sealed_with.index = reader.counter
  BY <1>0 DEF NamesInv, NamesOf
<1>7. ASSUME HasChain(ratchet[p], reader)
      PROVE  ratchet[p].receiver_chains[ChainFor(ratchet[p], reader)].chain_key.key
                 = reader.sealed_with.key
  <2>1. PICK i : i = ChainFor(ratchet[p], reader)
    OBVIOUS
  <2>2. /\ i \in DOMAIN ratchet[p].receiver_chains
        /\ ratchet[p].receiver_chains[i].ratchet_key = reader.ratchet_key
    BY <1>0, <1>7, <2>1, ChainForFound
  <2>3. PICK name : name = ChainName(ratchet[p].receiver_chains[i])
    OBVIOUS
  <2>4. name \in {FirstName} \union ChainNames(q)
    BY <2>2, <2>3, ReceiverNames DEF ChainNames
  <2>5. name[1] = reader.ratchet_key <=> name[2] = reader.sealed_with.key
    BY <2>4, SameName
  <2> QED  BY <2>1, <2>2, <2>3, <2>5 DEF ChainName
<1>8. Remain(after, Used(p) \union {reader.sealed_with}, First(p),
           Over(reader.sealed_with.key, gap, reader.counter) \o passed[p])
  <2>1. PICK r, used, first, past : /\ r = ratchet[p] /\ used = Used(p)
                                    /\ first = First(p) /\ past = passed[p]
    OBVIOUS
  <2>2. Remain(r, used, first, past)
    BY <2>1 DEF KeptBy
  <2>3. first \subseteq SharedKey
    <3>1. <<>> \in SharedKey
      BY EmptySeq DEF SharedKey
    <3> QED  BY <2>1, <3>1 DEF First
  <2>4. /\ r \in RatchetState /\ KeysApart(r)
        /\ used \subseteq MessageKey /\ past \in Seq(MessageKey)
        /\ CanDecrypt(r, reader) /\ after = AfterDecrypt(r, reader)
        /\ HasChain(r, reader) =>
              r.receiver_chains[ChainFor(r, reader)].chain_key.key = reader.sealed_with.key
        /\ gap = Cardinality(Between(used, reader.sealed_with.key, reader.counter))
    BY <1>0, <1>4, <1>7, <2>1
  <2>5. Remain(after, used \union {reader.sealed_with}, first,
             Over(reader.sealed_with.key, gap, reader.counter) \o past)
    BY <1>1, <1>6, <2>2, <2>3, <2>4, DecryptKept
  <2> QED  BY <2>1, <2>5
<1>9. KeptBy(p)'
  BY <1>2, <1>3, <1>5, <1>8 DEF KeptBy, First
<1>10. KeptBy(q)'
  BY <1>2, <1>3 DEF KeptBy, First
<1> QED  BY <1>9, <1>10

-----------------------------------------------------------------------------
(* The invariant holds initially and is preserved *)

\* Bob begins with Alice's first chain, and nothing else has happened.
LEMMA InitReach == Init => ReachInv
<1> SUFFICES ASSUME Init PROVE ReachInv
  OBVIOUS
<1>1. /\ ratchet[Alice] = InitialiseAsAlice(0) /\ ratchet[Bob] = InitialiseAsBob(0)
      /\ Alice # Bob /\ Party = {Alice, Bob} /\ Peer(Alice) = Bob /\ Peer(Bob) = Alice
      /\ \A p \in Party : /\ sent[p] = <<>> /\ opened[p] = {} /\ passed[p] = <<>>
  BY TwoParties DEF Init, Party, Peer
<1>2. InStepInv
  BY InitInStep
<1>3. /\ ratchet[Alice].sender_chain = <<FirstChain(0)>>
      /\ ratchet[Alice].receiver_chains = <<>>
      /\ ratchet[Bob].sender_chain = <<>>
      /\ ratchet[Bob].receiver_chains = <<FirstChain(0)>>
      /\ \A p \in Party : /\ ratchet[p].root_key = <<>>
                           /\ ratchet[p].skipped_message_keys = <<>>
  BY <1>1 DEF InitialiseAsAlice, InitialiseAsBob
<1>4. /\ ChainName(FirstChain(0)) = FirstName
      /\ FirstChain(0).chain_key = [key |-> <<>>, index |-> 0]
  BY DEF ChainName, FirstName, FirstChain
<1>5. /\ DOMAIN <<>> = {} /\ Len(<<>>) = 0
      /\ DOMAIN <<FirstChain(0)>> = {1} /\ <<FirstChain(0)>>[1] = FirstChain(0)
  OBVIOUS
<1>6. /\ ChainNames(Alice) = {FirstName} /\ ChainNames(Bob) = {}
      /\ \A p \in Party : SentNames(p) = {} /\ Used(p) = {}
  <2>1. \A p \in Party : SentNames(p) = {} /\ Used(p) = {}
    BY <1>1, <1>5 DEF SentNames, Used
  <2>2. SenderNames(Alice) = {FirstName}
    BY <1>3, <1>4, <1>5 DEF SenderNames
  <2>3. SenderNames(Bob) = {}
    BY <1>3, <1>5 DEF SenderNames
  <2> QED  BY <1>1, <2>1, <2>2, <2>3 DEF ChainNames
<1>7. NamesInv
  <2>1. ASSUME NEW p \in Party PROVE NamesOf(p)
    <3>1. OneToOne({FirstName} \union ChainNames(p))
      BY <1>1, <1>6 DEF OneToOne
    <3>2. NewestReceived(ratchet[p])
      <4>1. p = Alice => ratchet[p].sender_chain # <<>>
        <5>1. <<FirstChain(0)>> # <<>>
          BY <1>5
        <5> QED  BY <1>3, <5>1
      <4>2. p = Bob => /\ 1 \in DOMAIN ratchet[p].receiver_chains
                       /\ ratchet[p].receiver_chains[1].chain_key.key = ratchet[p].root_key
        BY <1>1, <1>3, <1>4, <1>5
      <4> QED  BY <1>1, <4>1, <4>2 DEF NewestReceived
    <3> QED  BY <1>1, <1>3, <1>5, <3>1, <3>2 DEF NamesOf
  <2> QED  BY <2>1 DEF NamesInv
<1>8. ASSUME NEW p \in Party PROVE ChainsHad(p) /\ NextRoot(p)
  <2>1. NextRoot(p)
    BY <1>1, <1>3, <1>5 DEF NextRoot, Root
  <2>2. p = Alice => ChainsHad(p)
    BY <1>1, <1>6 DEF ChainsHad
  <2>3. p = Bob => ChainsHad(p)
    <3>1. FirstName[2] \in First(Bob)
      BY DEF FirstName, First
    <3> QED  BY <1>1, <1>6, <3>1 DEF ChainsHad, Names
  <2> QED  BY <1>1, <2>1, <2>2, <2>3
<1>9. KeptBy(Alice)
  <2>1. Names({}, {}) = {} /\ First(Alice) = {}
    BY <1>1 DEF Names, First
  <2> QED  BY <1>1, <1>3, <1>5, <1>6, <2>1 DEF KeptBy, Remain, ChainsKept, PassedKept
<1>10. KeptBy(Bob)
  <2>1. Names({}, {<<>>}) = {<<>>} /\ First(Bob) = {<<>>}
    BY DEF Names, First
  <2>2. \A i \in DOMAIN ratchet[Bob].receiver_chains :
           /\ i = 1
           /\ ratchet[Bob].receiver_chains[i].chain_key = [key |-> <<>>, index |-> 0]
    BY <1>3, <1>4, <1>5
  <2>3. 1 \in DOMAIN ratchet[Bob].receiver_chains
    BY <1>3, <1>5
  <2>4. ChainsKept(ratchet[Bob], {}, {<<>>})
    BY <2>1, <2>2, <2>3 DEF ChainsKept
  <2>5. \A i \in DOMAIN ratchet[Bob].receiver_chains :
           Follows(ratchet[Bob].receiver_chains[i].chain_key, {}, {<<>>}, <<>>)
    BY <1>5, <2>2 DEF Follows
  <2>6. PassedKept(ratchet[Bob], {}, <<>>)
    BY <1>5 DEF PassedKept
  <2>7. DOMAIN ratchet[Bob].skipped_message_keys = {}
    BY <1>1, <1>3, <1>5
  <2>8. Remain(ratchet[Bob], {}, {<<>>}, <<>>)
    BY <2>4, <2>5, <2>6, <2>7 DEF Remain
  <2>9. Used(Bob) = {} /\ passed[Bob] = <<>>
    BY <1>1, <1>6
  <2> QED  BY <2>1, <2>8, <2>9 DEF KeptBy
<1> QED  BY <1>1, <1>2, <1>7, <1>8, <1>9, <1>10 DEF ReachInv

\* What changes none of the ratchets, the logs and the histories keeps the invariant.
LEMMA SameReach ==
    ASSUME ReachInv, InStepInv', ratchet' = ratchet, sent' = sent, opened' = opened,
           passed' = passed
    PROVE  ReachInv'
<1>1. NamesInv'
  BY DEF ReachInv, NamesInv, NamesOf, OneToOne, ChainNames, SentNames, SenderNames,
         NewestReceived, MessageName, ChainName, SkippedName
<1>2. ASSUME NEW p \in Party PROVE ChainsHad(p)' /\ NextRoot(p)'
  BY DEF ReachInv, ChainsHad, NextRoot, ChainNames, SentNames, SenderNames, Root, Names, Used,
         Message, MessageName, ChainName, CreateChainKey
<1>3. ASSUME NEW p \in Party PROVE KeptBy(p)'
  <2>1. Used(p)' = Used(p)
    BY DEF Used, Message
  <2>2. KeptBy(p)
    BY DEF ReachInv
  <2> QED  BY <2>1, <2>2 DEF KeptBy
<1> QED  BY <1>1, <1>2, <1>3 DEF ReachInv

\* ReachInv holds in every reachable state.
THEOREM Reach == Spec => []ReachInv
<1>1. ReachInv /\ [Next]_vars /\ InStepInv' => ReachInv'
  <2> SUFFICES ASSUME ReachInv, [Next]_vars, InStepInv' PROVE ReachInv'
    OBVIOUS
  <2>0. /\ InStepInv /\ NamesInv /\ SessionInv /\ TypeOK
        /\ \A o \in Party : ChainsHad(o) /\ NextRoot(o) /\ KeptBy(o)
    BY DEF ReachInv, InStepInv, SessionInv
  <2>1. CASE UNCHANGED vars
    BY <2>1, SameReach DEF vars
  <2>2. ASSUME NEW p \in Party, Encrypt(p)
        PROVE  ReachInv'
    <3>1. PICK q : q = Peer(p)
      OBVIOUS
    <3>2. q \in Party /\ \A o \in Party : o = p \/ o = q
      BY <2>0, <3>1, TwoEnds
    <3>3. PICK after, message : /\ Sends(p, q, after, message)
                                /\ Encrypts(ratchet[p], next_key, after, message)
      BY <2>0, <2>2, <3>1, EncryptDone
    <3>4. NamesInv'
      BY <2>0, <3>1, <3>3, EncryptNamesInv
    <3>5. ChainsHad(p)' /\ ChainsHad(q)'
      BY <2>0, <3>1, <3>2, <3>3, EncryptHad
    <3>6. NextRoot(p)' /\ NextRoot(q)'
      BY <2>0, <3>1, <3>2, <3>3, EncryptNext
    <3>7. KeptBy(p)' /\ KeptBy(q)'
      BY <2>0, <3>1, <3>2, <3>3, EncryptKeeps
    <3>8. \A o \in Party : ChainsHad(o)' /\ NextRoot(o)' /\ KeptBy(o)'
      BY <3>2, <3>5, <3>6, <3>7
    <3> QED  BY <3>4, <3>8 DEF ReachInv
  <2>a. ASSUME NEW p \in Party, NEW id, NEW reader, Receive(p, id, reader),
               ~CanDecrypt(ratchet[p], reader)
        PROVE  ReachInv'
    <3>1. Decrypt(ratchet[p], reader) = [ok |-> FALSE, ratchet |-> ratchet[p]]
      BY <2>a DEF Decrypt
    <3>2. ratchet' = ratchet /\ sent' = sent /\ opened' = opened /\ passed' = passed
      BY <2>0, <2>a, <3>1 DEF Receive, TypeOK
    <3> QED  BY <3>2, SameReach
  <2>3. ASSUME NEW p \in Party, ReceiveIntact(p)
        PROVE  ReachInv'
    <3>0. PICK o \in Party : \E n \in DOMAIN sent[o] :
             Receive(p, <<o, n>>, sent[o][n].message)
      BY <2>3 DEF ReceiveIntact
    <3>1. PICK n \in DOMAIN sent[o] : Receive(p, <<o, n>>, sent[o][n].message)
      BY <3>0
    <3>2. CASE CanDecrypt(ratchet[p], sent[o][n].message)
      <4>1. PICK q : q = Peer(p)
        OBVIOUS
      <4>2. o = q
        BY <2>0, <3>2, <4>1, IntactFromPeer
      <4>3. PICK reader : reader = sent[q][n].message
        OBVIOUS
      <4>4. PICK after : after = AfterDecrypt(ratchet[p], reader)
        OBVIOUS
      <4>5. /\ n \in DOMAIN sent[q] /\ Receive(p, <<q, n>>, reader)
            /\ CanDecrypt(ratchet[p], reader)
        BY <3>1, <3>2, <4>2, <4>3
      <4>6. /\ Opened(p, q, after, <<q, n>>, reader)
            /\ Decrypts(ratchet[p], reader, after)
        BY <2>0, <4>1, <4>3, <4>4, <4>5, DecryptDone
      <4>7. q \in Party /\ \A e \in Party : e = p \/ e = q
        BY <2>0, <4>1, TwoEnds
      <4>8. NamesInv'
        BY <2>0, <4>1, <4>3, <4>5, <4>6, DecryptNamesInv
      <4>9. ChainsHad(p)' /\ ChainsHad(q)'
        BY <2>0, <4>1, <4>3, <4>5, <4>6, <4>7, DecryptHad
      <4>10. NextRoot(p)' /\ NextRoot(q)'
        BY <2>0, <4>1, <4>3, <4>5, <4>6, <4>7, DecryptNext
      <4>11. KeptBy(p)' /\ KeptBy(q)'
        BY <2>0, <4>1, <4>3, <4>4, <4>5, <4>6, <4>7, DecryptKeeps
      <4>12. \A e \in Party : ChainsHad(e)' /\ NextRoot(e)' /\ KeptBy(e)'
        BY <4>7, <4>9, <4>10, <4>11
      <4> QED  BY <4>8, <4>12 DEF ReachInv
    <3>3. CASE ~CanDecrypt(ratchet[p], sent[o][n].message)
      BY <2>a, <3>1, <3>3
    <3> QED  BY <3>2, <3>3
  <2>4. ASSUME NEW p \in Party, ReceiveDamaged(p)
        PROVE  ReachInv'
    <3>1. PICK k \in 0..next_key, c \in 0..MaxSent :
             Receive(p, <<Peer(p), 0>>,
                     [ratchet_key |-> k, counter |-> c, sealed_with |-> NoKey])
      BY <2>4 DEF ReceiveDamaged
    <3>2. k \in Nat /\ c \in Nat
      BY <2>0, SentBound DEF TypeOK
    <3>3. PICK reader : reader = [ratchet_key |-> k, counter |-> c, sealed_with |-> NoKey]
      OBVIOUS
    <3>4. ~CanDecrypt(ratchet[p], reader) /\ Receive(p, <<Peer(p), 0>>, reader)
      BY <2>0, <3>1, <3>2, <3>3, DamagedIsRefused
    <3> QED  BY <2>a, <3>4
  <2>5. ASSUME NEW p \in Party, Restart(p)
        PROVE  ReachInv'
    BY <2>0, <2>1, <2>5, RestartStep
  <2> QED  BY <2>1, <2>2, <2>3, <2>4, <2>5 DEF Next
<1>2. ReachInv => InStepInv
  BY DEF ReachInv
<1> QED  BY <1>1, <1>2, InitReach, InStep, PTL DEF Spec

\* Why a message in reach opens, in a state of the invariant.
LEMMA InReachOpens ==
    ASSUME ReachInv, NEW p \in Party, NEW q, q = Peer(p), NEW n \in DOMAIN sent[q],
           NEW reader, reader = sent[q][n].message,
           <<q, n>> \notin opened[p],
           Cardinality(NewerChains(p, reader.sealed_with)) < MaxReceiverChains,
           InReach(p, reader)
    PROVE  CanDecrypt(ratchet[p], reader)
<1>0. /\ InStepInv /\ NamesInv /\ SessionInv
      /\ ChainsHad(p) /\ NextRoot(p) /\ KeptBy(p)
  BY DEF ReachInv, InStepInv
<1>1. /\ q \in Party /\ Peer(q) = p
      /\ ratchet[p] \in RatchetState /\ KeysApart(ratchet[p])
      /\ ratchet[q] \in RatchetState /\ Turns(ratchet[q], Turn(q))
      /\ passed[p] \in Seq(MessageKey)
      /\ Used(p) \subseteq MessageKey
  BY <1>0, TwoEnds, UsedKeys
<1>2. Header(reader) /\ reader.sealed_with \in MessageKey
  BY <1>0, TwoEnds, SentMessage
<1>3. reader.sealed_with.index = reader.counter
  BY <1>0, <1>1 DEF NamesInv, NamesOf
<1>4. reader.sealed_with \notin Used(p)
  BY <1>0, NotUsed
<1>a. ASSUME NEW name \in {FirstName} \union ChainNames(q)
      PROVE  name[1] = reader.ratchet_key <=> name[2] = reader.sealed_with.key
  BY <1>0, <1>a, SameName
<1>5. ASSUME NEW i \in DOMAIN ratchet[p].receiver_chains
      PROVE  ratchet[p].receiver_chains[i].ratchet_key = reader.ratchet_key
                <=> ratchet[p].receiver_chains[i].chain_key.key = reader.sealed_with.key
  <2>1. PICK name : name = ChainName(ratchet[p].receiver_chains[i])
    OBVIOUS
  <2>2. name \in {FirstName} \union ChainNames(q)
    BY <1>0, <2>1, ReceiverNames DEF ChainNames
  <2> QED  BY <1>a, <2>1, <2>2 DEF ChainName
<1>6. ASSUME NEW k \in DOMAIN ratchet[p].skipped_message_keys,
             ratchet[p].skipped_message_keys[k].message_key = reader.sealed_with
      PROVE  ratchet[p].skipped_message_keys[k].ratchet_key = reader.ratchet_key
  <2>1. PICK name : name = SkippedName(ratchet[p].skipped_message_keys[k])
    OBVIOUS
  <2>2. name \in {FirstName} \union ChainNames(q)
    BY <1>0, <2>1 DEF NamesInv, NamesOf, ChainNames
  <2>3. name[2] = reader.sealed_with.key
    BY <1>6, <2>1 DEF SkippedName
  <2> QED  BY <1>a, <2>1, <2>2, <2>3 DEF SkippedName
<1>b. PICK name : name = MessageName(reader)
  OBVIOUS
<1>7. name \in ChainNames(q) /\ name[2] = reader.sealed_with.key
  BY <1>b DEF ChainNames, SentNames, MessageName
<1>8. ASSUME Len(reader.sealed_with.key) <= Len(Root(p))
      PROVE  reader.sealed_with.key \in Names(Used(p), First(p))
  BY <1>0, <1>7, <1>8 DEF ChainsHad
<1>9. ASSUME ~(Len(reader.sealed_with.key) <= Len(Root(p)))
      PROVE  /\ ratchet[p].sender_chain # <<>>
             /\ reader.sealed_with.key =
                   CreateChainKey(Root(p), ratchet[p].sender_chain[1].ratchet_key,
                                  reader.ratchet_key).root_key
  <2>1. /\ name[2] \in SharedKey /\ Len(name[2]) \in Nat
        /\ Len(name[2]) <= Len(Root(q)) /\ Heads(name[2], Root(q))
    BY <1>0, <1>1, <1>7, NamesBounds
  <2>2. /\ Root(p) \in SharedKey /\ Len(Root(p)) \in Nat
        /\ Root(q) \in SharedKey /\ Len(Root(q)) \in Nat
    BY <1>0, <1>1, RootTypes DEF SessionInv
  <2>3. Len(Root(q)) > Len(Root(p))
    BY <1>7, <1>9, <2>1, <2>2
  <2>4. /\ ratchet[p].sender_chain # <<>> /\ ratchet[q].sender_chain # <<>>
        /\ Root(q) = CreateChainKey(Root(p), ratchet[p].sender_chain[1].ratchet_key,
                                    ratchet[q].sender_chain[1].ratchet_key).root_key
    BY <1>0, <2>3 DEF NextRoot
  <2>5. \/ Len(Root(q)) <= Len(Root(p)) + 1
        \/ Heads(Root(q), Root(p))
    BY <1>0 DEF InStepInv, RootsInv
  <2>6. Len(Root(q)) <= Len(Root(p)) + 1
    BY <2>2, <2>3, <2>5 DEF Heads
  <2>7. Len(name[2]) = Len(Root(q))
    BY <1>7, <1>9, <2>1, <2>2, <2>6
  <2>8. reader.sealed_with.key = Root(q)
    BY <1>7, <2>1, <2>2, <2>7, HeadsFacts
  <2>9. /\ 1 \in DOMAIN ratchet[q].sender_chain
        /\ ratchet[q].sender_chain[1].chain_key.key = Root(q)
    BY <1>1, <2>4, RatchetFields, SenderChainType DEF Turns, Root
  <2>10. PICK sending : sending = ChainName(ratchet[q].sender_chain[1])
    OBVIOUS
  <2>11. sending \in {FirstName} \union ChainNames(q)
    BY <2>9, <2>10 DEF ChainNames, SenderNames
  <2>12. sending[1] = reader.ratchet_key
    BY <1>a, <2>8, <2>9, <2>10, <2>11 DEF ChainName
  <2>13. ratchet[q].sender_chain[1].ratchet_key = reader.ratchet_key
    BY <2>10, <2>12 DEF ChainName
  <2> QED  BY <2>4, <2>8, <2>13
<1>10. /\ NewerChains(p, reader.sealed_with) = Newer(Used(p), reader.sealed_with.key)
       /\ IsFiniteSet(Newer(Used(p), reader.sealed_with.key))
  BY <1>0, NewerAre
<1>11. PassedBy(p, reader) = Between(Used(p), reader.sealed_with.key, reader.counter)
  BY <1>0, PassedAre
<1>12. \/ \E j \in DOMAIN passed[p] :
             passed[p][j] = reader.sealed_with /\ j <= MaxSkippedMessageKeys
       \/ /\ \A j \in DOMAIN passed[p] : passed[p][j] # reader.sealed_with
          /\ Cardinality(Between(Used(p), reader.sealed_with.key, reader.counter))
                <= MaxMessageGap
  BY <1>11 DEF InReach
<1>13. PICK r, used, first, past : /\ r = ratchet[p] /\ used = Used(p)
                                   /\ first = First(p) /\ past = passed[p]
  OBVIOUS
<1>14. /\ r \in RatchetState /\ KeysApart(r)
       /\ used \subseteq MessageKey /\ past \in Seq(MessageKey)
       /\ reader.sealed_with \notin used
       /\ IsFiniteSet(Newer(used, reader.sealed_with.key))
       /\ Cardinality(Newer(used, reader.sealed_with.key)) < MaxReceiverChains
  BY <1>1, <1>4, <1>10, <1>13
<1>15. Remain(r, used, first, past)
  BY <1>0, <1>13 DEF KeptBy
<1>16. \A f \in first : Len(f) = 0
  BY <1>13 DEF First
<1>17. /\ \A i \in DOMAIN r.receiver_chains :
             r.receiver_chains[i].ratchet_key = reader.ratchet_key
                <=> r.receiver_chains[i].chain_key.key = reader.sealed_with.key
       /\ \A k \in DOMAIN r.skipped_message_keys :
             r.skipped_message_keys[k].message_key = reader.sealed_with
                => r.skipped_message_keys[k].ratchet_key = reader.ratchet_key
  BY <1>5, <1>6, <1>13
<1>18. IF Len(reader.sealed_with.key) <= Len(r.root_key)
       THEN reader.sealed_with.key \in Names(used, first)
       ELSE /\ r.sender_chain # <<>>
            /\ reader.sealed_with.key =
                  CreateChainKey(r.root_key, r.sender_chain[1].ratchet_key,
                                 reader.ratchet_key).root_key
  BY <1>8, <1>9, <1>13 DEF Root
<1>19. \/ \E j \in DOMAIN past : past[j] = reader.sealed_with /\ j <= MaxSkippedMessageKeys
       \/ /\ \A j \in DOMAIN past : past[j] # reader.sealed_with
          /\ Cardinality(Between(used, reader.sealed_with.key, reader.counter))
                <= MaxMessageGap
  BY <1>12, <1>13
<1>20. CanDecrypt(r, reader)
  BY <1>2, <1>3, <1>14, <1>15, <1>16, <1>17, <1>18, <1>19, KeptOpens
<1> QED  BY <1>13, <1>20

\* A message not opened yet opens whenever it arrives, as long as it is in reach.
THEOREM OpensInReach == Spec => []Openable
<1>1. ReachInv => Openable
  BY InReachOpens, PartyFacts DEF Openable
<1> QED  BY <1>1, Reach, PTL

-----------------------------------------------------------------------------
(* RestoredSessions.  A pickle kept before anything leaves is as good as the   *)
(* session itself: for any limits, any number of calls between two pickles and *)
(* any number of restores, the session objects keep SessionInv, and nothing    *)
(* that has left or was used can be made again from an object or a pickle.     *)

USE RestoreBounds

\* What a pickle holds together with its history, as in SessionInv; the messages it
\* has opened are in the pickle of the peer, for they left only then.
SavedSession ==
    [ratchet : RatchetState, received_message : BOOLEAN, sent : Log,
     opened : SUBSET (Party \X Nat), decrypted : Nat, passed : Seq(MessageKey)]

Key(s, n) == s.sent[n].message.sealed_with

SavedOpened(p) ==
    \A id \in saved[p].opened :
        /\ id[1] = Peer(p)
        /\ id[2] \in DOMAIN saved[Peer(p)].sent
        /\ Gone(saved[p].ratchet, Key(saved[Peer(p)], id[2]))

SavedSent(p) ==
    /\ \A n \in DOMAIN saved[p].sent :
          /\ Spent(saved[p].ratchet, Key(saved[p], n))
          /\ ~OnTurn(Key(saved[p], n).key, Turn(p))
    /\ \A n, m \in DOMAIN saved[p].sent : Key(saved[p], n) = Key(saved[p], m) => n = m

SavedInv(p) ==
    /\ KeysApart(saved[p].ratchet)
    /\ Turns(saved[p].ratchet, Turn(p))
    /\ saved[p].received_message <=> saved[p].opened # {}
    /\ SavedOpened(p)
    /\ SavedSent(p)

\* What was sent and opened before the pickle still is so in the object, what has left
\* is in the pickle, and only what has left was opened.
Ahead(p) ==
    /\ \A n \in DOMAIN saved[p].sent : n \in DOMAIN sent[p] /\ sent[p][n] = saved[p].sent[n]
    /\ network[p] = { <<n, saved[p].sent[n].message>> : n \in DOMAIN saved[p].sent }
    /\ saved[p].opened \subseteq opened[p]
    /\ \A id \in opened[p] : id[2] \in DOMAIN saved[Peer(p)].sent

RestoredInv ==
    /\ SessionInv
    /\ saved \in [Party -> SavedSession]
    /\ DOMAIN network = Party
    /\ \A p \in Party : SavedInv(p) /\ Ahead(p)

-----------------------------------------------------------------------------
\* The first pickles are of the sessions as they were set up.
LEMMA RestoredInitInv == RestoredInit => RestoredInv
<1> SUFFICES ASSUME RestoredInit PROVE RestoredInv
  OBVIOUS
<1>1. SessionInv /\ TypeOK
  BY InitInv DEF RestoredInit, SessionInv
<1>2. /\ saved = [p \in Party |-> Session(p)]
      /\ network = [p \in Party |-> {}]
      /\ \A p \in Party : opened[p] = {} /\ sent[p] = <<>>
  BY DEF RestoredInit, Init
<1>3. saved \in [Party -> SavedSession]
  BY <1>1, <1>2 DEF Session, SavedSession, TypeOK
<1>4. ASSUME NEW p \in Party
      PROVE  SavedInv(p) /\ Ahead(p)
  <2>1. saved[p] = Session(p) /\ network[p] = {} /\ DOMAIN sent[p] = {}
    BY <1>2
  <2>2. /\ saved[p].ratchet = ratchet[p] /\ saved[p].sent = sent[p]
        /\ saved[p].opened = {} /\ saved[p].received_message = received_message[p]
    BY <1>2, <2>1 DEF Session
  <2>3. /\ KeysApart(ratchet[p]) /\ Turns(ratchet[p], Turn(p))
        /\ received_message[p] <=> opened[p] # {}
    BY <1>1 DEF SessionInv
  <2>4. SavedInv(p)
    BY <1>2, <2>1, <2>2, <2>3 DEF SavedInv, SavedOpened, SavedSent
  <2>5. network[p] = { <<n, saved[p].sent[n].message>> : n \in DOMAIN saved[p].sent }
    BY <2>1, <2>2
  <2>6. Ahead(p)
    BY <1>2, <2>1, <2>2, <2>5 DEF Ahead
  <2> QED  BY <2>4, <2>6
<1> QED  BY <1>1, <1>2, <1>3, <1>4 DEF RestoredInv

\* A call adds to what is not yet pickled, and opens only what has left.
LEMMA CallStep ==
    ASSUME RestoredInv, SessionInv', NEW p \in Party,
           UNCHANGED <<saved, network>>,
           \A q \in Party : \A n \in DOMAIN sent[q] :
              n \in DOMAIN sent'[q] /\ sent'[q][n] = sent[q][n],
           \A q \in Party : opened[q] \subseteq opened'[q],
           \A q \in Party : \A id \in opened'[q] :
              id \in opened[q] \/ id[2] \in DOMAIN saved[Peer(q)].sent
    PROVE  RestoredInv'
<1>1. ASSUME NEW q \in Party
      PROVE  SavedInv(q)' /\ Ahead(q)'
  <2>1. SavedInv(q) /\ Ahead(q)
    BY DEF RestoredInv
  <2>2. SavedInv(q)'
    BY <2>1 DEF SavedInv, SavedOpened, SavedSent
  <2>3. Ahead(q)'
    BY <2>1 DEF Ahead
  <2> QED  BY <2>2, <2>3
<1> QED  BY <1>1 DEF RestoredInv

\* encrypt() preserves the invariant of the sessions with their pickles,
LEMMA EncryptOneStep ==
    ASSUME RestoredInv, NEW p \in Party, EncryptOne(p)
    PROVE  RestoredInv'
<1>0. SessionInv /\ TypeOK /\ Encrypt(p) /\ UNCHANGED <<saved, network>>
  BY DEF RestoredInv, SessionInv, EncryptOne
<1>1. SessionInv'
  BY <1>0, EncryptStep
<1>2. opened' = opened
  BY <1>0 DEF Encrypt
<1>3. ASSUME NEW q \in Party, NEW n \in DOMAIN sent[q]
      PROVE  n \in DOMAIN sent'[q] /\ sent'[q][n] = sent[q][n]
  <2>1. PICK entry : sent' = [sent EXCEPT ![p] = Append(@, entry)]
    BY <1>0 DEF Encrypt
  <2>2. sent[q] \in Log /\ DOMAIN sent = Party
    BY <1>0 DEF TypeOK
  <2>3. CASE q # p
    BY <2>1, <2>2, <2>3
  <2>4. CASE q = p
    <3>1. sent'[p] = Append(sent[p], entry)
      BY <2>1, <2>2
    <3>2. /\ n \in 1..Len(sent[p]) /\ Len(sent[p]) \in Nat
          /\ sent[p] \in Seq([type : {PRE_KEY, MESSAGE}, message : WireMessage])
      BY <2>2, <2>4, LenProperties DEF Log
    <3>3. n \in DOMAIN Append(sent[p], entry) /\ Append(sent[p], entry)[n] = sent[p][n]
      BY <3>2
    <3> QED  BY <2>4, <3>1, <3>3
  <2> QED  BY <2>3, <2>4
<1> QED  BY <1>0, <1>1, <1>2, <1>3, CallStep

\* and so does decrypt() of what has left,
LEMMA DecryptOneStep ==
    ASSUME RestoredInv, NEW p \in Party, DecryptOne(p)
    PROVE  RestoredInv'
<1>0. SessionInv /\ TypeOK /\ UNCHANGED <<saved, network>>
  BY DEF RestoredInv, SessionInv, DecryptOne
<1>1. PICK q \in Party : \E m \in network[q] : Receive(p, <<q, m[1]>>, m[2])
  BY DEF DecryptOne
<1>2. PICK m \in network[q] : Receive(p, <<q, m[1]>>, m[2])
  BY <1>1
<1>3. PICK n \in DOMAIN saved[q].sent : m = <<n, saved[q].sent[n].message>>
  BY DEF RestoredInv, Ahead
<1>4. n \in DOMAIN sent[q] /\ sent[q][n] = saved[q].sent[n]
  BY DEF RestoredInv, Ahead
<1>5. Receive(p, <<q, n>>, sent[q][n].message)
  BY <1>2, <1>3, <1>4
<1>6. SessionInv'
  <2>1. ReceiveIntact(p)
    BY <1>4, <1>5 DEF ReceiveIntact
  <2> QED  BY <1>0, <2>1, NextInv DEF Next
<1>7. sent' = sent
  BY <1>5 DEF Receive
<1>8. ASSUME NEW o \in Party, NEW id \in opened'[o]
      PROVE  id \in opened[o] \/ id[2] \in DOMAIN saved[Peer(o)].sent
  <2>0. opened \in [Party -> SUBSET (Party \X Nat)]
    BY <1>0 DEF TypeOK
  <2>1. CASE ~CanDecrypt(ratchet[p], sent[q][n].message)
    BY <1>5, <2>1 DEF Receive, Decrypt
  <2>2. CASE CanDecrypt(ratchet[p], sent[q][n].message)
    <3>1. q = Peer(p)
      BY <1>0, <1>4, <2>2, IntactFromPeer
    <3>2. opened' = [opened EXCEPT ![p] = @ \union {<<q, n>>}]
      BY <1>5, <2>2 DEF Receive, Decrypt
    <3> QED  BY <2>0, <3>1, <3>2
  <2> QED  BY <2>1, <2>2
<1>9. \A o \in Party : opened[o] \subseteq opened'[o]
  BY <1>0, <1>5 DEF TypeOK, Receive
<1> QED  BY <1>0, <1>6, <1>7, <1>8, <1>9, CallStep

\* and decrypt() of what was damaged on its way.
LEMMA DecryptDamagedStep ==
    ASSUME RestoredInv, NEW p \in Party, DecryptDamaged(p)
    PROVE  RestoredInv'
<1> DEFINE q == Peer(p)
<1>0. SessionInv /\ TypeOK /\ UNCHANGED <<saved, network>> /\ q \in Party
  BY PartyFacts DEF RestoredInv, SessionInv, DecryptDamaged
<1>1. PICK m \in network[q] : Receive(p, <<q, 0>>, [m[2] EXCEPT !.sealed_with = NoKey])
  BY DEF DecryptDamaged
<1>2. PICK n \in DOMAIN saved[q].sent : m = <<n, saved[q].sent[n].message>>
  BY <1>0 DEF RestoredInv, Ahead
<1>3. n \in DOMAIN sent[q] /\ m[2] = sent[q][n].message
  BY <1>0, <1>2 DEF RestoredInv, Ahead
<1>4. m[2] \in WireMessage
  BY <1>0, <1>3, SentMessage
<1>5. PICK reader : reader = [m[2] EXCEPT !.sealed_with = NoKey]
  OBVIOUS
<1>6. PICK k, c : k = m[2].ratchet_key /\ c = m[2].counter
  OBVIOUS
<1>7. /\ k \in Nat /\ c \in Nat
      /\ reader = [ratchet_key |-> k, counter |-> c, sealed_with |-> NoKey]
  BY <1>4, <1>5, <1>6 DEF WireMessage, RatchetKey
<1>8. Header(reader) /\ ~CanDecrypt(ratchet[p], reader) /\ Receive(p, <<q, 0>>, reader)
  <2>1. Header(reader)
    BY <1>7 DEF Header, RatchetKey
  <2>2. ~CanDecrypt(ratchet[p], reader)
    BY <1>0, <1>7, DamagedIsRefused
  <2> QED  BY <1>1, <1>5, <2>1, <2>2
<1>9. SessionInv'
  BY <1>0, <1>8, ReceiveStep
<1>10. sent' = sent /\ opened' = opened
  BY <1>8 DEF Receive, Decrypt
<1> QED  BY <1>0, <1>9, <1>10, CallStep

\* A pickle takes over what holds of the session, and lets all of it go.
LEMMA SaveStep ==
    ASSUME RestoredInv, NEW p \in Party, SaveAndSend(p)
    PROVE  RestoredInv'
<1>0. /\ SessionInv /\ TypeOK /\ UNCHANGED vars
      /\ saved' = [saved EXCEPT ![p] = Session(p)]
      /\ network' = [network EXCEPT ![p] = @ \union Outbox(p)]
      /\ saved \in [Party -> SavedSession] /\ DOMAIN network = Party
      /\ Peer(p) \in Party /\ Peer(p) # p /\ Peer(Peer(p)) = p
      /\ \A o \in Party : o = p \/ o = Peer(p)
  BY PartyFacts DEF RestoredInv, SessionInv, SaveAndSend
<1>1. SessionInv'
  BY <1>0, NextInv
<1> DEFINE q == Peer(p)
<1>2. /\ saved'[p] = Session(p) /\ saved'[q] = saved[q]
      /\ network'[p] = network[p] \union Outbox(p) /\ network'[q] = network[q]
  BY <1>0
<1>3. /\ saved'[p].ratchet = ratchet[p] /\ saved'[p].sent = sent[p]
      /\ saved'[p].opened = opened[p]
      /\ saved'[p].received_message = received_message[p]
  BY <1>2 DEF Session
<1>4. Session(p) \in SavedSession
  BY <1>0 DEF TypeOK, Session, SavedSession
<1>5. saved' \in [Party -> SavedSession] /\ DOMAIN network' = Party
  BY <1>0, <1>4
<1>6. /\ SavedInv(p) /\ SavedInv(q) /\ Ahead(p) /\ Ahead(q)
      /\ ratchet' = ratchet /\ sent' = sent /\ opened' = opened
  BY <1>0 DEF RestoredInv, vars
<1>7. \A n \in DOMAIN saved[p].sent :
         n \in DOMAIN saved'[p].sent /\ saved'[p].sent[n] = saved[p].sent[n]
  BY <1>3, <1>6 DEF Ahead
<1>8. SavedInv(p)'
  <2>1. /\ KeysApart(ratchet[p]) /\ Turns(ratchet[p], Turn(p))
        /\ received_message[p] <=> opened[p] # {}
        /\ OpenedAreGone(p) /\ SentAreBehind(p)
    BY <1>0 DEF SessionInv
  <2>2. SavedOpened(p)'
    <3>1. ASSUME NEW id \in opened[p]
          PROVE  /\ id[1] = q /\ id[2] \in DOMAIN saved[q].sent
                 /\ Gone(ratchet[p], Key(saved[q], id[2]))
      <4>1. id[1] = q /\ Gone(ratchet[p], sent[id[1]][id[2]].message.sealed_with)
        BY <2>1 DEF OpenedAreGone, Message
      <4>2. id[2] \in DOMAIN saved[q].sent
        BY <1>6 DEF Ahead
      <4>3. sent[q][id[2]] = saved[q].sent[id[2]]
        BY <1>6, <4>2 DEF Ahead
      <4> QED  BY <4>1, <4>2, <4>3 DEF Key
    <3> QED  BY <1>2, <1>3, <3>1 DEF SavedOpened, Key
  <2>3. SavedSent(p)'
    BY <1>3, <2>1 DEF SavedSent, SentAreBehind, Key
  <2> QED  BY <1>3, <2>1, <2>2, <2>3 DEF SavedInv
<1>9. SavedInv(q)'
  <2>1. SavedOpened(q)'
    <3>1. ASSUME NEW id \in saved[q].opened
          PROVE  /\ id[1] = p /\ id[2] \in DOMAIN saved'[p].sent
                 /\ Gone(saved[q].ratchet, Key(saved'[p], id[2]))
      <4>1. /\ id[1] = p /\ id[2] \in DOMAIN saved[p].sent
            /\ Gone(saved[q].ratchet, Key(saved[p], id[2]))
        BY <1>0, <1>6 DEF SavedInv, SavedOpened
      <4> QED  BY <1>7, <4>1 DEF Key
    <3> QED  BY <1>0, <1>2, <3>1 DEF SavedOpened, Key
  <2>2. SavedSent(q)'
    BY <1>2, <1>6 DEF SavedInv, SavedSent, Key
  <2> QED  BY <1>2, <1>6, <2>1, <2>2 DEF SavedInv
<1>10. Ahead(p)'
  <2>1. network'[p] = Outbox(p)
    <3>1. network[p] \subseteq Outbox(p)
      BY <1>6 DEF Ahead, Outbox
    <3> QED  BY <1>2, <3>1
  <2> QED  BY <1>0, <1>2, <1>3, <1>6, <2>1 DEF Ahead, Outbox
<1>11. Ahead(q)'
  <2>1. \A id \in opened[q] : id[2] \in DOMAIN saved[p].sent
    BY <1>0, <1>6 DEF Ahead
  <2>2. \A id \in opened[q] : id[2] \in DOMAIN saved'[p].sent
    BY <1>7, <2>1
  <2> QED  BY <1>0, <1>2, <1>6, <2>2 DEF Ahead
<1>12. \A o \in Party : SavedInv(o)' /\ Ahead(o)'
  BY <1>0, <1>8, <1>9, <1>10, <1>11
<1> QED  BY <1>1, <1>5, <1>12 DEF RestoredInv

\* A session made of its pickle has the invariant, and its peer has opened nothing
\* that is not in that pickle.
LEMMA RestoreStep ==
    ASSUME RestoredInv, NEW p \in Party, Restore(p)
    PROVE  RestoredInv'
<1> DEFINE q == Peer(p)
<1>0. /\ SessionInv /\ TypeOK /\ saved \in [Party -> SavedSession]
      /\ q \in Party /\ q # p /\ Peer(q) = p /\ \A o \in Party : o = p \/ o = q
      /\ SavedInv(p) /\ SavedInv(q) /\ Ahead(p) /\ Ahead(q)
  BY PartyFacts DEF RestoredInv, SessionInv
<1>1. /\ saved[p].ratchet \in RatchetState /\ saved[p].received_message \in BOOLEAN
      /\ saved[p].sent \in Log /\ saved[p].opened \in SUBSET (Party \X Nat)
      /\ saved[p].decrypted \in Nat /\ saved[p].passed \in Seq(MessageKey)
  BY <1>0 DEF SavedSession
<1>2. /\ ratchet' = [ratchet EXCEPT ![p] = saved[p].ratchet]
      /\ received_message' = [received_message EXCEPT ![p] = saved[p].received_message]
      /\ sent' = [sent EXCEPT ![p] = saved[p].sent]
      /\ opened' = [opened EXCEPT ![p] = saved[p].opened]
      /\ decrypted' = [decrypted EXCEPT ![p] = saved[p].decrypted]
      /\ passed' = [passed EXCEPT ![p] = saved[p].passed]
      /\ next_key' = next_key /\ saved' = saved /\ network' = network
  BY <1>1, UnpickleIsIdentity DEF Restore
<1>3. /\ ratchet'[p] = saved[p].ratchet /\ ratchet'[q] = ratchet[q]
      /\ received_message'[p] = saved[p].received_message
      /\ received_message'[q] = received_message[q]
      /\ sent'[p] = saved[p].sent /\ sent'[q] = sent[q]
      /\ opened'[p] = saved[p].opened /\ opened'[q] = opened[q]
  BY <1>0, <1>2 DEF TypeOK
<1>4. TypeOK'
  BY <1>0, <1>1, <1>2 DEF TypeOK
<1>5. OpenedAreGone(p)'
  <2>1. ASSUME NEW id \in saved[p].opened
        PROVE  /\ id[1] = q /\ id[2] \in DOMAIN sent[q]
               /\ Gone(saved[p].ratchet, sent[q][id[2]].message.sealed_with)
    <3>1. /\ id[1] = q /\ id[2] \in DOMAIN saved[q].sent
          /\ Gone(saved[p].ratchet, Key(saved[q], id[2]))
      BY <1>0 DEF SavedInv, SavedOpened
    <3>2. id[2] \in DOMAIN sent[q] /\ sent[q][id[2]] = saved[q].sent[id[2]]
      BY <1>0, <3>1 DEF Ahead
    <3> QED  BY <3>1, <3>2 DEF Key
  <2> QED  BY <1>3, <2>1 DEF OpenedAreGone, Message
<1>6. SentAreBehind(p)'
  BY <1>0, <1>3 DEF SavedInv, SavedSent, SentAreBehind, Key
<1>7. OpenedAreGone(q)'
  <2>1. ASSUME NEW id \in opened[q]
        PROVE  /\ id[1] = p /\ id[2] \in DOMAIN saved[p].sent
               /\ Gone(ratchet[q], saved[p].sent[id[2]].message.sealed_with)
    <3>1. id[1] = p /\ Gone(ratchet[q], sent[p][id[2]].message.sealed_with)
      BY <1>0 DEF SessionInv, OpenedAreGone, Message
    <3>2. id[2] \in DOMAIN saved[p].sent
      BY <1>0 DEF Ahead
    <3>3. sent[p][id[2]] = saved[p].sent[id[2]]
      BY <1>0, <3>2 DEF Ahead
    <3> QED  BY <3>1, <3>2, <3>3
  <2> QED  BY <1>0, <1>3, <2>1 DEF OpenedAreGone, Message
<1>8. SentAreBehind(q)'
  BY <1>0, <1>3 DEF SessionInv, SentAreBehind
<1>9. /\ KeysApart(ratchet'[p]) /\ Turns(ratchet'[p], Turn(p))
      /\ received_message'[p] <=> opened'[p] # {}
      /\ KeysApart(ratchet'[q]) /\ Turns(ratchet'[q], Turn(q))
      /\ received_message'[q] <=> opened'[q] # {}
  BY <1>0, <1>3 DEF SessionInv, SavedInv
<1>10. SessionInv'
  <2>1. \A o \in Party : /\ KeysApart(ratchet'[o])
                         /\ Turns(ratchet'[o], Turn(o))
                         /\ received_message'[o] <=> opened'[o] # {}
                         /\ OpenedAreGone(o)'
                         /\ SentAreBehind(o)'
    BY <1>0, <1>5, <1>6, <1>7, <1>8, <1>9
  <2> QED  BY <1>4, <2>1 DEF SessionInv
<1>11. Ahead(p)'
  <2>1. \A id \in saved[p].opened : id[2] \in DOMAIN saved[q].sent
    BY <1>0 DEF SavedInv, SavedOpened
  <2> QED  BY <1>0, <1>2, <1>3, <2>1 DEF Ahead
<1>12. Ahead(q)'
  BY <1>0, <1>2, <1>3 DEF Ahead
<1>13. \A o \in Party : SavedInv(o)'
  BY <1>2 DEF RestoredInv, SavedInv, SavedOpened, SavedSent
<1>14. saved' \in [Party -> SavedSession] /\ DOMAIN network' = Party
  BY <1>2 DEF RestoredInv
<1>15. \A o \in Party : Ahead(o)'
  BY <1>0, <1>11, <1>12
<1> QED  BY <1>10, <1>13, <1>14, <1>15 DEF RestoredInv

-----------------------------------------------------------------------------
\* Every step of two sessions with their pickles preserves the invariant.
LEMMA RestoredNextInv == RestoredInv /\ [RestoredNext]_everything => RestoredInv'
<1> SUFFICES ASSUME RestoredInv, [RestoredNext]_everything
             PROVE  RestoredInv'
  OBVIOUS
<1>1. CASE UNCHANGED everything
  <2>1. SessionInv'
    BY <1>1, NextInv DEF RestoredInv, everything
  <2>2. sent' = sent /\ opened' = opened /\ saved' = saved /\ network' = network
    BY <1>1 DEF everything, vars
  <2>3. ASSUME NEW q \in Party
        PROVE  SavedInv(q)' /\ Ahead(q)'
    BY <2>2 DEF RestoredInv, SavedInv, SavedOpened, SavedSent, Ahead
  <2> QED  BY <2>1, <2>2, <2>3 DEF RestoredInv
<1>2. ASSUME NEW p \in Party, EncryptOne(p)       PROVE RestoredInv'
  BY <1>2, EncryptOneStep
<1>3. ASSUME NEW p \in Party, DecryptOne(p)       PROVE RestoredInv'
  BY <1>3, DecryptOneStep
<1>4. ASSUME NEW p \in Party, DecryptDamaged(p)   PROVE RestoredInv'
  BY <1>4, DecryptDamagedStep
<1>5. ASSUME NEW p \in Party, SaveAndSend(p)      PROVE RestoredInv'
  BY <1>5, SaveStep
<1>6. ASSUME NEW p \in Party, Restore(p)          PROVE RestoredInv'
  BY <1>6, RestoreStep
<1> QED  BY <1>1, <1>2, <1>3, <1>4, <1>5, <1>6 DEF RestoredNext

\* RestoredInv holds in every reachable state.
THEOREM RestoredInvariance == RestoredSpec => []RestoredInv
BY RestoredInitInv, RestoredNextInv, PTL DEF RestoredSpec

\* Going back to an older pickle leaves a session as sound as it was: SessionInv of
\* the objects, with no replay, no key twice and nothing kept, holds all the same.
THEOREM SoundWhenRestored == RestoredSpec => []SessionInv
<1>1. RestoredInv => SessionInv
  BY DEF RestoredInv
<1> QED  BY <1>1, RestoredInvariance, PTL

\* What has left, or was used, can be made again by no session and from no pickle.
THEOREM NeverAgain == RestoredSpec => []GoneForGood
<1>1. RestoredInv => GoneForGood
  <2> SUFFICES ASSUME RestoredInv, NEW p \in Party, NEW r \in {ratchet[p], saved[p].ratchet}
               PROVE  /\ \A m \in network[p] : ~Derivable(r, m[2].sealed_with)
                      /\ \A id \in saved[p].opened : ~Derivable(r, Message(id).sealed_with)
    BY DEF GoneForGood
  <2>0. /\ SessionInv /\ TypeOK /\ SavedInv(p) /\ Ahead(p) /\ Ahead(Peer(p))
        /\ saved[p] \in SavedSession /\ Peer(p) \in Party /\ Turn(p) \in {0, 1}
    BY PartyFacts DEF RestoredInv, SessionInv
  <2>1. r \in RatchetState /\ Turns(r, Turn(p))
    BY <2>0 DEF SessionInv, TypeOK, SavedInv, SavedSession
  <2>2. ASSUME NEW m \in network[p]
        PROVE  ~Derivable(r, m[2].sealed_with)
    <3>1. PICK n \in DOMAIN saved[p].sent : m = <<n, saved[p].sent[n].message>>
      BY <2>0 DEF Ahead
    <3>2. /\ m[2].sealed_with = Key(saved[p], n)
          /\ n \in DOMAIN sent[p] /\ m[2].sealed_with = sent[p][n].message.sealed_with
      BY <2>0, <3>1 DEF Ahead, Key
    <3>3. /\ Spent(saved[p].ratchet, m[2].sealed_with)
          /\ ~OnTurn(m[2].sealed_with.key, Turn(p))
      BY <2>0, <3>2 DEF SavedInv, SavedSent
    <3>4. Spent(ratchet[p], m[2].sealed_with)
      BY <2>0, <3>2 DEF SessionInv, SentAreBehind
    <3> QED  BY <2>0, <2>1, <3>3, <3>4, NotDerivable
  <2>3. ASSUME NEW id \in saved[p].opened
        PROVE  ~Derivable(r, Message(id).sealed_with)
    <3>1. /\ id[1] = Peer(p) /\ id[2] \in DOMAIN saved[Peer(p)].sent
          /\ Gone(saved[p].ratchet, Key(saved[Peer(p)], id[2]))
      BY <2>0 DEF SavedInv, SavedOpened
    <3>2. id[2] \in DOMAIN sent[Peer(p)] /\ Message(id).sealed_with = Key(saved[Peer(p)], id[2])
      BY <2>0, <3>1 DEF Ahead, Key, Message
    <3>3. Gone(ratchet[p], Message(id).sealed_with)
      BY <2>0 DEF Ahead, SessionInv, OpenedAreGone
    <3>4. ~OnTurn(Message(id).sealed_with.key, Turn(Peer(p)))
      BY <2>0, <3>1, <3>2 DEF SessionInv, SentAreBehind, Message
    <3>5. Len(Message(id).sealed_with.key) \in Nat
      BY <2>0, <3>1, <3>2, SentMessage DEF Message
    <3>6. OnTurn(Message(id).sealed_with.key, Turn(p))
      BY <3>4, <3>5, OtherTurn
    <3> QED  BY <2>0, <2>1, <3>1, <3>2, <3>3, <3>6, NotDerivable
  <2> QED  BY <2>2, <2>3
<1> QED  BY <1>1, RestoredInvariance, PTL
==============================================================================

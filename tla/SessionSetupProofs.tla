-------------------------- MODULE SessionSetupProofs --------------------------
(***************************************************************************)
(* Theorems about SessionSetup, for any number of keys, sessions and       *)
(* messages, any limits of the ratchet, and every behaviour of the network.*)
(*                                                                         *)
(* They follow from SetupInv, which is inductive.  Its first part says     *)
(* that the three keys of a session and its secrets name each other, so    *)
(* that whatever a session opens is of its own conversation; its second    *)
(* what is true of a session's first chain, on which all messages are      *)
(* that can set up an inbound session; its third what becomes of messages  *)
(* that were opened and of one-time keys.                                  *)
(***************************************************************************)
EXTENDS SessionSetup, ObjectProofs

USE AccountLimit, RatchetLimits, SetupBounds

-----------------------------------------------------------------------------
(* The inductive invariant *)

\* The state has its types.
TypeOK ==
    /\ account \in [Party -> AccountState]
    /\ sessions \in [Party -> SUBSET SessionState]
    /\ next_key \in [Party -> Nat \ {0}]
    /\ removed \in [Party -> SUBSET Nat]
    /\ sent \in [Party -> Seq(SessionMessage)]
    /\ opened \in [Party -> SUBSET (Party \X Nat)]
    /\ decrypted \in [Party -> Nat]

\* The message called id: what arrives of it when it arrives intact.
Message(id) == sent[id[1]][id[2]]

-----------------------------------------------------------------------------
(* Which sessions there are.  The three keys of a session name its secrets   *)
(* and the other way round, whichever of its messages was damaged; and the   *)
(* owner of the one-time key is the end that receives first.                 *)

OneTimeKeysOf(p) == IdentityKey(p) + 1 .. IdentityKey(p) + KeysEach

KeysOf(p, keys) ==
    /\ keys.bob_one_time_key \in OneTimeKeysOf(p)
    /\ keys.alice_identity_key \in {IdentityKey(Peer(p)), Garbage}
    /\ keys.alice_base_key < next_key[Peer(p)]

Agreed(p, keys) ==
    << {keys.alice_identity_key, keys.bob_one_time_key},
       {keys.alice_base_key, IdentityKey(p)},
       {keys.alice_base_key, keys.bob_one_time_key} >>

Derived(keys, secret) == \E p \in Party : KeysOf(p, keys) /\ secret = Agreed(p, keys)

TurnOf(p, keys) == IF keys.bob_one_time_key \in OneTimeKeysOf(p) THEN 0 ELSE 1

\* A session in the middle of its life: until it has decrypted anything, the end
\* that sends first is on its first chain.
SessionOK(p, s) ==
    /\ Derived(s.keys, s.shared_secret)
    /\ KeysApart(s.ratchet)
    /\ Turns(s.ratchet, TurnOf(p, s.keys))
    /\ s.received_message => \E id \in opened[p] : Message(id).keys = s.keys
    /\ TurnOf(p, s.keys) = 1 /\ ~s.received_message
          => s.ratchet.root_key = <<>> /\ s.ratchet.sender_chain # <<>>

\* No user has two sessions with the same keys.
Distinct(p) == \A s, t \in sessions[p] : s.keys = t.keys => s = t

\* A message of q is sealed on one of q's own turns, a pre-key message of the end
\* that sends first on the first.
MessageOK(q, m) ==
    /\ Derived(m.keys, m.shared_secret)
    /\ m.body.sealed_with.index = m.body.counter
    /\ ~OnTurn(m.body.sealed_with.key, TurnOf(q, m.keys))
    /\ m.type = PRE_KEY /\ TurnOf(q, m.keys) = 1 => m.body.sealed_with.key = <<>>

-----------------------------------------------------------------------------
(* The first chain of a session *)

\* The messages q has sealed on it are told apart by their counters.
FirstSent(q) ==
    \A n, m \in DOMAIN sent[q] :
        /\ sent[q][n].keys = sent[q][m].keys
        /\ sent[q][n].body.sealed_with.key = <<>>
        /\ sent[q][m].body.sealed_with.key = <<>>
        => /\ sent[q][n].body.ratchet_key = sent[q][m].body.ratchet_key
           /\ sent[q][n].body.counter = sent[q][m].body.counter => n = m

\* A session that still sends on it is past them.
FirstSender(q) ==
    \A n \in DOMAIN sent[q], s \in sessions[q] :
        /\ sent[q][n].keys = s.keys
        /\ sent[q][n].body.sealed_with.key = <<>>
        /\ s.ratchet.root_key = <<>>
        => /\ sent[q][n].body.ratchet_key = s.ratchet.sender_chain[1].ratchet_key
           /\ sent[q][n].body.counter < s.ratchet.sender_chain[1].chain_key.index

\* A ratchet that has the first chain and no other, and no key beside those it has
\* passed over on it.
OnlyFirst(r) ==
    /\ Len(r.receiver_chains) = 1
    /\ r.receiver_chains[1].chain_key.key = <<>>
    /\ Len(r.skipped_message_keys) <= r.receiver_chains[1].chain_key.index

\* It holds the key of the message with counter c.
Held(r, c) ==
    \E k \in DOMAIN r.skipped_message_keys :
        r.skipped_message_keys[k] =
            [ratchet_key |-> r.receiver_chains[1].ratchet_key,
             message_key |-> [key |-> <<>>, index |-> c]]

\* A session that has opened nothing else, and nothing past the capacity of the list of
\* skipped keys, still holds the chain, and the keys of all it has passed over.
FirstKept(p, s) ==
    TurnOf(p, s.keys) = 0 /\ OnFirstChain(p, s.keys) =>
        /\ OnlyFirst(s.ratchet)
        /\ \A id \in opened[p] :
              Message(id).keys = s.keys =>
                  Message(id).body.ratchet_key = s.ratchet.receiver_chains[1].ratchet_key
        /\ \A c \in Nat : c < s.ratchet.receiver_chains[1].chain_key.index =>
              \/ \E id \in opened[p] :
                    Message(id).keys = s.keys /\ Message(id).body.counter = c
              \/ Held(s.ratchet, c)

-----------------------------------------------------------------------------
(* What has been opened, and the one-time keys *)

\* A message once opened came from the peer; no session has its key any more; and
\* while the one-time key is there, so is the session that opened it.
OpenedOK(p) ==
    \A id \in opened[p] :
        /\ id[1] = Peer(p)
        /\ id[2] \in DOMAIN sent[Peer(p)]
        /\ \A s \in sessions[p] :
              s.keys = Message(id).keys => Gone(s.ratchet, Message(id).body.sealed_with)
        /\ LookupKey(account[p], Message(id).keys.bob_one_time_key) =>
              \E s \in sessions[p] : s.keys = Message(id).keys /\ s.received_message

\* The account has the one-time keys it was given, but for those removed.
AccountOK(p) ==
    \A k \in Nat :
        /\ LookupKey(account[p], k) => k \in OneTimeKeysOf(p)
        /\ k \in OneTimeKeysOf(p) \ removed[p] => LookupKey(account[p], k)

UserInv(p) ==
    /\ \A s \in sessions[p] : SessionOK(p, s) /\ FirstKept(p, s)
    /\ Distinct(p)
    /\ \A n \in DOMAIN sent[p] : MessageOK(p, sent[p][n])
    /\ FirstSent(p)
    /\ FirstSender(p)
    /\ OpenedOK(p)
    /\ AccountOK(p)

SetupInv == TypeOK /\ \A p \in Party : UserInv(p)

-----------------------------------------------------------------------------
(* Users and their keys *)

\* The two users are each other's peers.
LEMMA PeerFacts ==
    \A p \in Party : /\ Peer(p) \in Party /\ Peer(p) # p /\ Peer(Peer(p)) = p
                     /\ \A q \in Party : q # p => q = Peer(p)
BY DEF Party, Peer

\* The identity keys and the one-time keys of the two are all different.
LEMMA KeyNumbers ==
    /\ \A p \in Party : IdentityKey(p) \in Nat \ {0}
    /\ \A p \in Party : OneTimeKeysOf(p) \subseteq Nat \ {0}
    /\ \A p, q \in Party : IdentityKey(p) \notin OneTimeKeysOf(q)
    /\ \A p, q \in Party : IdentityKey(p) = IdentityKey(q) => p = q
    /\ \A p, q \in Party : p # q => OneTimeKeysOf(p) \cap OneTimeKeysOf(q) = {}
<1>1. KeysEach \in Nat \ {0} /\ MaxStarted \in Nat /\ MaxSent \in Nat
  OBVIOUS
<1>2. PICK k \in Nat : KeysPerUser = k /\ k > KeysEach
  <2>1. 1 + KeysEach + 2 * MaxStarted + MaxSent \in Nat
    BY <1>1
  <2>2. 1 + KeysEach + 2 * MaxStarted + MaxSent > KeysEach
    BY <1>1
  <2> QED  BY <2>1, <2>2 DEF KeysPerUser
<1>3. IdentityKey(Alice) = 1 /\ IdentityKey(Bob) = 1 + k
  BY <1>2 DEF IdentityKey
<1>4. OneTimeKeysOf(Alice) = 2 .. 1 + KeysEach
  BY <1>1, <1>3 DEF OneTimeKeysOf
<1>5. OneTimeKeysOf(Bob) = 2 + k .. 1 + k + KeysEach
  BY <1>1, <1>2, <1>3 DEF OneTimeKeysOf
<1> QED  BY <1>1, <1>2, <1>3, <1>4, <1>5 DEF Party

\* The first secret of a session names its one-time key, and so the user who owns it.
LEMMA OneOwner ==
    ASSUME NEW p \in Party, NEW q \in Party, NEW k, NEW l,
           k.bob_one_time_key \in OneTimeKeysOf(p),
           l.bob_one_time_key \in OneTimeKeysOf(q),
           k.alice_identity_key \in {IdentityKey(Peer(p)), Garbage},
           l.alice_identity_key \in {IdentityKey(Peer(q)), Garbage},
           {k.alice_identity_key, k.bob_one_time_key}
               = {l.alice_identity_key, l.bob_one_time_key}
    PROVE  /\ p = q
           /\ k.bob_one_time_key = l.bob_one_time_key
           /\ k.alice_identity_key = l.alice_identity_key
<1>1. Peer(p) \in Party /\ Peer(q) \in Party
  BY PeerFacts
<1>2. k.alice_identity_key \notin OneTimeKeysOf(q) /\ l.alice_identity_key \notin OneTimeKeysOf(p)
  <2>1. \A r \in Party : Garbage \notin OneTimeKeysOf(r)
    BY KeyNumbers DEF Garbage
  <2> QED  BY <1>1, <2>1, KeyNumbers
<1>3. k.bob_one_time_key = l.bob_one_time_key
  BY <1>2
<1>4. k.alice_identity_key = l.alice_identity_key
  BY <1>3
<1>5. p = q
  BY <1>3, KeyNumbers
<1> QED  BY <1>3, <1>4, <1>5

\* A session's keys and its shared secret name each other.
LEMMA KeysNameSecrets ==
    ASSUME NEW k \in SessionKeys, NEW l \in SessionKeys, NEW a, NEW b,
           Derived(k, a), Derived(l, b)
    PROVE  a = b <=> k = l
<1>1. PICK p \in Party : KeysOf(p, k) /\ a = Agreed(p, k)
  BY DEF Derived
<1>2. PICK q \in Party : KeysOf(q, l) /\ b = Agreed(q, l)
  BY DEF Derived
<1>3. ASSUME a = b
      PROVE  k = l
  <2>1. /\ {k.alice_identity_key, k.bob_one_time_key}
               = {l.alice_identity_key, l.bob_one_time_key}
        /\ {k.alice_base_key, IdentityKey(p)} = {l.alice_base_key, IdentityKey(q)}
    BY <1>1, <1>2, <1>3 DEF Agreed
  <2>2. /\ p = q /\ k.bob_one_time_key = l.bob_one_time_key
        /\ k.alice_identity_key = l.alice_identity_key
    BY <1>1, <1>2, <2>1, OneOwner DEF KeysOf
  <2>3. k.alice_base_key = l.alice_base_key
    BY <2>1, <2>2
  <2> QED  BY <2>2, <2>3 DEF SessionKeys
<1>4. ASSUME k = l
      PROVE  a = b
  <2>1. p = q
    BY <1>1, <1>2, <1>4, KeyNumbers DEF KeysOf
  <2> QED  BY <1>1, <1>2, <1>4, <2>1
<1> QED  BY <1>3, <1>4

\* Of the two ends of a session one has turn 0, the one that owns the one-time key.
LEMMA TurnFacts ==
    ASSUME NEW p \in Party, NEW keys, NEW secret, Derived(keys, secret)
    PROVE  /\ TurnOf(p, keys) \in {0, 1}
           /\ TurnOf(Peer(p), keys) = 1 - TurnOf(p, keys)
           /\ TurnOf(p, keys) = 0 => KeysOf(p, keys) /\ secret = Agreed(p, keys)
           /\ TurnOf(p, keys) = 1 => KeysOf(Peer(p), keys) /\ secret = Agreed(Peer(p), keys)
<1>1. PICK q \in Party : KeysOf(q, keys) /\ secret = Agreed(q, keys)
  BY DEF Derived
<1>2. \A r \in Party : keys.bob_one_time_key \in OneTimeKeysOf(r) <=> r = q
  BY <1>1, KeyNumbers DEF KeysOf
<1>3. Peer(p) \in Party /\ Peer(p) # p /\ (q = p \/ q = Peer(p))
  BY PeerFacts
<1> QED  BY <1>1, <1>2, <1>3 DEF TurnOf

-----------------------------------------------------------------------------
(* Sessions and what they make of a message *)

\* The fields of a session, and of a message.
LEMMA SessionFields ==
    ASSUME NEW s \in SessionState
    PROVE  /\ s \in [keys : SessionKeys, shared_secret : Seq(Secret),
                     received_message : BOOLEAN, ratchet : RatchetState]
           /\ s.keys \in SessionKeys /\ s.shared_secret \in Seq(Secret)
           /\ s.received_message \in BOOLEAN /\ s.ratchet \in RatchetState
BY DEF SessionState

\* A message is headed by a ratchet key and a counter.
LEMMA MessageFields ==
    ASSUME NEW m \in SessionMessage
    PROVE  /\ m \in [type : {PRE_KEY, MESSAGE}, keys : SessionKeys,
                     shared_secret : Seq(Secret), body : WireMessage]
           /\ m.keys \in SessionKeys /\ m.shared_secret \in Seq(Secret)
           /\ m.body \in [ratchet_key : RatchetKey, counter : Nat, sealed_with : MessageKey]
           /\ Header(m.body)
           /\ m.body.sealed_with \in MessageKey
           /\ m.body.sealed_with.key \in SharedKey
<1>1. /\ m \in [type : {PRE_KEY, MESSAGE}, keys : SessionKeys,
                shared_secret : Seq(Secret), body : WireMessage]
      /\ m.keys \in SessionKeys /\ m.shared_secret \in Seq(Secret) /\ m.body \in WireMessage
  BY DEF SessionMessage
<1>2. m.body \in [ratchet_key : RatchetKey, counter : Nat, sealed_with : MessageKey]
  BY <1>1 DEF WireMessage
<1>3. m.body.sealed_with \in MessageKey /\ Header(m.body)
  BY <1>2 DEF Header
<1>4. m.body.sealed_with.key \in SharedKey
  BY <1>3 DEF MessageKey
<1> QED  BY <1>1, <1>2, <1>3, <1>4

\* CanDecrypt is a truth value.
LEMMA CanDecryptTruth == \A r, reader : CanDecrypt(r, reader) \in BOOLEAN
BY DEF CanDecrypt

\* decrypt() accepts only what is sealed under the session's own secrets, with a key
\* its ratchet has and has no longer afterwards; of anything else it leaves no trace.
Outcome(s, t, m, result) ==
    LET after == result.session IN
    /\ result.ok \in BOOLEAN
    /\ after \in SessionState
    /\ after.keys = s.keys /\ after.shared_secret = s.shared_secret
    /\ after.received_message = (s.received_message \/ result.ok)
    /\ KeysApart(after.ratchet)
    /\ Turns(after.ratchet, t)
    /\ \A message_key : Gone(s.ratchet, message_key) => Gone(after.ratchet, message_key)
    /\ IF result.ok
       THEN /\ m.shared_secret = s.shared_secret
            /\ CanDecrypt(s.ratchet, m.body)
            /\ after.ratchet = AfterDecrypt(s.ratchet, m.body)
            /\ Gone(after.ratchet, m.body.sealed_with)
            /\ OnTurn(m.body.sealed_with.key, t)
            /\ m.body.sealed_with.index = m.body.counter
            /\ \/ /\ after.ratchet.root_key = s.ratchet.root_key
                  /\ after.ratchet.sender_chain = s.ratchet.sender_chain
               \/ /\ Len(after.ratchet.root_key) = Len(s.ratchet.root_key) + 1
                  /\ after.ratchet.sender_chain = <<>>
       ELSE after = s

\* So it is of every call of decrypt(), whatever it is given.
LEMMA ReadOne ==
    ASSUME NEW s \in SessionState, NEW t \in {0, 1}, KeysApart(s.ratchet), Turns(s.ratchet, t),
           NEW m, NEW S, m.body \in [ratchet_key : RatchetKey, counter : Nat, sealed_with : S],
           NEW result, result = DecryptMessage(s, m)
    PROVE  Outcome(s, t, m, result)
<1> DEFINE r == s.ratchet
           reader == Reader(s, m)
<1>0. /\ s \in [keys : SessionKeys, shared_secret : Seq(Secret),
                received_message : BOOLEAN, ratchet : RatchetState]
      /\ s.keys \in SessionKeys /\ s.shared_secret \in Seq(Secret)
      /\ s.received_message \in BOOLEAN /\ r \in RatchetState
  BY SessionFields
<1>1. Header(reader)
  <2>1. CASE m.shared_secret = s.shared_secret
    BY <2>1 DEF Reader, Header
  <2>2. CASE m.shared_secret # s.shared_secret
    <3>1. reader = [m.body EXCEPT !.sealed_with = NoKey]
      BY <2>2 DEF Reader
    <3>2. reader.ratchet_key = m.body.ratchet_key /\ reader.counter = m.body.counter
      BY <3>1
    <3> QED  BY <3>2 DEF Header
  <2> QED  BY <2>1, <2>2
<1>2. /\ result.ok = CanDecrypt(r, reader)
      /\ result.session.keys = s.keys /\ result.session.shared_secret = s.shared_secret
      /\ result.session.received_message = (s.received_message \/ result.ok)
      /\ result.session.ratchet = IF result.ok THEN AfterDecrypt(r, reader) ELSE r
      /\ result.session = [keys |-> s.keys, shared_secret |-> s.shared_secret,
                           received_message |-> (s.received_message \/ result.ok),
                           ratchet |-> result.session.ratchet]
  <2> DEFINE opened_it == Decrypt(r, reader)
  <2>1. /\ opened_it.ok = CanDecrypt(r, reader)
        /\ opened_it.ratchet = IF CanDecrypt(r, reader) THEN AfterDecrypt(r, reader) ELSE r
    BY CanDecryptTruth DEF Decrypt
  <2>2. /\ result.ok = opened_it.ok
        /\ result.session = [s EXCEPT !.ratchet          = opened_it.ratchet,
                                     !.received_message = @ \/ opened_it.ok]
    BY DEF DecryptMessage
  <2> HIDE DEF opened_it
  <2>3. result.session = [keys |-> s.keys, shared_secret |-> s.shared_secret,
                          received_message |-> (s.received_message \/ opened_it.ok),
                          ratchet |-> opened_it.ratchet]
    BY <1>0, <2>2
  <2> QED  BY <2>1, <2>2, <2>3
<1>3. CanDecrypt(r, reader) \in BOOLEAN
  BY CanDecryptTruth
<1> HIDE DEF r, reader
<1>4. CASE ~result.ok
  <2>1. result.session = s
    BY <1>0, <1>2, <1>3, <1>4 DEF r
  <2> QED  BY <1>0, <1>2, <1>3, <1>4, <2>1 DEF Outcome
<1>5. CASE result.ok
  <2>0. CanDecrypt(r, reader) /\ KeysApart(r) /\ Turns(r, t) /\ r \in RatchetState
    BY <1>0, <1>2, <1>5 DEF r
  <2>1. PICK after : after = AfterDecrypt(r, reader)
    OBVIOUS
  <2>2. /\ after \in RatchetState
        /\ KeysApart(after)
        /\ Turns(after, t)
        /\ \A message_key : Gone(r, message_key) => Gone(after, message_key)
        /\ Gone(after, reader.sealed_with)
        /\ OnTurn(reader.sealed_with.key, t)
        /\ reader.sealed_with.index = reader.counter
        /\ \/ after.root_key = r.root_key /\ after.sender_chain = r.sender_chain
           \/ Len(after.root_key) = Len(r.root_key) + 1 /\ after.sender_chain = <<>>
    BY <1>1, <2>0, <2>1, DecryptOpens
  <2>3. m.shared_secret = s.shared_secret
    <3>1. SUFFICES ASSUME m.shared_secret # s.shared_secret
                   PROVE  FALSE
      OBVIOUS
    <3>2. reader = [m.body EXCEPT !.sealed_with = NoKey]
      BY <3>1 DEF Reader, reader
    <3>3. reader.sealed_with = NoKey
      BY <3>2
    <3>4. reader.sealed_with.index = -1
      BY <3>3 DEF NoKey
    <3> QED  BY <1>1, <2>2, <3>4 DEF Header
  <2>4. reader = m.body
    BY <2>3 DEF Reader, reader
  <2>5. result.session.ratchet = after
    BY <1>2, <1>5, <2>1
  <2>6. result.session \in SessionState
    BY <1>0, <1>2, <1>3, <2>2, <2>5 DEF SessionState
  <2> QED  BY <1>2, <1>3, <1>5, <2>0, <2>1, <2>2, <2>3, <2>4, <2>5, <2>6 DEF r, Outcome
<1> QED  BY <1>2, <1>3, <1>4, <1>5

\* Of a damaged message no session opens anything.
LEMMA OnlyIntact ==
    ASSUME NEW s \in SessionState, NEW t \in {0, 1}, KeysApart(s.ratchet), Turns(s.ratchet, t),
           NEW m \in SessionMessage, NEW arrived \in {m} \union DamagedBody(m)
    PROVE  /\ arrived.body \in [ratchet_key : RatchetKey, counter : Nat,
                                sealed_with : MessageKey \union {NoKey}]
           /\ DecryptMessage(s, arrived).ok => arrived = m
<1>0. /\ m \in [type : {PRE_KEY, MESSAGE}, keys : SessionKeys,
                shared_secret : Seq(Secret), body : WireMessage]
      /\ m.body \in [ratchet_key : RatchetKey, counter : Nat, sealed_with : MessageKey]
  BY MessageFields
<1>1. CASE arrived = m
  BY <1>0, <1>1
<1>2. CASE arrived \in DamagedBody(m)
  <2>1. /\ arrived.body.sealed_with = NoKey
        /\ arrived.body.counter = m.body.counter
        /\ arrived.body \in [ratchet_key : RatchetKey, counter : Nat,
                             sealed_with : MessageKey \union {NoKey}]
    <3>1. \/ arrived.body = [m.body EXCEPT !.sealed_with = NoKey]
          \/ arrived.body = [[m.body EXCEPT !.sealed_with = NoKey] EXCEPT !.ratchet_key = Garbage]
      BY <1>0, <1>2 DEF DamagedBody
    <3>2. Garbage \in RatchetKey
      BY DEF Garbage, RatchetKey
    <3> QED  BY <1>0, <3>1, <3>2
  <2>2. ASSUME DecryptMessage(s, arrived).ok
        PROVE  arrived.body.sealed_with.index = arrived.body.counter
    <3>1. PICK S : S = MessageKey \union {NoKey}
      OBVIOUS
    <3>2. PICK result : result = DecryptMessage(s, arrived)
      OBVIOUS
    <3>3. arrived.body \in [ratchet_key : RatchetKey, counter : Nat, sealed_with : S]
      BY <2>1, <3>1
    <3>4. result.ok
      BY <2>2, <3>2
    <3> QED  BY <3>2, <3>3, <3>4, ReadOne DEF Outcome
  <2>3. arrived.body.sealed_with.index = -1
    BY <2>1 DEF NoKey
  <2>4. m.body.counter \in Nat
    BY <1>0
  <2> QED  BY <2>1, <2>2, <2>3, <2>4
<1> QED  BY <1>1, <1>2

-----------------------------------------------------------------------------
(* The first chain of the end that receives first *)

\* Such a ratchet finds the chain of every message that names its ratchet key.
LEMMA FirstChainFound ==
    ASSUME NEW r \in RatchetState, OnlyFirst(r), NEW reader
    PROVE  /\ DOMAIN r.receiver_chains = {1}
           /\ HasChain(r, reader) <=> r.receiver_chains[1].ratchet_key = reader.ratchet_key
           /\ HasChain(r, reader) => ChainFor(r, reader) = 1
           /\ r.receiver_chains[1].chain_key \in ChainKey
           /\ r.receiver_chains[1].chain_key.index \in Nat
<1>1. DOMAIN r.receiver_chains = {1}
  BY RatchetFields DEF OnlyFirst
<1>2. HasChain(r, reader) <=> r.receiver_chains[1].ratchet_key = reader.ratchet_key
  BY <1>1 DEF HasChain
<1>3. HasChain(r, reader) => ChainFor(r, reader) = 1
  BY <1>1, ChainForFound
<1> QED  BY <1>1, <1>2, <1>3, ReceiverChainType

\* A message of the first chain that it has not had, nor is too far ahead, opens.
LEMMA FirstChainOpens ==
    ASSUME NEW r \in RatchetState, OnlyFirst(r),
           NEW reader, Header(reader), reader.sealed_with \in MessageKey,
           reader.sealed_with.key = <<>>, reader.sealed_with.index = reader.counter,
           reader.ratchet_key = r.receiver_chains[1].ratchet_key,
           reader.counter <= MaxMessageGap,
           reader.counter < r.receiver_chains[1].chain_key.index => Held(r, reader.counter)
    PROVE  CanDecrypt(r, reader)
<1> DEFINE chain_key == r.receiver_chains[1].chain_key
<1>0. /\ reader.counter \in Nat /\ chain_key.index \in Nat /\ chain_key.key = <<>>
      /\ chain_key \in [key : SharedKey, index : Nat]
  BY FirstChainFound DEF Header, OnlyFirst, ChainKey
<1>1. HasChain(r, reader) /\ ChainFor(r, reader) = 1
  BY FirstChainFound
<1>2. reader.sealed_with = [key |-> <<>>, index |-> reader.counter]
  BY DEF MessageKey
<1>3. CASE reader.counter < chain_key.index
  <2>1. PICK k \in DOMAIN r.skipped_message_keys :
           r.skipped_message_keys[k] =
              [ratchet_key |-> reader.ratchet_key, message_key |-> reader.sealed_with]
    BY <1>2, <1>3 DEF Held
  <2>2. Opens(r.skipped_message_keys[k], reader)
    BY <2>1 DEF Opens, VerifyMac
  <2>3. HasSkipped(r, reader)
    BY <2>2 DEF HasSkipped
  <2>4. IsLate(r, reader)
    BY <1>0, <1>1, <1>3 DEF IsLate
  <2> QED  BY <1>1, <2>3, <2>4 DEF CanDecrypt
<1>4. CASE ~(reader.counter < chain_key.index)
  <2>1. ~IsLate(r, reader)
    BY <1>0, <1>1, <1>4 DEF IsLate
  <2>2. reader.counter >= chain_key.index /\ reader.counter - chain_key.index <= MaxMessageGap
    BY <1>0, <1>4
  <2>3. CreateMessageKeys([chain_key EXCEPT !.index = reader.counter]) = reader.sealed_with
    BY <1>0, <1>2 DEF CreateMessageKeys
  <2>4. VerifyForExistingChain(chain_key, reader)
    BY <2>2, <2>3 DEF VerifyForExistingChain, VerifyMac
  <2> QED  BY <1>1, <2>1, <2>4 DEF CanDecrypt
<1> QED  BY <1>3, <1>4

\* What decrypt() does when it opens a message of the first chain: it is not a new
\* chain, and the message's key is the only one of the chain that goes.
LEMMA FirstChainRead ==
    ASSUME NEW r \in RatchetState, OnlyFirst(r),
           NEW reader, Header(reader), CanDecrypt(r, reader),
           reader.sealed_with.key = <<>>, reader.counter <= MaxSkippedMessageKeys,
           NEW after, after = AfterDecrypt(r, reader)
    PROVE  /\ after \in RatchetState
           /\ OnlyFirst(after)
           /\ after.receiver_chains[1].ratchet_key = r.receiver_chains[1].ratchet_key
           /\ reader.ratchet_key = r.receiver_chains[1].ratchet_key
           /\ \A c \in Nat :
                 /\ c # reader.counter
                 /\ c < after.receiver_chains[1].chain_key.index
                 /\ c < r.receiver_chains[1].chain_key.index => Held(r, c)
                 => Held(after, c)
<1> DEFINE chain == r.receiver_chains[1]
           index == chain.chain_key.index
<1>0. /\ reader.counter \in Nat /\ reader.ratchet_key \in RatchetKey
      /\ DOMAIN r.receiver_chains = {1} /\ Len(r.receiver_chains) = 1
      /\ index \in Nat /\ chain.chain_key.key = <<>>
      /\ Len(r.skipped_message_keys) \in Nat /\ Len(r.skipped_message_keys) <= index
      /\ DOMAIN r.skipped_message_keys = 1..Len(r.skipped_message_keys)
      /\ Len(r.skipped_message_keys) <= MaxSkippedMessageKeys
  BY FirstChainFound, RatchetFields DEF OnlyFirst, Header
<1>1. HasChain(r, reader)
  <2> SUFFICES ASSUME ~HasChain(r, reader)
               PROVE  FALSE
    OBVIOUS
  <2>1. VerifyForNewChain(r, reader)
    BY DEF CanDecrypt
  <2>2. r.sender_chain # <<>>
    BY <2>1 DEF VerifyForNewChain
  <2> DEFINE derived == CreateChainKey(r.root_key, r.sender_chain[1].ratchet_key,
                                       reader.ratchet_key)
  <2>3. derived.chain_key = [key |-> derived.root_key, index |-> 0]
        /\ Len(derived.root_key) = Len(r.root_key) + 1
    BY <1>0, <2>2, RatchetFields, SenderChainType, CreateChainKeyFields
  <2>4. VerifyForExistingChain(derived.chain_key, reader)
    BY <2>1 DEF VerifyForNewChain
  <2> HIDE DEF derived
  <2>5. reader.sealed_with = CreateMessageKeys([derived.chain_key EXCEPT !.index = reader.counter])
    BY <2>4 DEF VerifyForExistingChain, VerifyMac
  <2>6. reader.sealed_with.key = derived.root_key
    BY <2>3, <2>5 DEF CreateMessageKeys
  <2>7. Len(<<>>) = 0 /\ Len(r.root_key) \in Nat
    BY RatchetFields
  <2> QED  BY <2>3, <2>6, <2>7
<1>2. ChainFor(r, reader) = 1 /\ reader.ratchet_key = chain.ratchet_key
  BY <1>1, FirstChainFound
<1>3. CASE IsLate(r, reader)
  <2>1. HasSkipped(r, reader) /\ after = UseSkippedKey(r, reader)
    BY <1>1, <1>3 DEF CanDecrypt, AfterDecrypt
  <2>2. /\ after \in RatchetState
        /\ after.receiver_chains = r.receiver_chains
        /\ \A j \in DOMAIN after.skipped_message_keys :
              IF j < SkippedFor(r, reader)
              THEN j \in DOMAIN r.skipped_message_keys
              ELSE j + 1 \in DOMAIN r.skipped_message_keys
    BY <2>1, UseSkippedKeyFields
  <2>3. Len(after.skipped_message_keys) <= Len(r.skipped_message_keys)
    <3>1. /\ Len(after.skipped_message_keys) \in Nat
          /\ DOMAIN after.skipped_message_keys = 1..Len(after.skipped_message_keys)
      BY <2>2, RatchetFields
    <3>2. CASE Len(after.skipped_message_keys) = 0
      BY <1>0, <3>2
    <3>3. CASE Len(after.skipped_message_keys) # 0
      <4>1. Len(after.skipped_message_keys) \in DOMAIN after.skipped_message_keys
        BY <3>1, <3>3
      <4> QED  BY <1>0, <2>2, <3>1, <4>1
    <3> QED  BY <3>2, <3>3
  <2>4. OnlyFirst(after)
    <3>1. Len(after.skipped_message_keys) \in Nat
      BY <2>2, RatchetFields
    <3> QED  BY <1>0, <2>2, <2>3, <3>1 DEF OnlyFirst
  <2>5. ASSUME NEW c \in Nat, c # reader.counter, Held(r, c)
        PROVE  Held(after, c)
    <3>1. PICK k \in DOMAIN r.skipped_message_keys :
             r.skipped_message_keys[k] =
                 [ratchet_key |-> chain.ratchet_key,
                  message_key |-> [key |-> <<>>, index |-> c]]
      BY <2>5 DEF Held
    <3>2. r.skipped_message_keys[SkippedFor(r, reader)].message_key.index = reader.counter
      BY <2>1, SkippedForFound DEF Opens
    <3>3. k # SkippedFor(r, reader)
      BY <2>5, <3>1, <3>2
    <3>4. PICK l \in DOMAIN after.skipped_message_keys :
             after.skipped_message_keys[l] = r.skipped_message_keys[k]
      BY <2>1, <3>3, UseSkippedRest
    <3> QED  BY <2>2, <3>1, <3>4 DEF Held
  <2> QED  BY <1>2, <2>2, <2>4, <2>5
<1>4. CASE ~IsLate(r, reader)
  <2>1. after = AdvanceReceiverChain(r, 1, reader.counter)
    BY <1>1, <1>2, <1>4 DEF AfterDecrypt
  <2>2. reader.counter >= index
    BY <1>0, <1>2, <1>4 DEF IsLate
  <2>3. PICK d \in Nat : d = reader.counter - index /\ reader.counter = index + d
    BY <1>0, <2>2
  <2>4. /\ after \in RatchetState
        /\ DOMAIN after.receiver_chains = DOMAIN r.receiver_chains
        /\ after.receiver_chains[1] =
              [ratchet_key |-> chain.ratchet_key,
               chain_key   |-> [key |-> chain.chain_key.key, index |-> reader.counter + 1]]
        /\ \A j \in DOMAIN after.skipped_message_keys :
              j <= d \/ j - d \in DOMAIN r.skipped_message_keys
    <3>1. PICK i \in DOMAIN r.receiver_chains : i = 1
      BY <1>0
    <3>2. PICK counter \in Nat : counter = reader.counter
      BY <1>0
    <3>3. after = AdvanceReceiverChain(r, i, counter)
          /\ counter >= r.receiver_chains[i].chain_key.index
      BY <2>1, <2>2, <3>1, <3>2
    <3>4. /\ after \in RatchetState
          /\ DOMAIN after.receiver_chains = DOMAIN r.receiver_chains
          /\ after.receiver_chains[i] =
                [ratchet_key |-> r.receiver_chains[i].ratchet_key,
                 chain_key   |-> [key   |-> r.receiver_chains[i].chain_key.key,
                                  index |-> counter + 1]]
          /\ \A j \in DOMAIN after.skipped_message_keys :
                IF j <= counter - r.receiver_chains[i].chain_key.index
                THEN after.skipped_message_keys[j].message_key =
                         [key   |-> r.receiver_chains[i].chain_key.key,
                          index |-> counter - j]
                ELSE /\ j - (counter - r.receiver_chains[i].chain_key.index)
                           \in DOMAIN r.skipped_message_keys
                     /\ after.skipped_message_keys[j] =
                           r.skipped_message_keys
                               [j - (counter - r.receiver_chains[i].chain_key.index)]
      BY <3>3, AdvanceReceiverChainFields
    <3> QED  BY <2>3, <3>1, <3>2, <3>4
  <2>5. \A j \in Nat \ {0} :
           j <= MaxSkippedMessageKeys /\ j <= d + Len(r.skipped_message_keys)
           => /\ j \in DOMAIN after.skipped_message_keys
              /\ j <= d =>
                   /\ after.skipped_message_keys[j].ratchet_key = chain.ratchet_key
                   /\ after.skipped_message_keys[j].message_key
                          = KeyAt(chain.chain_key.key, reader.counter - j)
              /\ j > d => after.skipped_message_keys[j] = r.skipped_message_keys[j - d]
    <3>1. PICK i \in DOMAIN r.receiver_chains : i = 1
      BY <1>0
    <3>2. PICK counter \in Nat : counter = reader.counter
      BY <1>0
    <3>3. /\ after = AdvanceReceiverChain(r, i, counter)
          /\ counter = r.receiver_chains[i].chain_key.index + d
      BY <2>1, <2>3, <3>1, <3>2
    <3>4. \A j \in Nat \ {0} :
             /\ j <= MaxSkippedMessageKeys
             /\ j <= d + Len(r.skipped_message_keys)
             => /\ j \in DOMAIN after.skipped_message_keys
                /\ j <= d =>
                     /\ after.skipped_message_keys[j].ratchet_key
                            = r.receiver_chains[i].ratchet_key
                     /\ after.skipped_message_keys[j].message_key
                            = KeyAt(r.receiver_chains[i].chain_key.key, counter - j)
                /\ j > d => after.skipped_message_keys[j] = r.skipped_message_keys[j - d]
      BY <3>3, AdvanceSkipped
    <3> QED  BY <3>1, <3>2, <3>4
  <2>6. OnlyFirst(after)
    <3>1. /\ Len(after.skipped_message_keys) \in Nat
          /\ DOMAIN after.skipped_message_keys = 1..Len(after.skipped_message_keys)
          /\ DOMAIN after.receiver_chains = 1..Len(after.receiver_chains)
          /\ Len(after.receiver_chains) \in Nat
      BY <2>4, RatchetFields
    <3>2. Len(after.receiver_chains) = 1
      <4>1. PICK n \in Nat : n = Len(after.receiver_chains)
        BY <3>1
      <4>2. 1..n = {1}
        BY <1>0, <2>4, <3>1, <4>1
      <4>3. \A j : j \in 1..n <=> j = 1
        BY <4>2, Zenon
      <4>4. 1 \in 1..n /\ ~(2 \in 1..n)
        BY <4>3
      <4>5. n = 1
        BY <4>4
      <4> QED  BY <4>1, <4>5
    <3>3. Len(after.skipped_message_keys) <= d + Len(r.skipped_message_keys)
      <4>1. CASE Len(after.skipped_message_keys) = 0
        BY <1>0, <4>1
      <4>2. CASE Len(after.skipped_message_keys) # 0
        <5>1. PICK l \in Nat : /\ l = Len(after.skipped_message_keys)
                               /\ l \in DOMAIN after.skipped_message_keys
          BY <3>1, <4>2
        <5>2. PICK n \in Nat : n = Len(r.skipped_message_keys)
          BY <1>0
        <5>3. l <= d \/ l - d \in 1..n
          BY <1>0, <2>4, <5>1, <5>2
        <5>4. l <= d + n
          BY <5>3
        <5> QED  BY <5>1, <5>2, <5>4
      <4> QED  BY <4>1, <4>2
    <3>4. Len(after.skipped_message_keys) <= reader.counter + 1
      BY <1>0, <2>3, <3>1, <3>3
    <3> QED  BY <1>0, <2>4, <3>2, <3>4 DEF OnlyFirst
  <2>7. ASSUME NEW c \in Nat, c # reader.counter, c < reader.counter + 1,
               c < index => Held(r, c)
        PROVE  Held(after, c)
    <3>1. CASE c < index
      <4>1. PICK k \in DOMAIN r.skipped_message_keys :
               r.skipped_message_keys[k] =
                   [ratchet_key |-> chain.ratchet_key,
                    message_key |-> [key |-> <<>>, index |-> c]]
        BY <2>7, <3>1 DEF Held
      <4>2. /\ k + d \in Nat \ {0} /\ k + d <= d + Len(r.skipped_message_keys)
            /\ k + d <= MaxSkippedMessageKeys /\ k + d > d /\ (k + d) - d = k
        <5>1. k \in Nat \ {0} /\ k <= Len(r.skipped_message_keys)
          BY <1>0, <4>1
        <5>2. index + d <= MaxSkippedMessageKeys
          BY <2>3
        <5>3. k + d <= index + d
          BY <1>0, <5>1
        <5> HIDE DEF index
        <5> QED  BY <1>0, <5>1, <5>2, <5>3
      <4>3. /\ k + d \in DOMAIN after.skipped_message_keys
            /\ after.skipped_message_keys[k + d] = r.skipped_message_keys[k]
        BY <2>5, <4>2
      <4> QED  BY <2>4, <4>1, <4>3 DEF Held
    <3>2. CASE ~(c < index)
      <4>0. PICK n \in Nat : n = reader.counter
        BY <1>0
      <4>1. PICK j \in Nat \ {0} : j = n - c /\ n - j = c
        <5>1. n - c \in Nat \ {0} /\ n - (n - c) = c
          BY <2>7, <4>0
        <5> QED  BY <5>1
      <4>2. j <= d /\ j <= MaxSkippedMessageKeys /\ j <= d + Len(r.skipped_message_keys)
        <5>1. PICK i \in Nat : i = index
          BY <1>0
        <5>2. n = i + d /\ c >= i /\ n <= MaxSkippedMessageKeys
          BY <2>3, <2>7, <3>2, <4>0, <5>1
        <5>3. j <= d /\ j <= MaxSkippedMessageKeys
          BY <4>1, <5>2
        <5> QED  BY <1>0, <5>3
      <4>3. /\ j \in DOMAIN after.skipped_message_keys
            /\ after.skipped_message_keys[j].ratchet_key = chain.ratchet_key
            /\ after.skipped_message_keys[j].message_key = KeyAt(<<>>, c)
        BY <1>0, <2>5, <4>0, <4>1, <4>2
      <4>4. after.skipped_message_keys[j] \in [ratchet_key : RatchetKey, message_key : MessageKey]
        BY <2>4, <4>3, SkippedMessageKeyType DEF SkippedMessageKey
      <4>5. after.skipped_message_keys[j] =
               [ratchet_key |-> chain.ratchet_key,
                message_key |-> [key |-> <<>>, index |-> c]]
        BY <4>3, <4>4 DEF KeyAt
      <4> QED  BY <2>4, <4>3, <4>5 DEF Held
    <3> QED  BY <3>1, <3>2
  <2> QED  BY <1>2, <2>4, <2>6, <2>7
<1> QED  BY <1>3, <1>4

-----------------------------------------------------------------------------
(* Accounts *)

\* The account a user begins with has the one-time keys of its range, and no others.
LEMMA NewKeysFacts ==
    ASSUME NEW p \in Party
    PROVE  /\ NewKeys(p) \in AccountState
           /\ \A k : LookupKey(NewKeys(p), k) <=> k \in OneTimeKeysOf(p)
<1>0. NewAccount \in AccountState /\ NewAccount.one_time_keys = <<>>
  <2>1. NewAccount \in [one_time_keys : Seq(OneTimeKey), next_one_time_key_id : Nat]
    BY EmptySeq DEF NewAccount
  <2>2. Len(NewAccount.one_time_keys) <= MaxOneTimeKeys
    BY EmptySeq DEF NewAccount
  <2>3. NewAccount.one_time_keys = <<>>
    BY DEF NewAccount
  <2> QED  BY <2>1, <2>2, <2>3 DEF AccountState
<1>1. PICK a \in AccountState : a = NewAccount /\ a.one_time_keys = <<>>
  BY <1>0
<1>2. PICK n \in Nat \ {0} : n = KeysEach /\ n <= MaxOneTimeKeys
  OBVIOUS
<1>3. PICK i \in Nat : i = IdentityKey(p)
  BY KeyNumbers
<1>4. PICK b : b = GenerateOneTimeKeys(a, n, i)
  OBVIOUS
<1>5. /\ b \in AccountState
      /\ DOMAIN b.one_time_keys = 1..Len(b.one_time_keys) /\ Len(b.one_time_keys) \in Nat
      /\ \A j \in DOMAIN b.one_time_keys :
            j <= n => b.one_time_keys[j].key = i + n + 1 - j
      /\ \A j \in DOMAIN b.one_time_keys : ~(j <= n) => j - n \in DOMAIN a.one_time_keys
      /\ \A j \in 1..MaxOneTimeKeys : j <= n => j \in DOMAIN b.one_time_keys
  BY <1>4, GenerateElements
<1>6. DOMAIN b.one_time_keys = 1..n
  <2>1. DOMAIN a.one_time_keys = {}
    BY <1>1, EmptySeq
  <2>2. PICK l \in Nat : l = Len(b.one_time_keys) /\ DOMAIN b.one_time_keys = 1..l
    BY <1>5
  <2>3. n \in 1..MaxOneTimeKeys
    BY <1>2
  <2>4. n \in 1..l
    BY <1>5, <2>2, <2>3
  <2>5. ~(n + 1 \in 1..l)
    BY <1>2, <1>5, <2>1, <2>2
  <2>6. l = n
    BY <2>4, <2>5
  <2> QED  BY <2>2, <2>6
<1>7. PICK c : c = MarkKeysAsPublished(b)
  OBVIOUS
<1>8. /\ c \in AccountState
      /\ DOMAIN c.one_time_keys = 1..n
      /\ \A j \in 1..n : c.one_time_keys[j].key = i + n + 1 - j
  <2>1. /\ c \in AccountState
        /\ DOMAIN c.one_time_keys = DOMAIN b.one_time_keys
        /\ \A j \in DOMAIN c.one_time_keys :
              c.one_time_keys[j] = [id |-> b.one_time_keys[j].id, published |-> TRUE,
                                    key |-> b.one_time_keys[j].key]
    BY <1>5, <1>7, MarkElements
  <2>2. ASSUME NEW j \in 1..n
        PROVE  c.one_time_keys[j].key = i + n + 1 - j
    <3>0. PICK k : k = b.one_time_keys[j]
      OBVIOUS
    <3>1. c.one_time_keys[j] = [id |-> k.id, published |-> TRUE, key |-> k.key]
      BY <1>6, <2>1, <3>0
    <3>2. k.key = i + n + 1 - j
      BY <1>5, <1>6, <3>0
    <3> QED  BY <3>1, <3>2
  <2> QED  BY <1>6, <2>1, <2>2
<1>9. NewKeys(p) = c
  BY <1>1, <1>2, <1>3, <1>4, <1>7 DEF NewKeys
<1>10. ASSUME NEW k
       PROVE  LookupKey(c, k) <=> k \in i + 1 .. i + n
  <2>1. LookupKey(c, k) <=> \E j \in 1..n : c.one_time_keys[j].key = k
    BY <1>8 DEF LookupKey, Keys
  <2>2. ASSUME k \in i + 1 .. i + n
        PROVE  \E j \in 1..n : k = i + n + 1 - j
    <3>1. i + n + 1 - k \in 1..n /\ k = i + n + 1 - (i + n + 1 - k)
      BY <2>2
    <3> QED  BY <3>1
  <2>3. ASSUME NEW j \in 1..n, k = i + n + 1 - j
        PROVE  k \in i + 1 .. i + n
    BY <2>3
  <2> QED  BY <1>8, <2>1, <2>2, <2>3
<1> QED  BY <1>2, <1>3, <1>8, <1>9, <1>10 DEF OneTimeKeysOf

\* remove_key takes no other key along.
LEMMA RemoveLooksUp ==
    ASSUME NEW a \in AccountState, NEW key, LookupKey(a, key),
           NEW b, b = RemoveKey(a, key)
    PROVE  /\ b \in AccountState
           /\ \A k : LookupKey(b, k) => LookupKey(a, k)
           /\ \A k : LookupKey(a, k) /\ k # key => LookupKey(b, k)
<1>1. /\ DOMAIN a.one_time_keys = 1..Len(a.one_time_keys) /\ Len(a.one_time_keys) \in Nat
  BY AccountFields
<1>2. b \in AccountState
  BY RemoveElements
<1>3. PICK pos \in DOMAIN a.one_time_keys :
         /\ a.one_time_keys[pos].key = key
         /\ DOMAIN b.one_time_keys = 1 .. Len(a.one_time_keys) - 1
         /\ \A i \in DOMAIN b.one_time_keys :
               b.one_time_keys[i] = IF i < pos THEN a.one_time_keys[i]
                                    ELSE a.one_time_keys[i + 1]
  BY RemoveElements
<1>4. \A k : /\ LookupKey(a, k) <=> \E i \in DOMAIN a.one_time_keys : a.one_time_keys[i].key = k
             /\ LookupKey(b, k) <=> \E i \in DOMAIN b.one_time_keys : b.one_time_keys[i].key = k
  BY DEF LookupKey, Keys
<1>5. ASSUME NEW k, LookupKey(b, k)
      PROVE  LookupKey(a, k)
  <2>1. PICK i \in DOMAIN b.one_time_keys : b.one_time_keys[i].key = k
    BY <1>4, <1>5
  <2>2. i \in DOMAIN a.one_time_keys /\ i + 1 \in DOMAIN a.one_time_keys
    BY <1>1, <1>3
  <2> QED  BY <1>3, <1>4, <2>1, <2>2
<1>6. ASSUME NEW k, LookupKey(a, k), k # key
      PROVE  LookupKey(b, k)
  <2>1. PICK i \in DOMAIN a.one_time_keys : a.one_time_keys[i].key = k
    BY <1>4, <1>6
  <2>2. i # pos
    BY <1>3, <1>6, <2>1
  <2>3. CASE i < pos
    <3>1. i \in DOMAIN b.one_time_keys
      BY <1>1, <1>3, <2>3
    <3> QED  BY <1>3, <1>4, <2>1, <2>3, <3>1
  <2>4. CASE i > pos
    <3>1. i - 1 \in DOMAIN b.one_time_keys /\ ~(i - 1 < pos) /\ (i - 1) + 1 = i
      BY <1>1, <1>3, <2>4
    <3> QED  BY <1>3, <1>4, <2>1, <3>1
  <2> QED  BY <1>1, <2>2, <2>3, <2>4
<1> QED  BY <1>2, <1>5, <1>6

-----------------------------------------------------------------------------
(* What a step leaves as it is *)

\* The logs are sequences of messages.
LEMMA SentFields ==
    ASSUME TypeOK, NEW q \in Party
    PROVE  /\ sent[q] \in Seq(SessionMessage)
           /\ Len(sent[q]) \in Nat /\ DOMAIN sent[q] = 1..Len(sent[q])
           /\ \A n \in DOMAIN sent[q] : n \in Nat \ {0} /\ sent[q][n] \in SessionMessage
<1>1. sent[q] \in Seq(SessionMessage)
  BY DEF TypeOK
<1>2. Len(sent[q]) \in Nat /\ DOMAIN sent[q] = 1..Len(sent[q])
  BY <1>1, LenProperties
<1>3. \A n \in DOMAIN sent[q] : sent[q][n] \in SessionMessage
  BY <1>1, <1>2, ElementOfSeq
<1> QED  BY <1>1, <1>2, <1>3

\* The invariant, message by message.
LEMMA OpenedFields ==
    ASSUME SetupInv, NEW p \in Party, NEW id \in opened[p]
    PROVE  /\ id[1] = Peer(p) /\ id[1] \in Party /\ id[2] \in DOMAIN sent[id[1]]
           /\ id = <<id[1], id[2]>>
           /\ Message(id) = sent[Peer(p)][id[2]]
           /\ Message(id) \in SessionMessage
           /\ MessageOK(Peer(p), Message(id))
<1>1. TypeOK /\ OpenedOK(p) /\ UserInv(Peer(p)) /\ Peer(p) \in Party
  BY PeerFacts DEF SetupInv, UserInv
<1>2. id \in Party \X Nat
  BY <1>1 DEF TypeOK
<1>3. id[1] = Peer(p) /\ id[2] \in DOMAIN sent[Peer(p)] /\ id = <<id[1], id[2]>>
  BY <1>1, <1>2 DEF OpenedOK
<1>4. Message(id) = sent[Peer(p)][id[2]]
  BY <1>3 DEF Message
<1> QED  BY <1>1, <1>3, <1>4, SentFields DEF UserInv

\* Key pairs are only ever made, messages only ever sent and opened.
Grows ==
    /\ \A r \in Party : next_key'[r] \in Nat /\ next_key[r] <= next_key'[r]
    /\ \A r \in Party : \A n \in DOMAIN sent[r] :
          n \in DOMAIN sent'[r] /\ sent'[r][n] = sent[r][n]
    /\ \A r \in Party : opened[r] \subseteq opened'[r]

\* Keys once agreed stay agreed.
LEMMA DerivedStays ==
    ASSUME TypeOK, Grows, NEW keys \in SessionKeys, NEW secret, Derived(keys, secret)
    PROVE  Derived(keys, secret)'
<1>1. PICK p \in Party : KeysOf(p, keys) /\ secret = Agreed(p, keys)
  BY DEF Derived
<1>2. Peer(p) \in Party /\ keys.alice_base_key \in Nat
  BY PeerFacts DEF SessionKeys, PublicKey
<1>3. /\ next_key[Peer(p)] \in Nat /\ next_key'[Peer(p)] \in Nat
      /\ next_key[Peer(p)] <= next_key'[Peer(p)]
  BY <1>2 DEF TypeOK, Grows
<1>4. KeysOf(p, keys)'
  BY <1>1, <1>2, <1>3 DEF KeysOf
<1> QED  BY <1>1, <1>4 DEF Derived

\* What is true of a session stays true of it.
LEMMA SessionStays ==
    ASSUME SetupInv, Grows, NEW p \in Party, NEW s \in sessions[p]
    PROVE  SessionOK(p, s)'
<1>1. TypeOK /\ SessionOK(p, s) /\ s \in SessionState
  BY DEF SetupInv, UserInv, TypeOK
<1>2. Derived(s.keys, s.shared_secret)'
  BY <1>1, DerivedStays, SessionFields DEF SessionOK
<1>3. ASSUME NEW id \in opened[p], Message(id).keys = s.keys
      PROVE  id \in opened'[p] /\ Message(id)'.keys = s.keys
  BY <1>3, OpenedFields DEF Grows, Message
<1> QED  BY <1>1, <1>2, <1>3 DEF SessionOK

\* What is true of a message stays true of it.
LEMMA MessageStays ==
    ASSUME SetupInv, Grows, NEW p \in Party, NEW n \in DOMAIN sent[p]
    PROVE  MessageOK(p, sent[p][n])'
<1>1. TypeOK /\ MessageOK(p, sent[p][n]) /\ sent[p][n] \in SessionMessage
  BY SentFields DEF SetupInv, UserInv
<1>2. sent'[p][n] = sent[p][n]
  BY DEF Grows
<1> DEFINE m == sent[p][n]
<1>3. Derived(m.keys, m.shared_secret) /\ m.keys \in SessionKeys
  BY <1>1, MessageFields DEF MessageOK
<1>4. PICK keys, secret : keys \in SessionKeys /\ keys = m.keys /\ secret = m.shared_secret
  BY <1>3
<1>5. Derived(keys, secret)
  BY <1>3, <1>4
<1>6. Derived(keys, secret)'
  BY <1>1, <1>4, <1>5, DerivedStays
<1> QED  BY <1>1, <1>2, <1>4, <1>6 DEF MessageOK

\* A first chain is kept while nothing more of its session is opened.
LEMMA FirstChainStays ==
    ASSUME SetupInv, Grows, NEW p \in Party, NEW s \in sessions[p],
           \A id \in opened'[p] : id \in opened[p] \/ Message(id)'.keys # s.keys
    PROVE  FirstKept(p, s)'
<1>1. FirstKept(p, s)
  BY DEF SetupInv, UserInv
<1>2. ASSUME NEW id \in opened[p]
      PROVE  Message(id)' = Message(id) /\ id \in opened'[p]
  BY OpenedFields DEF Grows, Message
<1>3. OnFirstChain(p, s.keys)' => OnFirstChain(p, s.keys)
  BY <1>2 DEF OnFirstChain, Message
<1>4. SUFFICES ASSUME TurnOf(p, s.keys) = 0, OnFirstChain(p, s.keys)'
               PROVE  /\ OnlyFirst(s.ratchet)
                      /\ \A id \in opened'[p] :
                            Message(id)'.keys = s.keys =>
                               Message(id)'.body.ratchet_key
                                  = s.ratchet.receiver_chains[1].ratchet_key
                      /\ \A c \in Nat : c < s.ratchet.receiver_chains[1].chain_key.index =>
                            \/ \E id \in opened'[p] :
                                  Message(id)'.keys = s.keys /\ Message(id)'.body.counter = c
                            \/ Held(s.ratchet, c)
  BY DEF FirstKept
<1>5. /\ OnlyFirst(s.ratchet)
      /\ \A id \in opened[p] :
            Message(id).keys = s.keys =>
               Message(id).body.ratchet_key = s.ratchet.receiver_chains[1].ratchet_key
      /\ \A c \in Nat : c < s.ratchet.receiver_chains[1].chain_key.index =>
            \/ \E id \in opened[p] :
                  Message(id).keys = s.keys /\ Message(id).body.counter = c
            \/ Held(s.ratchet, c)
  BY <1>1, <1>3, <1>4 DEF FirstKept
<1> QED  BY <1>2, <1>5

\* The other user of a step, of whose state it changes nothing.
LEMMA OtherUser ==
    ASSUME SetupInv, Grows, NEW q \in Party,
           account'[q] = account[q], removed'[q] = removed[q], sessions'[q] = sessions[q],
           sent'[q] = sent[q], opened'[q] = opened[q]
    PROVE  UserInv(q)'
<1>1. UserInv(q) /\ Peer(q) \in Party
  BY PeerFacts DEF SetupInv
<1>2. ASSUME NEW id \in opened[q]
      PROVE  Message(id)' = Message(id) /\ id[2] \in DOMAIN sent'[Peer(q)]
  BY <1>1, OpenedFields DEF Grows, Message
<1>3. \A s \in sessions[q] : SessionOK(q, s)' /\ FirstKept(q, s)'
  BY SessionStays, FirstChainStays
<1>4. \A n \in DOMAIN sent[q] : MessageOK(q, sent[q][n])'
  BY MessageStays
<1>5. Distinct(q)' /\ FirstSent(q)' /\ FirstSender(q)' /\ AccountOK(q)'
  BY <1>1 DEF UserInv, Distinct, FirstSent, FirstSender, AccountOK
<1>6. OpenedOK(q)'
  BY <1>1, <1>2 DEF UserInv, OpenedOK
<1> QED  BY <1>3, <1>4, <1>5, <1>6 DEF UserInv

-----------------------------------------------------------------------------
(* The steps *)

\* Two users who have their accounts and nothing else.
LEMMA InitSetup == Init => SetupInv
<1> SUFFICES ASSUME Init PROVE SetupInv
  OBVIOUS
<1>1. \A p \in Party : /\ NewKeys(p) \in AccountState
                       /\ \A k : LookupKey(NewKeys(p), k) <=> k \in OneTimeKeysOf(p)
  BY NewKeysFacts
<1>2. \A p \in Party : IdentityKey(p) + KeysEach + 1 \in Nat \ {0}
  BY KeyNumbers
<1>3. TypeOK
  BY <1>1, <1>2, EmptySeq DEF Init, TypeOK
<1>4. ASSUME NEW p \in Party
      PROVE  UserInv(p)
  <2>1. /\ sessions[p] = {} /\ opened[p] = {} /\ removed[p] = {}
        /\ DOMAIN sent[p] = {} /\ account[p] = NewKeys(p)
    BY EmptySeq DEF Init
  <2>2. Distinct(p) /\ FirstSent(p) /\ FirstSender(p) /\ OpenedOK(p)
    BY <2>1 DEF Distinct, FirstSent, FirstSender, OpenedOK
  <2>3. AccountOK(p)
    BY <1>1, <2>1 DEF AccountOK
  <2> QED  BY <2>1, <2>2, <2>3 DEF UserInv
<1> QED  BY <1>3, <1>4 DEF SetupInv

\* An outbound session is one of its own: its base key is in no session and no message.
LEMMA OutboundFresh ==
    ASSUME SetupInv, NEW p \in Party, NEW keys \in SessionKeys,
           keys.bob_one_time_key \in OneTimeKeysOf(Peer(p)),
           keys.alice_base_key = next_key[p]
    PROVE  /\ \A s \in sessions[p] : s.keys # keys
           /\ \A q \in Party : \A n \in DOMAIN sent[q] : sent[q][n].keys # keys
           /\ \A id \in opened[p] : Message(id).keys # keys
<1>1. Peer(p) \in Party /\ Peer(Peer(p)) = p /\ next_key[p] \in Nat
  BY PeerFacts DEF SetupInv, TypeOK
<1>2. ASSUME NEW secret, Derived(keys, secret)
      PROVE  FALSE
  <2>1. PICK q \in Party : KeysOf(q, keys)
    BY <1>2 DEF Derived
  <2>2. q = Peer(p)
    BY <1>1, <2>1, KeyNumbers DEF KeysOf
  <2>3. next_key[p] < next_key[p]
    BY <1>1, <2>1, <2>2 DEF KeysOf
  <2> QED  BY <1>1, <2>3
<1>3. \A s \in sessions[p] : Derived(s.keys, s.shared_secret)
  BY DEF SetupInv, UserInv, SessionOK
<1>4. \A q \in Party : \A n \in DOMAIN sent[q] :
         Derived(sent[q][n].keys, sent[q][n].shared_secret)
  BY DEF SetupInv, UserInv, MessageOK
<1>5. \A id \in opened[p] : Derived(Message(id).keys, Message(id).shared_secret)
  BY OpenedFields DEF MessageOK
<1> QED  BY <1>2, <1>3, <1>4, <1>5

\* olm_create_outbound_session preserves the invariant.
LEMMA OutboundStep ==
    ASSUME SetupInv, NEW p \in Party, NEW key \in OneTimeKeysOf(Peer(p)), Outbound(p, key)
    PROVE  SetupInv'
<1> DEFINE q == Peer(p)
<1>0. /\ q \in Party /\ q # p /\ Peer(q) = p /\ TypeOK /\ UserInv(p)
      /\ \A r \in Party : r # p => r = q
      /\ next_key[p] \in Nat \ {0}
      /\ IdentityKey(p) \in Nat /\ IdentityKey(q) \in Nat /\ key \in Nat
  BY PeerFacts, KeyNumbers DEF SetupInv, TypeOK
<1>1. PICK base \in Nat : base = next_key[p]
  BY <1>0
<1>2. PICK r : r = InitialiseAsAlice(base + 1)
  OBVIOUS
<1>3. PICK new : new = NewOutboundSession(IdentityKey(p), IdentityKey(q), key, base, base + 1)
  OBVIOUS
<1>4. /\ new.keys = [alice_identity_key |-> IdentityKey(p), alice_base_key |-> base,
                     bob_one_time_key |-> key]
      /\ new.shared_secret = << {IdentityKey(p), key}, {base, IdentityKey(q)}, {base, key} >>
      /\ new.received_message = FALSE
      /\ new.ratchet = r
      /\ new = [keys |-> new.keys, shared_secret |-> new.shared_secret,
                received_message |-> FALSE, ratchet |-> r]
  BY <1>2, <1>3 DEF NewOutboundSession
<1>5. /\ sessions' = [sessions EXCEPT ![p] = sessions[p] \union {new}]
      /\ next_key' = [next_key EXCEPT ![p] = base + 2]
      /\ UNCHANGED <<account, removed, sent, opened, decrypted>>
  BY <1>1, <1>3 DEF Outbound
<1>6. /\ r \in RatchetState /\ KeysApart(r) /\ Turns(r, 1)
      /\ r.root_key = <<>> /\ r.sender_chain # <<>>
  <2>1. base + 1 \in RatchetKey
    BY DEF RatchetKey
  <2> QED  BY <1>2, <2>1, OutboundRatchet DEF InitialiseAsAlice
<1>7. new.keys \in SessionKeys
  BY <1>0, <1>4 DEF SessionKeys, PublicKey
<1>8. new \in SessionState
  <2>1. new.shared_secret \in Seq(Secret)
    <3>1. /\ {IdentityKey(p), key} \in Secret /\ {base, IdentityKey(q)} \in Secret
          /\ {base, key} \in Secret
      BY <1>0 DEF Secret, RatchetKey
    <3> QED  BY <1>4, <3>1
  <2> QED  BY <1>4, <1>6, <1>7, <2>1 DEF SessionState
<1>9. /\ sessions'[p] = sessions[p] \union {new} /\ sessions'[q] = sessions[q]
      /\ next_key'[p] = base + 2 /\ next_key'[q] = next_key[q]
  BY <1>0, <1>5 DEF TypeOK
<1>10. TypeOK' /\ Grows
  <2>1. TypeOK'
    BY <1>0, <1>5, <1>8 DEF TypeOK
  <2>2. \A u \in Party : next_key'[u] \in Nat /\ next_key[u] <= next_key'[u]
    <3>1. next_key'[p] \in Nat /\ next_key[p] <= next_key'[p]
      BY <1>1, <1>9
    <3>2. next_key[q] \in Nat
      BY <1>0 DEF TypeOK
    <3>3. next_key'[q] \in Nat /\ next_key[q] <= next_key'[q]
      BY <1>9, <3>2
    <3> QED  BY <1>0, <3>1, <3>3
  <2> QED  BY <1>5, <2>1, <2>2 DEF Grows
<1>11. /\ \A s \in sessions[p] : s.keys # new.keys
       /\ \A n \in DOMAIN sent[p] : sent[p][n].keys # new.keys
       /\ \A id \in opened[p] : Message(id).keys # new.keys
  <2>1. new.keys.bob_one_time_key = key /\ new.keys.alice_base_key = next_key[p]
    BY <1>1, <1>4
  <2>2. PICK keys \in SessionKeys : keys = new.keys
    BY <1>7
  <2> QED  BY <1>0, <2>1, <2>2, OutboundFresh
<1>12. UserInv(p)'
  <2>1. SessionOK(p, new)' /\ FirstKept(p, new)'
    <3>1. TurnOf(p, new.keys) = 1
      <4>1. key \notin OneTimeKeysOf(p)
        BY <1>0, KeyNumbers
      <4> QED  BY <1>4, <4>1 DEF TurnOf
    <3>2. KeysOf(q, new.keys)' /\ new.shared_secret = Agreed(q, new.keys)
      BY <1>0, <1>4, <1>9 DEF KeysOf, Agreed
    <3>3. Derived(new.keys, new.shared_secret)'
      BY <1>0, <3>2 DEF Derived, Agreed
    <3> QED  BY <1>4, <1>6, <3>1, <3>3 DEF SessionOK, FirstKept
  <2>2. \A s \in sessions'[p] : SessionOK(p, s)' /\ FirstKept(p, s)'
    BY <1>5, <1>9, <1>10, <2>1, SessionStays, FirstChainStays
  <2>3. Distinct(p)'
    BY <1>0, <1>9, <1>11 DEF UserInv, Distinct
  <2>4. \A n \in DOMAIN sent'[p] : MessageOK(p, sent[p][n])'
    BY <1>5, <1>10, MessageStays
  <2>5. FirstSent(p)' /\ AccountOK(p)'
    BY <1>0, <1>5 DEF UserInv, FirstSent, AccountOK
  <2>6. FirstSender(p)'
    BY <1>0, <1>5, <1>9, <1>11 DEF UserInv, FirstSender
  <2>7. OpenedOK(p)'
    BY <1>0, <1>5, <1>9, <1>11 DEF UserInv, OpenedOK, Message
  <2> QED  BY <2>2, <2>3, <2>4, <2>5, <2>6, <2>7 DEF UserInv
<1>13. UserInv(q)'
  BY <1>0, <1>5, <1>9, <1>10, OtherUser
<1> QED  BY <1>0, <1>10, <1>12, <1>13 DEF SetupInv

\* The keys in front of an arriving message are those of the message, or one is damaged.
LEMMA ArrivingKeys ==
    ASSUME NEW m \in SessionMessage,
           NEW a \in {m} \union DamagedKeys(m) \union DamagedBody(m)
    PROVE  /\ a.keys \in SessionKeys
           /\ a.body.ratchet_key \in RatchetKey
           /\ a.keys.alice_identity_key \in {m.keys.alice_identity_key, Garbage}
           /\ a.keys.alice_base_key \in {m.keys.alice_base_key, Garbage}
           /\ a.keys.bob_one_time_key \in {m.keys.bob_one_time_key, Garbage}
<1>0. /\ m \in [type : {PRE_KEY, MESSAGE}, keys : SessionKeys,
                shared_secret : Seq(Secret), body : WireMessage]
      /\ m.keys \in [alice_identity_key : PublicKey, alice_base_key : PublicKey,
                     bob_one_time_key : PublicKey]
      /\ m.body \in [ratchet_key : RatchetKey, counter : Nat, sealed_with : MessageKey]
      /\ Garbage \in PublicKey /\ Garbage \in RatchetKey
  BY MessageFields DEF SessionKeys, Garbage, PublicKey, RatchetKey
<1>1. CASE a = m
  BY <1>0, <1>1 DEF SessionKeys
<1>2. CASE a \in DamagedKeys(m)
  <2>1. /\ a.body = m.body
        /\ \/ a.keys = [m.keys EXCEPT !.alice_identity_key = Garbage]
           \/ a.keys = [m.keys EXCEPT !.alice_base_key = Garbage]
           \/ a.keys = [m.keys EXCEPT !.bob_one_time_key = Garbage]
    BY <1>0, <1>2 DEF DamagedKeys
  <2> QED  BY <1>0, <2>1 DEF SessionKeys
<1>3. CASE a \in DamagedBody(m)
  <2>1. /\ a.keys = m.keys
        /\ a.body.ratchet_key \in {m.body.ratchet_key, Garbage}
    <3>1. PICK body : /\ a = [m EXCEPT !.body = body]
                      /\ \/ body = [m.body EXCEPT !.sealed_with = NoKey]
                         \/ body = [[m.body EXCEPT !.sealed_with = NoKey]
                                       EXCEPT !.ratchet_key = Garbage]
      BY <1>3 DEF DamagedBody
    <3>2. body.ratchet_key \in {m.body.ratchet_key, Garbage}
      BY <1>0, <3>1
    <3> QED  BY <1>0, <3>1, <3>2
  <2> QED  BY <1>0, <2>1 DEF SessionKeys
<1> QED  BY <1>1, <1>2, <1>3

\* olm_create_inbound_session preserves the invariant, whatever message it is given.
LEMMA InboundStep ==
    ASSUME SetupInv, NEW p \in Party, NEW id \in Sent, NEW message \in Arriving(id),
           NEW expected, Inbound(p, expected, message)
    PROVE  SetupInv'
<1> DEFINE q == Peer(p)
           o == message.keys.bob_one_time_key
<1>0. /\ q \in Party /\ q # p /\ Peer(q) = p /\ TypeOK /\ UserInv(p)
      /\ \A r \in Party : r # p => r = q
      /\ next_key[q] \in Nat \ {0}
  BY PeerFacts DEF SetupInv, TypeOK
<1>1. PICK m \in SessionMessage :
         /\ m = sent[id[1]][id[2]] /\ MessageOK(id[1], m)
         /\ message \in {m} \union DamagedKeys(m) \union DamagedBody(m)
  <2>1. id[1] \in Party /\ id[2] \in DOMAIN sent[id[1]]
    BY DEF Sent, Ids
  <2> QED  BY <1>0, <2>1, SentFields DEF SetupInv, UserInv, Arriving, Intact
<1>2. /\ message.keys \in SessionKeys
      /\ message.body.ratchet_key \in RatchetKey
      /\ message.keys.alice_identity_key \in {m.keys.alice_identity_key, Garbage}
      /\ message.keys.alice_base_key \in {m.keys.alice_base_key, Garbage}
      /\ o \in {m.keys.bob_one_time_key, Garbage}
  BY <1>1, ArrivingKeys
<1>3. o \in OneTimeKeysOf(p) /\ LookupKey(account[p], o)
  <2>1. LookupKey(account[p], o) /\ o \in Nat
    BY <1>2 DEF Inbound, AcceptsInbound, SessionKeys, PublicKey
  <2> QED  BY <1>0, <2>1 DEF UserInv, AccountOK
<1>4. KeysOf(p, message.keys)
  <2>1. o = m.keys.bob_one_time_key
    BY <1>2, <1>3, KeyNumbers DEF Garbage
  <2>2. PICK r \in Party : KeysOf(r, m.keys)
    BY <1>1 DEF MessageOK, Derived
  <2>3. r = p
    BY <1>3, <2>1, <2>2, KeyNumbers DEF KeysOf
  <2>4. Garbage < next_key[q]
    BY <1>0 DEF Garbage
  <2> QED  BY <1>2, <1>3, <2>2, <2>3, <2>4 DEF KeysOf
<1>5. PICK r : r = InitialiseAsBob(message.body.ratchet_key)
  OBVIOUS
<1>6. PICK new : new = NewInboundSession(IdentityKey(p), message)
  OBVIOUS
<1>7. /\ new.keys = message.keys
      /\ new.shared_secret = Agreed(p, message.keys)
      /\ new.received_message = FALSE
      /\ new.ratchet = r
      /\ new = [keys |-> new.keys, shared_secret |-> new.shared_secret,
                received_message |-> FALSE, ratchet |-> r]
  BY <1>5, <1>6 DEF NewInboundSession, Agreed
<1>8. /\ sessions' = [sessions EXCEPT ![p] = sessions[p] \union {new}]
      /\ UNCHANGED <<account, next_key, removed, sent, opened, decrypted>>
      /\ \A s \in sessions[p] : s.keys # new.keys
  BY <1>6, <1>7 DEF Inbound, MatchesInboundSession
<1>9. /\ r \in RatchetState /\ KeysApart(r) /\ Turns(r, 0)
      /\ OnlyFirst(r) /\ r.receiver_chains[1].chain_key.index = 0
  <2>1. /\ r.receiver_chains = <<FirstChain(message.body.ratchet_key)>>
        /\ r.skipped_message_keys = <<>>
    BY <1>5 DEF InitialiseAsBob
  <2>2. /\ Len(r.receiver_chains) = 1 /\ r.receiver_chains[1] = FirstChain(message.body.ratchet_key)
        /\ Len(r.skipped_message_keys) = 0
    BY <2>1, EmptySeq
  <2>3. OnlyFirst(r) /\ r.receiver_chains[1].chain_key.index = 0
    BY <2>2 DEF OnlyFirst, FirstChain
  <2> QED  BY <1>2, <1>5, <2>3, InboundRatchet
<1>10. new \in SessionState
  <2>1. new.shared_secret \in Seq(Secret)
    <3>1. /\ message.keys.alice_identity_key \in Nat /\ message.keys.alice_base_key \in Nat
          /\ o \in Nat /\ IdentityKey(p) \in Nat
      BY <1>2, KeyNumbers DEF SessionKeys, PublicKey
    <3>2. /\ {message.keys.alice_identity_key, o} \in Secret
          /\ {message.keys.alice_base_key, IdentityKey(p)} \in Secret
          /\ {message.keys.alice_base_key, o} \in Secret
      BY <3>1 DEF Secret, RatchetKey
    <3> QED  BY <1>7, <3>2 DEF Agreed
  <2> QED  BY <1>2, <1>7, <1>9, <2>1 DEF SessionState
<1>11. sessions'[p] = sessions[p] \union {new} /\ sessions'[q] = sessions[q]
  BY <1>0, <1>8 DEF TypeOK
<1>12. TypeOK' /\ Grows
  <2>1. TypeOK'
    BY <1>0, <1>8, <1>10 DEF TypeOK
  <2>2. \A u \in Party : next_key'[u] \in Nat /\ next_key[u] <= next_key'[u]
    BY <1>0, <1>8 DEF TypeOK
  <2> QED  BY <1>8, <2>1, <2>2 DEF Grows
<1>13. TurnOf(p, new.keys) = 0
  BY <1>3, <1>7 DEF TurnOf
<1>14. \A i \in opened[p] : Message(i).keys # new.keys
  BY <1>0, <1>3, <1>7, <1>8 DEF UserInv, OpenedOK
<1>15. UserInv(p)'
  <2>1. SessionOK(p, new)' /\ FirstKept(p, new)'
    <3>1. Derived(new.keys, new.shared_secret)'
      BY <1>4, <1>7, <1>8 DEF Derived, KeysOf
    <3>2. SessionOK(p, new)'
      BY <1>7, <1>9, <1>13, <3>1 DEF SessionOK
    <3>3. \A i \in opened'[p] : Message(i)'.keys # new.keys
      BY <1>8, <1>14 DEF Message
    <3>4. \A c \in Nat : ~(c < r.receiver_chains[1].chain_key.index)
      BY <1>9
    <3> QED  BY <1>7, <1>9, <3>2, <3>3, <3>4 DEF FirstKept
  <2>2. \A s \in sessions'[p] : SessionOK(p, s)' /\ FirstKept(p, s)'
    BY <1>8, <1>11, <1>12, <2>1, SessionStays, FirstChainStays
  <2>3. Distinct(p)'
    BY <1>0, <1>8, <1>11 DEF UserInv, Distinct
  <2>4. \A n \in DOMAIN sent'[p] : MessageOK(p, sent[p][n])'
    BY <1>8, <1>12, MessageStays
  <2>5. FirstSent(p)' /\ AccountOK(p)'
    BY <1>0, <1>8 DEF UserInv, FirstSent, AccountOK
  <2>6. FirstSender(p)'
    <3>1. ASSUME NEW n \in DOMAIN sent[p], sent[p][n].keys = new.keys
          PROVE  sent[p][n].body.sealed_with.key # <<>>
      <4>1. MessageOK(p, sent[p][n])
        BY <1>0 DEF UserInv
      <4>2. ~OnTurn(sent[p][n].body.sealed_with.key, 0)
        BY <1>13, <3>1, <4>1 DEF MessageOK
      <4>3. OnTurn(<<>>, 0)
        BY EmptySeq DEF OnTurn
      <4> QED  BY <4>2, <4>3
    <3> QED  BY <1>0, <1>8, <1>11, <3>1 DEF UserInv, FirstSender
  <2>7. OpenedOK(p)'
    BY <1>0, <1>8, <1>11, <1>14 DEF UserInv, OpenedOK, Message
  <2> QED  BY <2>2, <2>3, <2>4, <2>5, <2>6, <2>7 DEF UserInv
<1>16. UserInv(q)'
  BY <1>0, <1>8, <1>11, <1>12, OtherUser
<1> QED  BY <1>0, <1>12, <1>15, <1>16 DEF SetupInv

\* A message sealed with a key of the first chain is of a ratchet still on its first
\* chain, which does not leave it.
LEMMA FirstSealed ==
    ASSUME NEW r \in RatchetState, NEW t \in {0, 1}, Turns(r, t), NEW new_key \in RatchetKey,
           NEW after, after = AfterEncrypt(r, new_key),
           NEW body, body = Encrypted(r, new_key)
    PROVE  /\ after.receiver_chains = r.receiver_chains
           /\ after.skipped_message_keys = r.skipped_message_keys
           /\ after.sender_chain # <<>>
           /\ body.counter = body.sealed_with.index
           /\ body.counter \in Nat
           /\ body.sealed_with.key = after.root_key
           /\ after.sender_chain[1].ratchet_key = body.ratchet_key
           /\ after.sender_chain[1].chain_key.index = body.counter + 1
           /\ r.sender_chain # <<>> => after.root_key = r.root_key
           /\ after.root_key = <<>> =>
                 /\ r.root_key = <<>>
                 /\ body.ratchet_key = r.sender_chain[1].ratchet_key
                 /\ body.counter = r.sender_chain[1].chain_key.index
<1>1. NeedsRatchetKey(r) => r.receiver_chains # <<>>
  BY DEF Turns, NeedsRatchetKey
<1>2. /\ after.sender_chain # <<>>
      /\ after.receiver_chains = r.receiver_chains
      /\ after.skipped_message_keys = r.skipped_message_keys
      /\ IF NeedsRatchetKey(r)
         THEN /\ Len(after.root_key) = Len(r.root_key) + 1
              /\ body.sealed_with.key = after.root_key
         ELSE /\ after.root_key = r.root_key
              /\ body.sealed_with.key = r.sender_chain[1].chain_key.key
              /\ body.sealed_with.index = r.sender_chain[1].chain_key.index
              /\ body.ratchet_key = r.sender_chain[1].ratchet_key
      /\ after.sender_chain[1].ratchet_key = body.ratchet_key
      /\ after.sender_chain[1].chain_key.index = body.sealed_with.index + 1
      /\ body \in WireMessage
  BY <1>1, EncryptFields
<1>3. body.counter = body.sealed_with.index /\ body.counter \in Nat
  BY <1>2, EncryptNames DEF WireMessage
<1>4. CASE NeedsRatchetKey(r)
  <2>1. after.root_key # <<>>
    BY <1>2, <1>4, RatchetFields, EmptySeq
  <2> QED  BY <1>2, <1>3, <1>4, <2>1 DEF NeedsRatchetKey
<1>5. CASE ~NeedsRatchetKey(r)
  <2>1. r.sender_chain[1].chain_key.key = r.root_key
    BY <1>5 DEF Turns, NeedsRatchetKey
  <2> QED  BY <1>2, <1>3, <1>5, <2>1
<1> QED  BY <1>4, <1>5

\* olm_encrypt preserves the invariant.
LEMMA EncryptStep ==
    ASSUME SetupInv, NEW p \in Party, NEW s \in sessions[p], Encrypt(p, s)
    PROVE  SetupInv'
<1> DEFINE q == Peer(p)
<1>0. /\ q \in Party /\ q # p /\ Peer(q) = p /\ TypeOK /\ UserInv(p)
      /\ \A u \in Party : u # p => u = q
      /\ next_key[p] \in Nat \ {0}
      /\ SessionOK(p, s) /\ FirstKept(p, s) /\ Distinct(p)
  BY PeerFacts DEF SetupInv, TypeOK, UserInv
<1>1. PICK key \in RatchetKey : key = next_key[p] /\ key \in Nat
  BY <1>0 DEF RatchetKey
<1>2. /\ s \in [keys : SessionKeys, shared_secret : Seq(Secret),
                received_message : BOOLEAN, ratchet : RatchetState]
      /\ s.keys \in SessionKeys /\ s.shared_secret \in Seq(Secret)
      /\ s.received_message \in BOOLEAN
  BY <1>0, SessionFields DEF TypeOK
<1>3. PICK t \in {0, 1} : t = TurnOf(p, s.keys)
  BY DEF TurnOf
<1>4. PICK r \in RatchetState : r = s.ratchet /\ KeysApart(r) /\ Turns(r, t)
  BY <1>0, <1>2, <1>3 DEF SessionOK
<1>5. PICK after : after = AfterEncrypt(r, key)
  OBVIOUS
<1>6. PICK body : body = Encrypted(r, key)
  OBVIOUS
<1>7. PICK m : m = EncryptedMessage(s, key)
  OBVIOUS
<1>8. PICK new : new = SessionAfterEncrypt(s, key)
  OBVIOUS
<1>9. /\ after \in RatchetState /\ KeysApart(after) /\ Turns(after, t)
      /\ \A message_key : Gone(r, message_key) => Gone(after, message_key)
      /\ body \in WireMessage
      /\ ~OnTurn(body.sealed_with.key, t)
  BY <1>4, <1>5, <1>6, EncryptKeys
<1>10. /\ after.receiver_chains = r.receiver_chains
       /\ after.skipped_message_keys = r.skipped_message_keys
       /\ after.sender_chain # <<>>
       /\ body.counter = body.sealed_with.index
       /\ body.counter \in Nat
       /\ body.sealed_with.key = after.root_key
       /\ after.sender_chain[1].ratchet_key = body.ratchet_key
       /\ after.sender_chain[1].chain_key.index = body.counter + 1
       /\ r.sender_chain # <<>> => after.root_key = r.root_key
       /\ after.root_key = <<>> =>
             /\ r.root_key = <<>>
             /\ body.ratchet_key = r.sender_chain[1].ratchet_key
             /\ body.counter = r.sender_chain[1].chain_key.index
  BY <1>4, <1>5, <1>6, FirstSealed
<1>11. /\ m = [type          |-> IF s.received_message THEN MESSAGE ELSE PRE_KEY,
               keys          |-> s.keys,
               shared_secret |-> s.shared_secret,
               body          |-> body]
       /\ m \in SessionMessage
  BY <1>2, <1>4, <1>6, <1>7, <1>9 DEF EncryptedMessage, EncryptMessageType, SessionMessage
<1>12. /\ new = [keys |-> s.keys, shared_secret |-> s.shared_secret,
                 received_message |-> s.received_message, ratchet |-> after]
       /\ new \in SessionState
  <2>1. new = [s EXCEPT !.ratchet = after]
    BY <1>4, <1>5, <1>8 DEF SessionAfterEncrypt
  <2> QED  BY <1>2, <1>9, <2>1 DEF SessionState
<1>13. /\ sent' = [sent EXCEPT ![p] = Append(sent[p], m)]
       /\ sessions' = [sessions EXCEPT ![p] = (sessions[p] \ {s}) \union {new}]
       /\ next_key' = [next_key EXCEPT ![p] = IF NeedsRatchetKey(s.ratchet)
                                              THEN key + 1 ELSE key]
       /\ UNCHANGED <<account, removed, opened, decrypted>>
  BY <1>1, <1>7, <1>8 DEF Encrypt
<1>14. PICK l \in Nat : /\ l = Len(sent[p]) /\ DOMAIN sent[p] = 1..l
                        /\ sent[p] \in Seq(SessionMessage)
  BY <1>0, SentFields
<1>15. /\ Append(sent[p], m) \in Seq(SessionMessage)
       /\ DOMAIN Append(sent[p], m) = 1 .. l + 1
       /\ \A n \in 1..l : Append(sent[p], m)[n] = sent[p][n]
       /\ Append(sent[p], m)[l + 1] = m
  BY <1>11, <1>14, AppendProperties
<1>16. /\ sessions'[p] = (sessions[p] \ {s}) \union {new} /\ sessions'[q] = sessions[q]
       /\ sent'[p] = Append(sent[p], m) /\ sent'[q] = sent[q]
       /\ next_key'[p] = (IF NeedsRatchetKey(s.ratchet) THEN key + 1 ELSE key)
       /\ next_key'[q] = next_key[q]
  BY <1>0, <1>13 DEF TypeOK
<1>17. /\ DOMAIN sent'[p] = 1 .. l + 1
       /\ \A n \in 1..l : sent'[p][n] = sent[p][n]
       /\ sent'[p][l + 1] = m
       /\ \A n \in DOMAIN sent'[p] : n = l + 1 \/ n \in DOMAIN sent[p]
  BY <1>14, <1>15, <1>16
<1>18. TypeOK' /\ Grows
  <2>1. \A u \in Party : next_key'[u] \in Nat \ {0} /\ next_key[u] <= next_key'[u]
    <3>1. next_key'[p] \in Nat \ {0} /\ next_key[p] <= next_key'[p]
      BY <1>0, <1>1, <1>16
    <3>2. next_key[q] \in Nat \ {0}
      BY <1>0 DEF TypeOK
    <3>3. next_key'[q] \in Nat \ {0} /\ next_key[q] <= next_key'[q]
      BY <1>16, <3>2
    <3> QED  BY <1>0, <3>1, <3>3
  <2>2. TypeOK'
    <3>1. next_key' \in [Party -> Nat \ {0}]
      BY <1>0, <1>13, <2>1 DEF TypeOK
    <3> QED  BY <1>0, <1>12, <1>13, <1>15, <3>1 DEF TypeOK
  <2>3. \A u \in Party : \A n \in DOMAIN sent[u] : n \in DOMAIN sent'[u] /\ sent'[u][n] = sent[u][n]
    <3>1. \A n \in DOMAIN sent[p] : n \in DOMAIN sent'[p] /\ sent'[p][n] = sent[p][n]
      BY <1>14, <1>17
    <3> QED  BY <1>0, <1>16, <3>1
  <2> QED  BY <1>13, <2>1, <2>2, <2>3 DEF Grows
<1>19. Derived(s.keys, s.shared_secret)'
  BY <1>0, <1>2, <1>18, DerivedStays DEF SessionOK
<1>20. \A id \in opened[p] : Message(id)' = Message(id) /\ id[2] \in DOMAIN sent'[q]
  BY <1>0, <1>16, OpenedFields DEF Message
<1>21. SessionOK(p, new)'
  <2>1. SessionOK(p, s)'
    BY <1>18, SessionStays
  <2>2. t = 1 /\ ~s.received_message => after.root_key = <<>>
    BY <1>0, <1>3, <1>4, <1>10 DEF SessionOK
  <2> QED  BY <1>3, <1>9, <1>10, <1>12, <1>19, <2>1, <2>2 DEF SessionOK
<1>22. FirstKept(p, new)'
  <2>1. FirstKept(p, s)'
    BY <1>13, <1>18, FirstChainStays
  <2>2. /\ new.keys = s.keys
        /\ new.ratchet.receiver_chains = s.ratchet.receiver_chains
        /\ new.ratchet.skipped_message_keys = s.ratchet.skipped_message_keys
    BY <1>4, <1>10, <1>12
  <2> QED  BY <2>1, <2>2 DEF FirstKept, OnlyFirst, Held
<1>23. MessageOK(p, m)'
  <2>1. m.type = PRE_KEY /\ t = 1 => after.root_key = <<>>
    BY <1>0, <1>2, <1>3, <1>4, <1>10, <1>11 DEF SessionOK, PRE_KEY, MESSAGE
  <2> QED  BY <1>3, <1>9, <1>10, <1>11, <1>19, <2>1 DEF MessageOK
<1>24. \A n \in DOMAIN sent[p] :
          /\ sent[p][n].keys = s.keys
          /\ sent[p][n].body.sealed_with.key = <<>>
          /\ r.root_key = <<>>
          => /\ sent[p][n].body.ratchet_key = r.sender_chain[1].ratchet_key
             /\ sent[p][n].body.counter < r.sender_chain[1].chain_key.index
  BY <1>0, <1>4 DEF UserInv, FirstSender
<1>25. ASSUME NEW n \in DOMAIN sent[p], sent[p][n].keys = s.keys,
              sent[p][n].body.sealed_with.key = <<>>, after.root_key = <<>>
       PROVE  /\ sent[p][n].body.ratchet_key = body.ratchet_key
              /\ sent[p][n].body.counter < body.counter
  BY <1>10, <1>24, <1>25
<1>26. FirstSent(p)'
  <2>1. \A n \in DOMAIN sent[p] : sent[p][n].body.counter \in Nat
    BY <1>0, SentFields, MessageFields DEF Header
  <2> SUFFICES ASSUME NEW n \in DOMAIN sent'[p], NEW k \in DOMAIN sent'[p],
                      sent'[p][n].keys = sent'[p][k].keys,
                      sent'[p][n].body.sealed_with.key = <<>>,
                      sent'[p][k].body.sealed_with.key = <<>>
               PROVE  /\ sent'[p][n].body.ratchet_key = sent'[p][k].body.ratchet_key
                      /\ sent'[p][n].body.counter = sent'[p][k].body.counter => n = k
    BY DEF FirstSent
  <2>2. CASE n \in DOMAIN sent[p] /\ k \in DOMAIN sent[p]
    <3>1. sent'[p][n] = sent[p][n] /\ sent'[p][k] = sent[p][k]
      BY <1>14, <1>17, <2>2
    <3>2. FirstSent(p)
      BY <1>0 DEF UserInv
    <3> QED  BY <2>2, <3>1, <3>2 DEF FirstSent
  <2>3. CASE n = l + 1 /\ k = l + 1
    BY <2>3
  <2>4. CASE n \in DOMAIN sent[p] /\ k = l + 1
    <3>1. /\ sent[p][n].keys = s.keys /\ sent[p][n].body.sealed_with.key = <<>>
          /\ after.root_key = <<>>
          /\ sent'[p][n] = sent[p][n] /\ sent'[p][k].body = body
      BY <1>10, <1>11, <1>14, <1>17, <2>4
    <3> QED  BY <1>10, <1>25, <2>1, <2>4, <3>1
  <2>5. CASE k \in DOMAIN sent[p] /\ n = l + 1
    <3>1. /\ sent[p][k].keys = s.keys /\ sent[p][k].body.sealed_with.key = <<>>
          /\ after.root_key = <<>>
          /\ sent'[p][k] = sent[p][k] /\ sent'[p][n].body = body
      BY <1>10, <1>11, <1>14, <1>17, <2>5
    <3> QED  BY <1>10, <1>25, <2>1, <2>5, <3>1
  <2> QED  BY <1>17, <2>2, <2>3, <2>4, <2>5
<1>27. FirstSender(p)'
  <2> SUFFICES ASSUME NEW n \in DOMAIN sent'[p], NEW u \in sessions'[p],
                      sent'[p][n].keys = u.keys,
                      sent'[p][n].body.sealed_with.key = <<>>,
                      u.ratchet.root_key = <<>>
               PROVE  /\ sent'[p][n].body.ratchet_key = u.ratchet.sender_chain[1].ratchet_key
                      /\ sent'[p][n].body.counter < u.ratchet.sender_chain[1].chain_key.index
    BY DEF FirstSender
  <2>1. \A k \in DOMAIN sent[p] : sent[p][k].body.counter \in Nat
    BY <1>0, SentFields, MessageFields DEF Header
  <2>2. CASE u \in sessions[p] \ {s}
    <3>1. n \in DOMAIN sent[p]
      BY <1>0, <1>11, <1>17, <2>2 DEF Distinct
    <3> QED  BY <1>0, <1>14, <1>17, <2>2, <3>1 DEF UserInv, FirstSender
  <2>3. CASE u = new
    <3>1. u.ratchet = after /\ after.root_key = <<>> /\ u.keys = s.keys
      BY <1>12, <2>3
    <3>2. CASE n = l + 1
      <4>1. sent'[p][n].body = body
        BY <1>11, <1>17, <3>2
      <4> QED  BY <1>10, <3>1, <4>1
    <3>3. CASE n \in DOMAIN sent[p]
      <4>1. sent'[p][n] = sent[p][n]
        BY <1>14, <1>17, <3>3
      <4> QED  BY <1>10, <1>25, <2>1, <3>1, <3>3, <4>1
    <3> QED  BY <1>17, <3>2, <3>3
  <2> QED  BY <1>16, <2>2, <2>3
<1>28. OpenedOK(p)'
  <2> SUFFICES ASSUME NEW id \in opened[p]
               PROVE  /\ id[1] = Peer(p)
                      /\ id[2] \in DOMAIN sent'[Peer(p)]
                      /\ \A u \in sessions'[p] :
                            u.keys = Message(id).keys
                               => Gone(u.ratchet, Message(id).body.sealed_with)
                      /\ LookupKey(account[p], Message(id).keys.bob_one_time_key) =>
                            \E u \in sessions'[p] : u.keys = Message(id).keys /\ u.received_message
    BY <1>13, <1>20 DEF OpenedOK
  <2>1. /\ \A u \in sessions[p] :
              u.keys = Message(id).keys => Gone(u.ratchet, Message(id).body.sealed_with)
        /\ LookupKey(account[p], Message(id).keys.bob_one_time_key) =>
              \E u \in sessions[p] : u.keys = Message(id).keys /\ u.received_message
    BY <1>0 DEF UserInv, OpenedOK
  <2>2. new.keys = Message(id).keys => Gone(new.ratchet, Message(id).body.sealed_with)
    BY <1>4, <1>9, <1>12, <2>1
  <2> QED  BY <1>12, <1>16, <1>20, <2>1, <2>2, OpenedFields
<1>29. UserInv(p)'
  <2>1. \A u \in sessions'[p] : SessionOK(p, u)' /\ FirstKept(p, u)'
    BY <1>13, <1>16, <1>18, <1>21, <1>22, SessionStays, FirstChainStays
  <2>2. Distinct(p)'
    BY <1>0, <1>12, <1>16 DEF Distinct
  <2>3. \A n \in DOMAIN sent'[p] : MessageOK(p, sent[p][n])'
    <3>1. \A n \in DOMAIN sent[p] : MessageOK(p, sent[p][n])'
      BY <1>18, MessageStays
    <3>2. MessageOK(p, sent[p][l + 1])'
      BY <1>17, <1>23 DEF MessageOK
    <3> QED  BY <1>17, <3>1, <3>2
  <2>4. AccountOK(p)'
    BY <1>0, <1>13 DEF UserInv, AccountOK
  <2> QED  BY <1>26, <1>27, <1>28, <2>1, <2>2, <2>3, <2>4 DEF UserInv
<1>30. UserInv(q)'
  BY <1>0, <1>13, <1>16, <1>18, OtherUser
<1> QED  BY <1>0, <1>18, <1>29, <1>30 DEF SetupInv

\* What a session opens is a message of its own conversation, from its other end, as
\* that sent it, and for the first time.
LEMMA ReceiveOpens ==
    ASSUME SetupInv, NEW p \in Party, NEW s \in sessions[p], NEW id \in Sent,
           NEW message \in BodyArriving(id), DecryptMessage(s, message).ok
    PROVE  /\ message = Message(id) /\ message \in SessionMessage
           /\ MessageOK(Peer(p), message)
           /\ id[1] = Peer(p) /\ id[2] \in DOMAIN sent[Peer(p)] /\ id \in Party \X Nat
           /\ message.keys = s.keys /\ message.shared_secret = s.shared_secret
           /\ id \notin opened[p]
<1>0. /\ TypeOK /\ SessionOK(p, s) /\ s \in SessionState /\ s.keys \in SessionKeys
      /\ OpenedOK(p)
  BY SessionFields DEF SetupInv, UserInv, TypeOK
<1>1. id \in Party \X Nat /\ id[1] \in Party /\ id[2] \in DOMAIN sent[id[1]]
  BY DEF Sent, Ids
<1>2. PICK m \in SessionMessage : /\ m = Message(id) /\ MessageOK(id[1], m)
                                  /\ message \in {m} \union DamagedBody(m)
  BY <1>0, <1>1, SentFields DEF SetupInv, UserInv, BodyArriving, Intact, Message
<1>3. PICK t \in {0, 1} : t = TurnOf(p, s.keys)
  BY DEF TurnOf
<1>4. KeysApart(s.ratchet) /\ Turns(s.ratchet, t) /\ s.ratchet \in RatchetState
  BY <1>0, <1>3, SessionFields DEF SessionOK
<1>5. message = m
  BY <1>0, <1>2, <1>4, OnlyIntact
<1>6. m.body \in [ratchet_key : RatchetKey, counter : Nat, sealed_with : MessageKey]
      /\ Header(m.body) /\ m.keys \in SessionKeys
  BY MessageFields
<1>7. /\ m.shared_secret = s.shared_secret
      /\ CanDecrypt(s.ratchet, m.body)
      /\ OnTurn(m.body.sealed_with.key, t)
  <2>1. PICK result : result = DecryptMessage(s, m) /\ result.ok
    BY <1>5
  <2>2. PICK S : S = MessageKey
    OBVIOUS
  <2> QED  BY <1>0, <1>4, <1>6, <2>1, <2>2, ReadOne DEF Outcome
<1>8. m.keys = s.keys
  BY <1>0, <1>2, <1>6, <1>7, KeysNameSecrets DEF SessionOK, MessageOK
<1>9. id[1] = Peer(p)
  <2>1. id[1] # p
    BY <1>2, <1>3, <1>7, <1>8 DEF MessageOK
  <2> QED  BY <1>1, <2>1, PeerFacts
<1>10. id \notin opened[p]
  <2>1. ASSUME id \in opened[p]
        PROVE  Gone(s.ratchet, m.body.sealed_with)
    BY <1>0, <1>2, <1>8, <2>1 DEF OpenedOK
  <2> QED  BY <1>4, <1>6, <1>7, <2>1, GoneIsRefused
<1> QED  BY <1>1, <1>2, <1>5, <1>7, <1>8, <1>9, <1>10

\* olm_decrypt preserves the invariant.
LEMMA ReceiveStep ==
    ASSUME SetupInv, NEW p \in Party, NEW s \in sessions[p], NEW id \in Sent,
           NEW message \in BodyArriving(id), Receive(p, s, id, message)
    PROVE  SetupInv'
<1> DEFINE q == Peer(p)
<1>0. /\ q \in Party /\ q # p /\ Peer(q) = p /\ TypeOK /\ UserInv(p)
      /\ \A u \in Party : u # p => u = q
      /\ SessionOK(p, s) /\ FirstKept(p, s) /\ Distinct(p)
      /\ s \in SessionState /\ s.keys \in SessionKeys /\ s.ratchet \in RatchetState
  BY PeerFacts, SessionFields DEF SetupInv, TypeOK, UserInv
<1>1. PICK result : result = DecryptMessage(s, message)
  OBVIOUS
<1>2. /\ sessions' = [sessions EXCEPT ![p] = (sessions[p] \ {s}) \union {result.session}]
      /\ opened' = IF result.ok THEN [opened EXCEPT ![p] = opened[p] \union {id}] ELSE opened
      /\ decrypted' = IF result.ok THEN [decrypted EXCEPT ![p] = @ + 1] ELSE decrypted
      /\ UNCHANGED <<account, next_key, removed, sent>>
  BY <1>1 DEF Receive
<1>3. PICK t \in {0, 1} : t = TurnOf(p, s.keys)
  BY DEF TurnOf
<1>4. KeysApart(s.ratchet) /\ Turns(s.ratchet, t)
  BY <1>0, <1>3 DEF SessionOK
<1>5. PICK S : message.body \in [ratchet_key : RatchetKey, counter : Nat, sealed_with : S]
  <2>1. id[1] \in Party /\ id[2] \in DOMAIN sent[id[1]]
    BY DEF Sent, Ids
  <2>2. PICK m \in SessionMessage : message \in {m} \union DamagedBody(m)
    BY <1>0, <2>1, SentFields DEF BodyArriving, Intact
  <2>3. message.body \in [ratchet_key : RatchetKey, counter : Nat,
                          sealed_with : MessageKey \union {NoKey}]
    BY <1>0, <1>4, <2>2, OnlyIntact
  <2> QED  BY <2>3
<1>6. PICK new : new = result.session
  OBVIOUS
<1>7. /\ result.ok \in BOOLEAN
      /\ new \in SessionState
      /\ new.keys = s.keys /\ new.shared_secret = s.shared_secret
      /\ new.received_message = (s.received_message \/ result.ok)
      /\ KeysApart(new.ratchet)
      /\ Turns(new.ratchet, t)
      /\ \A message_key : Gone(s.ratchet, message_key) => Gone(new.ratchet, message_key)
      /\ IF result.ok
         THEN /\ message.shared_secret = s.shared_secret
              /\ CanDecrypt(s.ratchet, message.body)
              /\ new.ratchet = AfterDecrypt(s.ratchet, message.body)
              /\ Gone(new.ratchet, message.body.sealed_with)
              /\ OnTurn(message.body.sealed_with.key, t)
              /\ message.body.sealed_with.index = message.body.counter
              /\ \/ /\ new.ratchet.root_key = s.ratchet.root_key
                    /\ new.ratchet.sender_chain = s.ratchet.sender_chain
                 \/ /\ Len(new.ratchet.root_key) = Len(s.ratchet.root_key) + 1
                    /\ new.ratchet.sender_chain = <<>>
         ELSE new = s
  <2>1. Outcome(s, t, message, result)
    BY <1>0, <1>1, <1>4, <1>5, ReadOne
  <2> QED  BY <1>6, <2>1 DEF Outcome
<1>8. CASE ~result.ok
  <2>1. new = s /\ (sessions[p] \ {s}) \union {new} = sessions[p]
    BY <1>7, <1>8
  <2>2. sessions' = sessions /\ opened' = opened /\ decrypted' = decrypted
    BY <1>0, <1>2, <1>6, <1>8, <2>1 DEF TypeOK
  <2>3. TypeOK' /\ Grows
    BY <1>0, <1>2, <2>2 DEF TypeOK, Grows
  <2>4. \A u \in Party : UserInv(u)'
    BY <1>2, <2>2, <2>3, OtherUser
  <2> QED  BY <2>3, <2>4 DEF SetupInv
<1>9. CASE result.ok
  <2>1. /\ message = Message(id) /\ message \in SessionMessage
        /\ MessageOK(q, message)
        /\ id[1] = q /\ id[2] \in DOMAIN sent[q] /\ id \in Party \X Nat
        /\ message.keys = s.keys
    BY <1>1, <1>9, ReceiveOpens
  <2>2. /\ sessions'[p] = (sessions[p] \ {s}) \union {new} /\ sessions'[q] = sessions[q]
        /\ opened'[p] = opened[p] \union {id} /\ opened'[q] = opened[q]
        /\ new.received_message = TRUE
    BY <1>0, <1>2, <1>6, <1>7, <1>9 DEF TypeOK
  <2>3. TypeOK' /\ Grows
    <3>1. TypeOK'
      <4>1. sessions' \in [Party -> SUBSET SessionState]
        BY <1>0, <1>2, <1>6, <1>7 DEF TypeOK
      <4>2. opened' \in [Party -> SUBSET (Party \X Nat)]
        BY <1>0, <1>2, <1>9, <2>1 DEF TypeOK
      <4>3. decrypted' \in [Party -> Nat]
        BY <1>0, <1>2, <1>9 DEF TypeOK
      <4> QED  BY <1>0, <1>2, <4>1, <4>2, <4>3 DEF TypeOK
    <3>2. \A u \in Party : opened[u] \subseteq opened'[u]
      BY <1>0, <2>2
    <3>3. \A u \in Party : next_key[u] \in Nat /\ next_key[u] <= next_key[u]
      BY <1>0 DEF TypeOK
    <3> QED  BY <1>2, <3>1, <3>2, <3>3 DEF Grows
  <2>4. \A i : Message(i)' = Message(i)
    BY <1>2 DEF Message
  <2>5. /\ message.body.ratchet_key \in RatchetKey /\ message.body.counter \in Nat
        /\ Header(message.body) /\ message.body.sealed_with \in MessageKey
    BY <2>1, MessageFields DEF Header
  <2>6. SessionOK(p, new)'
    <3>1. Derived(new.keys, new.shared_secret)'
      BY <1>0, <1>2, <1>7 DEF SessionOK, Derived, KeysOf, Agreed
    <3>2. \E i \in opened'[p] : Message(i)'.keys = new.keys
      BY <1>7, <2>1, <2>2, <2>4
    <3> QED  BY <1>3, <1>7, <2>2, <3>1, <3>2 DEF SessionOK
  <2>7. FirstKept(p, new)'
    <3> SUFFICES ASSUME t = 0, OnFirstChain(p, new.keys)'
                 PROVE  /\ OnlyFirst(new.ratchet)
                        /\ \A i \in opened'[p] :
                              Message(i)'.keys = new.keys =>
                                 Message(i)'.body.ratchet_key
                                    = new.ratchet.receiver_chains[1].ratchet_key
                        /\ \A c \in Nat : c < new.ratchet.receiver_chains[1].chain_key.index =>
                              \/ \E i \in opened'[p] :
                                    Message(i)'.keys = new.keys /\ Message(i)'.body.counter = c
                              \/ Held(new.ratchet, c)
      BY <1>3, <1>7 DEF FirstKept
    <3>1. \A i \in opened[p] \union {id} :
             Message(i).keys = s.keys =>
                 /\ Message(i).body.sealed_with.key = <<>>
                 /\ Message(i).body.counter <= MaxSkippedMessageKeys
      BY <1>2, <1>7, <2>2 DEF OnFirstChain, Message
    <3>2. OnFirstChain(p, s.keys)
      BY <3>1 DEF OnFirstChain, Message
    <3>3. /\ OnlyFirst(s.ratchet)
          /\ \A i \in opened[p] :
                Message(i).keys = s.keys =>
                   Message(i).body.ratchet_key = s.ratchet.receiver_chains[1].ratchet_key
          /\ \A c \in Nat : c < s.ratchet.receiver_chains[1].chain_key.index =>
                \/ \E i \in opened[p] :
                      Message(i).keys = s.keys /\ Message(i).body.counter = c
                \/ Held(s.ratchet, c)
      BY <1>0, <1>3, <3>2 DEF FirstKept
    <3>4. message.body.sealed_with.key = <<>> /\ message.body.counter <= MaxSkippedMessageKeys
      BY <2>1, <3>1
    <3>5. /\ new.ratchet \in RatchetState
          /\ OnlyFirst(new.ratchet)
          /\ new.ratchet.receiver_chains[1].ratchet_key
                 = s.ratchet.receiver_chains[1].ratchet_key
          /\ message.body.ratchet_key = s.ratchet.receiver_chains[1].ratchet_key
          /\ \A c \in Nat :
                /\ c # message.body.counter
                /\ c < new.ratchet.receiver_chains[1].chain_key.index
                /\ c < s.ratchet.receiver_chains[1].chain_key.index => Held(s.ratchet, c)
                => Held(new.ratchet, c)
      <4>1. PICK r \in RatchetState : r = s.ratchet
        BY <1>0
      <4>2. PICK after : after = new.ratchet
        OBVIOUS
      <4>3. PICK reader : reader = message.body
        OBVIOUS
      <4>4. /\ OnlyFirst(r) /\ Header(reader) /\ CanDecrypt(r, reader)
            /\ reader.sealed_with.key = <<>> /\ reader.counter <= MaxSkippedMessageKeys
            /\ after = AfterDecrypt(r, reader)
        BY <1>7, <1>9, <2>5, <3>3, <3>4, <4>1, <4>2, <4>3
      <4> QED  BY <4>1, <4>2, <4>3, <4>4, FirstChainRead
    <3>6. \A i \in opened'[p] :
             Message(i)'.keys = new.keys =>
                Message(i)'.body.ratchet_key = new.ratchet.receiver_chains[1].ratchet_key
      BY <1>7, <2>1, <2>2, <2>4, <3>3, <3>5
    <3>7. ASSUME NEW c \in Nat, c < new.ratchet.receiver_chains[1].chain_key.index,
                 ~ \E i \in opened'[p] :
                      Message(i)'.keys = new.keys /\ Message(i)'.body.counter = c
          PROVE  Held(new.ratchet, c)
      <4>1. c # message.body.counter
        BY <1>7, <2>1, <2>2, <2>4, <3>7
      <4>2. c < s.ratchet.receiver_chains[1].chain_key.index => Held(s.ratchet, c)
        BY <1>7, <2>2, <2>4, <3>3, <3>7
      <4> QED  BY <3>5, <3>7, <4>1, <4>2
    <3> QED  BY <3>5, <3>6, <3>7
  <2>8. \A u \in sessions'[p] : SessionOK(p, u)' /\ FirstKept(p, u)'
    <3>1. ASSUME NEW u \in sessions[p] \ {s}
          PROVE  SessionOK(p, u)' /\ FirstKept(p, u)'
      <4>1. u.keys # s.keys
        BY <1>0 DEF Distinct
      <4>2. \A i \in opened'[p] : i \in opened[p] \/ Message(i)'.keys # u.keys
        BY <2>1, <2>2, <2>4, <4>1
      <4> QED  BY <2>3, <4>2, SessionStays, FirstChainStays
    <3> QED  BY <2>2, <2>6, <2>7, <3>1
  <2>9. Distinct(p)'
    BY <1>0, <1>7, <2>2 DEF Distinct
  <2>10. \A n \in DOMAIN sent'[p] : MessageOK(p, sent[p][n])'
    BY <1>2, <2>3, MessageStays
  <2>11. FirstSent(p)' /\ AccountOK(p)'
    BY <1>0, <1>2 DEF UserInv, FirstSent, AccountOK
  <2>12. FirstSender(p)'
    <3>1. FirstSender(p)
      BY <1>0 DEF UserInv
    <3>2. ASSUME new.ratchet.root_key = <<>>
          PROVE  /\ s.ratchet.root_key = <<>>
                 /\ new.ratchet.sender_chain = s.ratchet.sender_chain
      <4>1. Len(<<>>) = 0 /\ Len(s.ratchet.root_key) \in Nat
        BY <1>0, EmptySeq, RatchetFields
      <4> QED  BY <1>7, <1>9, <3>2, <4>1
    <3>3. ASSUME NEW n \in DOMAIN sent[p], NEW u \in sessions[p] \union {new},
                 sent[p][n].keys = u.keys, sent[p][n].body.sealed_with.key = <<>>,
                 u.ratchet.root_key = <<>>
          PROVE  /\ sent[p][n].body.ratchet_key = u.ratchet.sender_chain[1].ratchet_key
                 /\ sent[p][n].body.counter < u.ratchet.sender_chain[1].chain_key.index
      <4>1. CASE u = new
        <5>1. s.keys = u.keys /\ s.ratchet.root_key = <<>>
              /\ s.ratchet.sender_chain = u.ratchet.sender_chain
          BY <1>7, <3>2, <3>3, <4>1
        <5> QED  BY <3>1, <3>3, <5>1 DEF FirstSender
      <4>2. CASE u \in sessions[p]
        BY <3>1, <3>3, <4>2 DEF FirstSender
      <4> QED  BY <4>1, <4>2
    <3>4. sent'[p] = sent[p] /\ sessions'[p] \subseteq sessions[p] \union {new}
      BY <1>2, <2>2
    <3> QED  BY <3>3, <3>4 DEF FirstSender
  <2>13. OpenedOK(p)'
    <3>1. OpenedOK(p)
      BY <1>0 DEF UserInv
    <3> SUFFICES ASSUME NEW i \in opened'[p]
                 PROVE  /\ i[1] = q
                        /\ i[2] \in DOMAIN sent[q]
                        /\ \A u \in sessions'[p] :
                              u.keys = Message(i).keys
                                 => Gone(u.ratchet, Message(i).body.sealed_with)
                        /\ LookupKey(account[p], Message(i).keys.bob_one_time_key) =>
                              \E u \in sessions'[p] :
                                 u.keys = Message(i).keys /\ u.received_message
      BY <1>2, <2>4 DEF OpenedOK
    <3>2. CASE i \in opened[p]
      <4>1. /\ i[1] = q /\ i[2] \in DOMAIN sent[q]
            /\ \A u \in sessions[p] :
                  u.keys = Message(i).keys => Gone(u.ratchet, Message(i).body.sealed_with)
            /\ LookupKey(account[p], Message(i).keys.bob_one_time_key) =>
                  \E u \in sessions[p] : u.keys = Message(i).keys /\ u.received_message
        BY <3>1, <3>2 DEF OpenedOK
      <4>2. new.keys = Message(i).keys => Gone(new.ratchet, Message(i).body.sealed_with)
        BY <1>7, <4>1
      <4> QED  BY <1>7, <2>2, <4>1, <4>2
    <3>3. CASE i = id
      <4>1. Gone(new.ratchet, Message(i).body.sealed_with) /\ new.keys = Message(i).keys
        BY <1>7, <1>9, <2>1, <3>3
      <4>2. \A u \in sessions[p] \ {s} : u.keys # Message(i).keys
        BY <1>0, <2>1, <3>3 DEF Distinct
      <4> QED  BY <2>1, <2>2, <3>3, <4>1, <4>2
    <3> QED  BY <2>2, <3>2, <3>3
  <2>14. UserInv(p)'
    BY <2>8, <2>9, <2>10, <2>11, <2>12, <2>13 DEF UserInv
  <2>15. UserInv(q)'
    BY <1>0, <1>2, <2>2, <2>3, OtherUser
  <2> QED  BY <1>0, <2>3, <2>14, <2>15 DEF SetupInv
<1> QED  BY <1>7, <1>8, <1>9

\* Account#remove_one_time_key of a session that has received preserves the invariant.
LEMMA RemoveStep ==
    ASSUME SetupInv, NEW p \in Party, NEW s \in sessions[p], RemoveOneTimeKey(p, s)
    PROVE  SetupInv'
<1> DEFINE q   == Peer(p)
           key == s.keys.bob_one_time_key
<1>0. /\ q \in Party /\ q # p /\ TypeOK /\ UserInv(p)
      /\ \A u \in Party : u # p => u = q
      /\ account[p] \in AccountState /\ key \in Nat
  BY PeerFacts, SessionFields DEF SetupInv, TypeOK, SessionKeys, PublicKey
<1>1. PICK after : after = RemoveKey(account[p], key)
  OBVIOUS
<1>2. /\ account' = [account EXCEPT ![p] = after]
      /\ removed' = [removed EXCEPT ![p] = removed[p] \union {key}]
      /\ UNCHANGED <<sessions, next_key, sent, opened, decrypted>>
  BY <1>1 DEF RemoveOneTimeKey
<1>3. /\ after \in AccountState
      /\ \A k : LookupKey(after, k) => LookupKey(account[p], k)
      /\ \A k : LookupKey(account[p], k) /\ k # key => LookupKey(after, k)
  <2>1. LookupKey(account[p], key)
    BY DEF RemoveOneTimeKey
  <2> QED  BY <1>0, <1>1, <2>1, RemoveLooksUp
<1>4. /\ account'[p] = after /\ account'[q] = account[q]
      /\ removed'[p] = removed[p] \union {key} /\ removed'[q] = removed[q]
  BY <1>0, <1>2 DEF TypeOK
<1>5. TypeOK' /\ Grows
  <2>1. TypeOK'
    BY <1>0, <1>2, <1>3 DEF TypeOK
  <2>2. \A u \in Party : next_key[u] \in Nat /\ next_key[u] <= next_key[u]
    BY <1>0 DEF TypeOK
  <2> QED  BY <1>2, <2>1, <2>2 DEF Grows
<1>6. UserInv(p)'
  <2>1. \A u \in sessions'[p] : SessionOK(p, u)' /\ FirstKept(p, u)'
    BY <1>2, <1>5, SessionStays, FirstChainStays
  <2>2. \A n \in DOMAIN sent'[p] : MessageOK(p, sent[p][n])'
    BY <1>2, <1>5, MessageStays
  <2>3. Distinct(p)' /\ FirstSent(p)' /\ FirstSender(p)'
    BY <1>0, <1>2 DEF UserInv, Distinct, FirstSent, FirstSender
  <2>4. OpenedOK(p)'
    BY <1>0, <1>2, <1>3, <1>4 DEF UserInv, OpenedOK, Message
  <2>5. AccountOK(p)'
    BY <1>0, <1>3, <1>4 DEF UserInv, AccountOK
  <2> QED  BY <2>1, <2>2, <2>3, <2>4, <2>5 DEF UserInv
<1>7. UserInv(q)'
  BY <1>0, <1>2, <1>4, <1>5, OtherUser
<1> QED  BY <1>0, <1>5, <1>6, <1>7 DEF SetupInv

\* Throwing a session away preserves the invariant: one that has received anything goes
\* only after its one-time key.
LEMMA DiscardStep ==
    ASSUME SetupInv, NEW p \in Party, NEW s \in sessions[p], Discard(p, s)
    PROVE  SetupInv'
<1> DEFINE q == Peer(p)
<1>0. /\ q \in Party /\ q # p /\ TypeOK /\ UserInv(p)
      /\ \A u \in Party : u # p => u = q
  BY PeerFacts DEF SetupInv
<1>1. /\ s.received_message => ~LookupKey(account[p], s.keys.bob_one_time_key)
      /\ sessions' = [sessions EXCEPT ![p] = sessions[p] \ {s}]
      /\ UNCHANGED <<account, next_key, removed, sent, opened, decrypted>>
  BY DEF Discard
<1>2. sessions'[p] = sessions[p] \ {s} /\ sessions'[q] = sessions[q]
  BY <1>0, <1>1 DEF TypeOK
<1>3. TypeOK' /\ Grows
  <2>1. TypeOK'
    BY <1>0, <1>1 DEF TypeOK
  <2>2. \A u \in Party : next_key[u] \in Nat /\ next_key[u] <= next_key[u]
    BY <1>0 DEF TypeOK
  <2> QED  BY <1>1, <2>1, <2>2 DEF Grows
<1>4. UserInv(p)'
  <2>1. \A u \in sessions'[p] : SessionOK(p, u)' /\ FirstKept(p, u)'
    BY <1>1, <1>2, <1>3, SessionStays, FirstChainStays
  <2>2. \A n \in DOMAIN sent'[p] : MessageOK(p, sent[p][n])'
    BY <1>1, <1>3, MessageStays
  <2>3. Distinct(p)' /\ FirstSent(p)' /\ FirstSender(p)' /\ AccountOK(p)'
    BY <1>0, <1>1, <1>2 DEF UserInv, Distinct, FirstSent, FirstSender, AccountOK
  <2>4. OpenedOK(p)'
    BY <1>0, <1>1, <1>2 DEF UserInv, OpenedOK, Message
  <2> QED  BY <2>1, <2>2, <2>3, <2>4 DEF UserInv
<1>5. UserInv(q)'
  BY <1>0, <1>1, <1>2, <1>3, OtherUser
<1> QED  BY <1>0, <1>3, <1>4, <1>5 DEF SetupInv

-----------------------------------------------------------------------------
(* Every behaviour *)

\* A step that is not a call leaves both users as they are.
LEMMA StutterStep ==
    ASSUME SetupInv, UNCHANGED vars
    PROVE  SetupInv'
<1>1. UNCHANGED <<account, sessions, next_key, removed, sent, opened, decrypted>>
  BY DEF vars
<1>2. TypeOK' /\ Grows
  <2>1. TypeOK
    BY DEF SetupInv
  <2>2. TypeOK'
    BY <1>1, <2>1 DEF TypeOK
  <2> QED  BY <1>1, <2>1, <2>2 DEF TypeOK, Grows
<1>3. \A p \in Party : UserInv(p)'
  BY <1>1, <1>2, OtherUser
<1> QED  BY <1>2, <1>3 DEF SetupInv

\* Each call preserves the invariant, and so does the arrival of each message.
LEMMA NextStep == SetupInv /\ [Next]_vars => SetupInv'
<1> SUFFICES ASSUME SetupInv, [Next]_vars
             PROVE  SetupInv'
  OBVIOUS
<1>1. ASSUME NEW p \in Party, NEW key \in { k.key : k \in Keys(NewKeys(Peer(p))) },
             Outbound(p, key)
      PROVE  SetupInv'
  <2>1. LookupKey(NewKeys(Peer(p)), key)
    BY DEF LookupKey
  <2>2. key \in OneTimeKeysOf(Peer(p))
    BY <2>1, PeerFacts, NewKeysFacts
  <2> QED  BY <1>1, <2>2, OutboundStep
<1>2. ASSUME NEW p \in Party, NEW id \in Sent, NEW message \in Arriving(id),
             NEW expected, Inbound(p, expected, message)
      PROVE  SetupInv'
  BY <1>2, InboundStep
<1>3. ASSUME NEW p \in Party, NEW s \in sessions[p], Encrypt(p, s)
      PROVE  SetupInv'
  BY <1>3, EncryptStep
<1>4. ASSUME NEW p \in Party, NEW s \in sessions[p], NEW id \in Sent,
             NEW message \in BodyArriving(id), Receive(p, s, id, message)
      PROVE  SetupInv'
  BY <1>4, ReceiveStep
<1>5. ASSUME NEW p \in Party, NEW s \in sessions[p], RemoveOneTimeKey(p, s)
      PROVE  SetupInv'
  BY <1>5, RemoveStep
<1>6. ASSUME NEW p \in Party, NEW s \in sessions[p], Discard(p, s)
      PROVE  SetupInv'
  BY <1>6, DiscardStep
<1>7. CASE UNCHANGED vars
  BY <1>7, StutterStep
<1> QED  BY <1>1, <1>2, <1>3, <1>4, <1>5, <1>6, <1>7 DEF Next

\* The invariant holds of every reachable state: types; keys and secrets that name each
\* other; first chains; what was opened; the one-time keys.
THEOREM SetupInvariance == Spec => []SetupInv
BY InitSetup, NextStep, PTL DEF Spec

\* A session that has decrypted anything has the id and the shared secret of a
\* session of the peer's, that wrote it.
THEOREM EndsAgreeAlways == Spec => []EndsAgree
<1>1. ASSUME SetupInv
      PROVE  EndsAgree
  <2> SUFFICES ASSUME NEW p \in Party, NEW s \in sessions[p], s.received_message
               PROVE  \E id \in opened[p] :
                         /\ id[1] = Peer(p)
                         /\ SessionId(s) = sent[id[1]][id[2]].keys
                         /\ s.shared_secret = sent[id[1]][id[2]].shared_secret
    BY DEF EndsAgree
  <2>1. SessionOK(p, s) /\ s.keys \in SessionKeys
    BY <1>1, SessionFields DEF SetupInv, UserInv, TypeOK
  <2>2. PICK id \in opened[p] : Message(id).keys = s.keys
    BY <2>1 DEF SessionOK
  <2>3. id[1] = Peer(p) /\ Message(id) \in SessionMessage /\ MessageOK(Peer(p), Message(id))
    BY <1>1, OpenedFields
  <2>4. Derived(s.keys, s.shared_secret) /\ Derived(Message(id).keys, Message(id).shared_secret)
    BY <2>1, <2>3 DEF SessionOK, MessageOK
  <2>5. s.shared_secret = Message(id).shared_secret
    BY <2>1, <2>2, <2>4, KeysNameSecrets
  <2> QED  BY <2>2, <2>3, <2>5 DEF Message, SessionId
<1> QED  BY <1>1, SetupInvariance, PTL

\* matches_inbound_session is true of exactly the messages of the session's other end.
THEOREM RoutedRightAlways == Spec => []RoutedRight
<1>1. ASSUME SetupInv
      PROVE  RoutedRight
  <2> SUFFICES ASSUME NEW p \in Party, NEW s \in sessions[p], NEW id \in Sent
               PROVE  MatchesInboundSession(s, {}, sent[id[1]][id[2]])
                          <=> s.shared_secret = sent[id[1]][id[2]].shared_secret
    BY DEF RoutedRight
  <2>0. id[1] \in Party /\ id[2] \in DOMAIN sent[id[1]]
    BY DEF Sent, Ids
  <2>1. /\ TypeOK /\ SessionOK(p, s) /\ s.keys \in SessionKeys
        /\ id[1] \in Party /\ id[2] \in DOMAIN sent[id[1]]
    BY <1>1, <2>0, SessionFields DEF SetupInv, UserInv, TypeOK
  <2>2. PICK m \in SessionMessage : m = sent[id[1]][id[2]] /\ MessageOK(id[1], m)
    BY <1>1, <2>1, SentFields DEF SetupInv, UserInv
  <2>3. m.keys \in SessionKeys
    BY MessageFields
  <2>4. s.shared_secret = m.shared_secret <=> s.keys = m.keys
    BY <2>1, <2>2, <2>3, KeysNameSecrets DEF SessionOK, MessageOK
  <2> QED  BY <2>2, <2>4 DEF MatchesInboundSession
<1> QED  BY <1>1, SetupInvariance, PTL

-----------------------------------------------------------------------------
(* Pre-key messages can be read *)

\* What is sealed on the first chain, under the session's own secrets, decrypt() opens
\* if the session holds the chain and, when it has passed the message over, its key.
LEMMA FirstChainOpened ==
    ASSUME NEW s \in SessionState, NEW m \in SessionMessage, OnlyFirst(s.ratchet),
           m.shared_secret = s.shared_secret,
           m.body.sealed_with.key = <<>>, m.body.sealed_with.index = m.body.counter,
           m.body.ratchet_key = s.ratchet.receiver_chains[1].ratchet_key,
           m.body.counter <= MaxMessageGap,
           m.body.counter < s.ratchet.receiver_chains[1].chain_key.index
               => Held(s.ratchet, m.body.counter)
    PROVE  DecryptMessage(s, m).ok
<1>1. PICK r \in RatchetState : r = s.ratchet
  BY SessionFields
<1>2. PICK reader : reader = m.body
  OBVIOUS
<1>3. Header(reader) /\ reader.sealed_with \in MessageKey
  BY <1>2, MessageFields
<1>4. CanDecrypt(r, reader)
  BY <1>1, <1>2, <1>3, FirstChainOpens
<1>5. Reader(s, m) = reader
  BY <1>2 DEF Reader
<1>6. Decrypt(s.ratchet, Reader(s, m)).ok
  BY <1>1, <1>4, <1>5 DEF Decrypt
<1> QED  BY <1>6 DEF DecryptMessage

\* A pre-key message that arrives intact, and has not been opened, is on the first chain.
LEMMA PreKeyOnFirst ==
    ASSUME SetupInv, NEW p \in Party, NEW id \in Sent, NEW m, m = sent[id[1]][id[2]],
           id[1] = Peer(p), m.type = PRE_KEY,
           m.keys.alice_identity_key = IdentityKey(Peer(p))
    PROVE  /\ m \in SessionMessage /\ MessageOK(Peer(p), m)
           /\ id[2] \in DOMAIN sent[Peer(p)] /\ id = <<id[1], id[2]>>
           /\ TurnOf(p, m.keys) = 0 /\ KeysOf(p, m.keys)
           /\ m.shared_secret = Agreed(p, m.keys)
           /\ m.body.sealed_with.key = <<>> /\ m.body.sealed_with.index = m.body.counter
<1> DEFINE q == Peer(p)
<1>0. q \in Party /\ q # p /\ Peer(q) = p /\ TypeOK /\ UserInv(q)
  BY PeerFacts DEF SetupInv
<1>1. id[2] \in DOMAIN sent[q] /\ id = <<id[1], id[2]>>
  BY DEF Sent, Ids
<1>2. m \in SessionMessage /\ MessageOK(q, m)
  BY <1>0, <1>1, SentFields DEF UserInv
<1>3. PICK keys, secret : keys = m.keys /\ secret = m.shared_secret
  OBVIOUS
<1>4. Derived(keys, secret)
  BY <1>2, <1>3 DEF MessageOK
<1>5. /\ TurnOf(p, keys) \in {0, 1} /\ TurnOf(q, keys) = 1 - TurnOf(p, keys)
      /\ TurnOf(p, keys) = 0 => KeysOf(p, keys) /\ secret = Agreed(p, keys)
      /\ TurnOf(p, keys) = 1 => KeysOf(q, keys)
  BY <1>4, TurnFacts
<1>6. TurnOf(p, keys) # 1
  <2> SUFFICES ASSUME KeysOf(q, keys) PROVE FALSE
    BY <1>5
  <2>1. IdentityKey(q) \in {IdentityKey(p), Garbage}
    BY <1>0, <1>3 DEF KeysOf
  <2> QED  BY <1>0, <2>1, KeyNumbers DEF Garbage
<1>7. TurnOf(p, keys) = 0 /\ TurnOf(q, keys) = 1
  BY <1>5, <1>6
<1> QED  BY <1>1, <1>2, <1>3, <1>5, <1>7 DEF MessageOK

\* Whichever pre-key message of a session is the first to arrive intact, it can be read,
\* by the session that has read others of its kind or else by a new one, unless the
\* one-time key has gone to another session; however far the others have been read, as
\* long as they are of the first chain and within the limits of the ratchet.
THEOREM PreKeyReadableAlways == Spec => []PreKeyReadable
<1>1. ASSUME SetupInv
      PROVE  PreKeyReadable
  <2> SUFFICES ASSUME NEW p \in Party, NEW id \in Sent \ opened[p],
                      NEW m, m = sent[id[1]][id[2]],
                      id[1] = Peer(p), m.type = PRE_KEY,
                      m.keys.alice_identity_key = IdentityKey(Peer(p)),
                      m.body.counter <= MaxMessageGap, OnFirstChain(p, m.keys)
               PROVE  Readable(p, m)
    BY DEF PreKeyReadable
  <2> DEFINE q == Peer(p)
             ends == { s \in sessions[p] : s.received_message /\ s.keys = m.keys }
  <2>0. q \in Party /\ TypeOK /\ UserInv(p) /\ UserInv(q)
    BY <1>1, PeerFacts DEF SetupInv
  <2>1. /\ m \in SessionMessage /\ MessageOK(q, m)
        /\ id[2] \in DOMAIN sent[q] /\ id = <<id[1], id[2]>>
        /\ TurnOf(p, m.keys) = 0 /\ KeysOf(p, m.keys)
        /\ m.shared_secret = Agreed(p, m.keys)
        /\ m.body.sealed_with.key = <<>> /\ m.body.sealed_with.index = m.body.counter
    BY <1>1, PreKeyOnFirst
  <2>2. m.keys \in SessionKeys /\ m.body.ratchet_key \in RatchetKey /\ m.body.counter \in Nat
    BY <2>1, MessageFields
  <2>3. ASSUME NEW s \in ends
        PROVE  DecryptMessage(s, m).ok
    <3>0. /\ s \in sessions[p] /\ s \in SessionState /\ SessionOK(p, s) /\ FirstKept(p, s)
          /\ s.received_message /\ s.keys = m.keys
      BY <2>0 DEF UserInv, TypeOK
    <3> DEFINE chain == s.ratchet.receiver_chains[1]
    <3>1. /\ OnlyFirst(s.ratchet)
          /\ \A i \in opened[p] :
                Message(i).keys = m.keys => Message(i).body.ratchet_key = chain.ratchet_key
          /\ m.body.counter < chain.chain_key.index =>
                \/ \E i \in opened[p] :
                      Message(i).keys = m.keys /\ Message(i).body.counter = m.body.counter
                \/ Held(s.ratchet, m.body.counter)
      <4>1. TurnOf(p, s.keys) = 0 /\ OnFirstChain(p, s.keys)
        BY <2>1, <3>0
      <4>2. PICK c \in Nat : c = m.body.counter
        BY <2>2
      <4> QED  BY <3>0, <4>1, <4>2 DEF FirstKept
    <3>2. ASSUME NEW i \in opened[p], Message(i).keys = m.keys
          PROVE  /\ Message(i).body.ratchet_key = m.body.ratchet_key
                 /\ Message(i).body.counter # m.body.counter
      <4>1. /\ i = <<i[1], i[2]>> /\ i[1] = q /\ i[2] \in DOMAIN sent[q]
            /\ Message(i) = sent[q][i[2]]
        BY <1>1, OpenedFields
      <4>2. Message(i).body.sealed_with.key = <<>>
        BY <3>2 DEF OnFirstChain, Message
      <4>3. /\ Message(i).body.ratchet_key = m.body.ratchet_key
            /\ Message(i).body.counter = m.body.counter => i[2] = id[2]
        <5>1. PICK n \in DOMAIN sent[q] : n = i[2] /\ Message(i) = sent[q][n]
          BY <4>1
        <5>2. PICK k \in DOMAIN sent[q] : k = id[2] /\ m = sent[q][k]
          BY <2>1
        <5>3. /\ sent[q][n].body.ratchet_key = sent[q][k].body.ratchet_key
              /\ sent[q][n].body.counter = sent[q][k].body.counter => n = k
          <6>1. FirstSent(q)
            BY <2>0 DEF UserInv
          <6>2. /\ sent[q][n].keys = sent[q][k].keys
                /\ sent[q][n].body.sealed_with.key = <<>>
                /\ sent[q][k].body.sealed_with.key = <<>>
            BY <2>1, <3>2, <4>2, <5>1, <5>2
          <6> QED  BY <6>1, <6>2 DEF FirstSent
        <5> QED  BY <5>1, <5>2, <5>3
      <4>4. i # id
        OBVIOUS
      <4> QED  BY <2>1, <4>1, <4>3, <4>4
    <3>3. m.body.ratchet_key = chain.ratchet_key
      <4>1. PICK i \in opened[p] : Message(i).keys = m.keys
        BY <3>0 DEF SessionOK
      <4> QED  BY <3>1, <3>2, <4>1
    <3>4. m.body.counter < chain.chain_key.index => Held(s.ratchet, m.body.counter)
      BY <3>1, <3>2
    <3>5. m.shared_secret = s.shared_secret
      <4>1. /\ Derived(s.keys, s.shared_secret) /\ Derived(m.keys, m.shared_secret)
            /\ s.keys \in SessionKeys
        BY <2>1, <2>2, <3>0 DEF SessionOK, MessageOK
      <4> QED  BY <2>2, <3>0, <4>1, KeysNameSecrets
    <3> QED  BY <2>1, <3>0, <3>1, <3>3, <3>4, <3>5, FirstChainOpened
  <2>4. ASSUME m.keys.bob_one_time_key \notin removed[p]
        PROVE  /\ AcceptsInbound(account[p], {IdentityKey(q)}, m)
               /\ DecryptMessage(NewInboundSession(IdentityKey(p), m), m).ok
    <3>1. m.keys.bob_one_time_key \in OneTimeKeysOf(p) /\ m.keys.bob_one_time_key \in Nat
      BY <2>1, <2>2 DEF KeysOf, SessionKeys, PublicKey
    <3>2. LookupKey(account[p], m.keys.bob_one_time_key)
      BY <2>0, <2>4, <3>1 DEF UserInv, AccountOK
    <3>3. AcceptsInbound(account[p], {IdentityKey(q)}, m)
      BY <3>2 DEF AcceptsInbound
    <3>4. PICK r : r = InitialiseAsBob(m.body.ratchet_key)
      OBVIOUS
    <3>5. PICK new : new = NewInboundSession(IdentityKey(p), m)
      OBVIOUS
    <3>6. /\ new = [keys |-> m.keys, shared_secret |-> Agreed(p, m.keys),
                    received_message |-> FALSE, ratchet |-> r]
          /\ new.shared_secret = m.shared_secret /\ new.ratchet = r
      BY <2>1, <3>4, <3>5 DEF NewInboundSession, Agreed
    <3>7. /\ r \in RatchetState /\ OnlyFirst(r)
          /\ r.receiver_chains[1].chain_key.index = 0
          /\ r.receiver_chains[1].ratchet_key = m.body.ratchet_key
      <4>1. /\ r.receiver_chains = <<FirstChain(m.body.ratchet_key)>>
            /\ r.skipped_message_keys = <<>>
        BY <3>4 DEF InitialiseAsBob
      <4>2. /\ Len(r.receiver_chains) = 1
            /\ r.receiver_chains[1] = FirstChain(m.body.ratchet_key)
            /\ Len(r.skipped_message_keys) = 0
        BY <4>1, EmptySeq
      <4>3. /\ OnlyFirst(r) /\ r.receiver_chains[1].chain_key.index = 0
            /\ r.receiver_chains[1].ratchet_key = m.body.ratchet_key
        BY <4>2 DEF OnlyFirst, FirstChain
      <4> QED  BY <2>2, <3>4, <4>3, InboundRatchet
    <3>8. new \in SessionState
      <4>1. m.shared_secret \in Seq(Secret)
        BY <2>1, MessageFields
      <4> QED  BY <2>2, <3>6, <3>7, <4>1 DEF SessionState
    <3>9. ~(m.body.counter < 0)
      BY <2>2
    <3>10. DecryptMessage(new, m).ok
      BY <2>1, <3>6, <3>7, <3>8, <3>9, FirstChainOpened
    <3> QED  BY <3>3, <3>5, <3>10
  <2> QED  BY <2>3, <2>4 DEF Readable
<1> QED  BY <1>1, SetupInvariance, PTL

-----------------------------------------------------------------------------
(* Each user's sessions together implement the channel *)

\* Two users who have not yet spoken are an empty channel.
LEMMA SetupChannelInit == Init => Promise!Init
<1> SUFFICES ASSUME Init PROVE Promise!Init
  OBVIOUS
<1>1. \A p \in Party : Len(sent[p]) = 0
  BY EmptySeq DEF Init
<1> QED  BY <1>1 DEF Init, Promise!Init, Promise!Party, Party

\* A call on any session, or on an account, is a step of the channel, or none.
LEMMA SetupChannelNext ==
    SetupInv /\ [Next]_vars
        => [Promise!Next]_<<[p \in Party |-> Len(sent[p])], opened, decrypted>>
<1> SUFFICES ASSUME SetupInv, [Next]_vars
             PROVE  [Promise!Next]_<<[p \in Party |-> Len(sent[p])], opened, decrypted>>
  OBVIOUS
<1> DEFINE made == [p \in Party |-> Len(sent[p])]
<1>0. TypeOK /\ Promise!Party = Party /\ \A p \in Party : Promise!Other(p) = Peer(p)
  BY DEF SetupInv, Promise!Party, Party, Promise!Other, Peer
<1>1. CASE UNCHANGED <<sent, opened, decrypted>>
  BY <1>1
<1>2. ASSUME NEW p \in Party, NEW s \in sessions[p], Encrypt(p, s)
      PROVE  Promise!Next
  <2>1. PICK m : m = EncryptedMessage(s, next_key[p])
    OBVIOUS
  <2>2. sent' = [sent EXCEPT ![p] = Append(sent[p], m)] /\ UNCHANGED <<opened, decrypted>>
    BY <1>2, <2>1 DEF Encrypt
  <2>3. Len(Append(sent[p], m)) = Len(sent[p]) + 1
    BY <1>0, SentFields, AppendProperties DEF TypeOK
  <2>4. made' = [made EXCEPT ![p] = made[p] + 1]
    <3>1. \A q \in Party : Len(sent'[q]) = IF q = p THEN Len(sent[p]) + 1 ELSE Len(sent[q])
      BY <1>0, <2>2, <2>3 DEF TypeOK
    <3> QED  BY <3>1
  <2>5. Promise!Make(p)
    BY <2>2, <2>4 DEF Promise!Make
  <2> QED  BY <1>0, <2>5 DEF Promise!Next
<1>3. ASSUME NEW p \in Party, NEW s \in sessions[p], NEW id \in Sent,
             NEW message \in BodyArriving(id), Receive(p, s, id, message)
      PROVE  Promise!Next \/ UNCHANGED <<sent, opened, decrypted>>
  <2>1. CASE ~DecryptMessage(s, message).ok
    BY <1>3, <2>1 DEF Receive
  <2>2. CASE DecryptMessage(s, message).ok
    <3>1. /\ opened' = [opened EXCEPT ![p] = opened[p] \union {id}]
          /\ decrypted' = [decrypted EXCEPT ![p] = decrypted[p] + 1]
          /\ UNCHANGED made
      BY <1>3, <2>2 DEF Receive
    <3>2. /\ id[1] = Peer(p) /\ id[2] \in DOMAIN sent[Peer(p)]
          /\ id \in Party \X Nat /\ id \notin opened[p]
      BY <2>2, ReceiveOpens
    <3>3. PICK n : n = id[2] /\ id = <<Peer(p), n>>
      BY <3>2
    <3>4. n \in 1..made[Peer(p)]
      BY <1>0, <3>2, <3>3, PeerFacts, SentFields
    <3>5. Promise!Accept(p, n)
      BY <1>0, <3>1, <3>2, <3>3, <3>4 DEF Promise!Accept
    <3> QED  BY <1>0, <3>4, <3>5 DEF Promise!Next
  <2> QED  BY <2>1, <2>2
<1>4. ASSUME NEW p \in Party, NEW key, Outbound(p, key)
      PROVE  UNCHANGED <<sent, opened, decrypted>>
  BY <1>4 DEF Outbound
<1>5. ASSUME NEW p \in Party, NEW expected, NEW message, Inbound(p, expected, message)
      PROVE  UNCHANGED <<sent, opened, decrypted>>
  BY <1>5 DEF Inbound
<1>6. ASSUME NEW p \in Party, NEW s, RemoveOneTimeKey(p, s) \/ Discard(p, s)
      PROVE  UNCHANGED <<sent, opened, decrypted>>
  BY <1>6 DEF RemoveOneTimeKey, Discard
<1>7. CASE UNCHANGED vars
  BY <1>1, <1>7 DEF vars
<1> QED  BY <1>1, <1>2, <1>3, <1>4, <1>5, <1>6, <1>7 DEF Next

\* However many sessions two users have with each other, and whatever the network does,
\* each message is accepted at most once, and only if the peer made it.
THEOREM SessionsImplementChannel == Spec => ChannelSpec
<1> USE DEF ChannelSpec
<1> QED  BY SetupChannelInit, SetupChannelNext, SetupInvariance, PTL DEF Spec, Promise!Spec
==============================================================================

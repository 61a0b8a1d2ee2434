---------------------------- MODULE DoubleRatchet ----------------------------
(***************************************************************************)
(* Two established sessions, the outbound one of Alice and the inbound one *)
(* of Bob, and a network that delays, reorders, loses, duplicates, reflects*)
(* and damages what they send.  The state of a Session is its ratchet and  *)
(* received_message; encrypt and decrypt are the two calls that change it, *)
(* and a process restart goes through a pickle.                            *)
(*                                                                         *)
(* The network is the log of all that was ever sent: losing a message is   *)
(* never delivering it, duplicating it is delivering it again.             *)
(***************************************************************************)
EXTENDS Ratchet, FiniteSets

CONSTANTS Alice, Bob,   \* the two ends
          MaxSent       \* bound of the model: messages each end encrypts

ASSUME TwoParties == Alice # Bob
ASSUME SentBound  == MaxSent \in Nat

VARIABLES
    ratchet,            \* ratchet[p], a RatchetState
    received_message,   \* received_message[p]: p's session has decrypted something
    next_key,           \* the number of the next ratchet key pair anyone generates
    sent,               \* history: the messages p has encrypted, in order
    opened,             \* history: <<q, n>> once p has decrypted q's message n
    decrypted,          \* history: how many calls of decrypt by p have succeeded
    passed              \* history: message keys p has passed over, newest first

vars == <<ratchet, received_message, next_key, sent, opened, decrypted, passed>>

Party   == {Alice, Bob}
Peer(p) == IF p = Alice THEN Bob ELSE Alice

PRE_KEY == 0
MESSAGE == 1

EncryptMessageType(p) == IF received_message[p] THEN MESSAGE ELSE PRE_KEY

Init ==
    /\ ratchet = [p \in Party |-> IF p = Alice THEN InitialiseAsAlice(0)
                                               ELSE InitialiseAsBob(0)]
    /\ received_message = [p \in Party |-> FALSE]
    /\ next_key = 1
    /\ sent = [p \in Party |-> <<>>]
    /\ opened = [p \in Party |-> {}]
    /\ decrypted = [p \in Party |-> 0]
    /\ passed = [p \in Party |-> <<>>]

Encrypt(p) ==
    /\ Len(sent[p]) < MaxSent
    /\ sent' = [sent EXCEPT ![p] =
                  Append(@, [type    |-> EncryptMessageType(p),
                             message |-> Encrypted(ratchet[p], next_key)])]
    /\ ratchet' = [ratchet EXCEPT ![p] = AfterEncrypt(@, next_key)]
    /\ next_key' = IF NeedsRatchetKey(ratchet[p]) THEN next_key + 1 ELSE next_key
    /\ UNCHANGED <<received_message, opened, decrypted, passed>>

-----------------------------------------------------------------------------
(* History of what p passes over when it opens a message: the counters below *)
(* it that no message p opened on the same chain has reached.                *)

Message(id) == sent[id[1]][id[2]].message

OpenedOnChain(p, key) ==
    { id \in opened[p] : /\ id[2] \in DOMAIN sent[id[1]]
                         /\ Message(id).sealed_with.key = key }

PassedBy(p, reader) ==
    { c \in 0 .. reader.counter - 1 :
        \A id \in OpenedOnChain(p, reader.sealed_with.key) : Message(id).counter < c }

PassedKeys(p, reader) ==
    [i \in 1..Cardinality(PassedBy(p, reader)) |->
        [reader.sealed_with EXCEPT !.index = reader.counter - i]]

-----------------------------------------------------------------------------
\* Mutant: received_message is set whether or not the ratchet accepts the message.
ReceiveMarksAlways(p, id, reader) ==
    LET result == Decrypt(ratchet[p], reader)
    IN  /\ ratchet' = [ratchet EXCEPT ![p] = result.ratchet]
        /\ received_message' = [received_message EXCEPT ![p] = TRUE]
        /\ opened' = IF result.ok THEN [opened EXCEPT ![p] = @ \union {id}] ELSE opened
        /\ decrypted' = IF result.ok THEN [decrypted EXCEPT ![p] = @ + 1] ELSE decrypted
        /\ passed' = IF result.ok THEN [passed EXCEPT ![p] = PassedKeys(p, reader) \o @]
                                  ELSE passed
        /\ UNCHANGED <<next_key, sent>>

\* Session::decrypt of what arrives as the message called id.
Receive(p, id, reader) ==
    LET result == Decrypt(ratchet[p], reader)
    IN  /\ ratchet' = [ratchet EXCEPT ![p] = result.ratchet]
        /\ received_message' = [received_message EXCEPT ![p] = @ \/ result.ok]
        /\ opened' = IF result.ok THEN [opened EXCEPT ![p] = @ \union {id}] ELSE opened
        /\ decrypted' = IF result.ok THEN [decrypted EXCEPT ![p] = @ + 1] ELSE decrypted
        /\ passed' = IF result.ok THEN [passed EXCEPT ![p] = PassedKeys(p, reader) \o @]
                                  ELSE passed
        /\ UNCHANGED <<next_key, sent>>

\* Any message ever sent, the receiver's own included, fresh or seen before.
ReceiveIntact(p) ==
    \E q \in Party : \E n \in DOMAIN sent[q] : Receive(p, <<q, n>>, sent[q][n].message)

\* The MAC of a damaged message is right under no key.
NoKey == [key |-> <<>>, index |-> -1]

\* A damaged header may name any ratchet key and any counter; no message has
\* the number 0.
ReceiveDamaged(p) ==
    \E k \in 0..next_key, c \in 0..MaxSent :
        Receive(p, <<Peer(p), 0>>,
                [ratchet_key |-> k, counter |-> c, sealed_with |-> NoKey])

\* to_pickle, the end of the process, and from_pickle in another one.
Restart(p) ==
    /\ ratchet' = [ratchet EXCEPT ![p] = Unpickle(@)]
    /\ UNCHANGED <<received_message, next_key, sent, opened, decrypted, passed>>

Next ==
    \E p \in Party :
        \/ Encrypt(p)
        \/ ReceiveIntact(p)
        \/ ReceiveDamaged(p)
        \/ Restart(p)

Spec == Init /\ [][Next]_vars

-----------------------------------------------------------------------------
(* Properties *)

Log == Seq([type : {PRE_KEY, MESSAGE}, message : WireMessage])

\* The state has its types; no list of a ratchet outgrows its capacity.
TypeOK ==
    /\ ratchet \in [Party -> RatchetState]
    /\ received_message \in [Party -> BOOLEAN]
    /\ next_key \in Nat
    /\ sent \in [Party -> Log]
    /\ opened \in [Party -> SUBSET (Party \X Nat)]
    /\ decrypted \in [Party -> Nat]
    /\ passed \in [Party -> Seq(MessageKey)]

\* A message opens at most once (ratchet.cpp 575-625): as soon as decrypt() has
\* accepted it, every copy of it is refused, however late it comes, whichever
\* chains and skipped keys have come and gone in between, across restarts.
NoReplay ==
    \A p \in Party : \A id \in opened[p] : ~CanDecrypt(ratchet[p], Message(id))

\* Forward secrecy (docs/olm.rst): what a session holds derives the key of no
\* message it has opened and of none it has sent.
Derivable(r, message_key) ==
    \/ \E i \in DOMAIN r.skipped_message_keys :
          r.skipped_message_keys[i].message_key = message_key
    \/ \E chain \in { r.receiver_chains[i] : i \in DOMAIN r.receiver_chains }
              \union { r.sender_chain[i] : i \in DOMAIN r.sender_chain } :
          /\ chain.chain_key.key = message_key.key
          /\ chain.chain_key.index <= message_key.index

KeysErased ==
    \A p \in Party :
        /\ \A id \in opened[p] : ~Derivable(ratchet[p], Message(id).sealed_with)
        /\ \A n \in DOMAIN sent[p] : ~Derivable(ratchet[p], sent[p][n].message.sealed_with)

\* No two messages are ever sealed with the same key, by whichever end: the key
\* fixes the cipher's AES key and IV (cipher.cpp), so using one twice breaks it.
NoKeyReuse ==
    \A p, q \in Party : \A n \in DOMAIN sent[p], m \in DOMAIN sent[q] :
        sent[p][n].message.sealed_with = sent[q][m].message.sealed_with
            => p = q /\ n = m

\* The two ratchets never fork: both root keys have mixed the same secrets, one
\* end being at most one step ahead, whoever speaks first or at the same time.
IsPrefixOf(s, t) == Len(s) <= Len(t) /\ SubSeq(t, 1, Len(s)) = s

RootsInStep ==
    LET a == ratchet[Alice].root_key
        b == ratchet[Bob].root_key
    IN  \/ IsPrefixOf(a, b) /\ Len(b) <= Len(a) + 1
        \/ IsPrefixOf(b, a) /\ Len(a) <= Len(b) + 1

\* A receiver is never ahead of the sender of the chain, and both know the
\* chain by the same ratchet key and secret.
ReceiverBehindSender ==
    \A p \in Party :
        \A i \in DOMAIN ratchet[p].receiver_chains, j \in DOMAIN ratchet[Peer(p)].sender_chain :
            LET receiver == ratchet[p].receiver_chains[i]
                sender   == ratchet[Peer(p)].sender_chain[j]
            IN  receiver.ratchet_key = sender.ratchet_key
                  => /\ receiver.chain_key.key = sender.chain_key.key
                     /\ receiver.chain_key.index <= sender.chain_key.index

\* encrypt() reads receiver_chains[0] when it has no sender chain: it is there.
PeerKeyKnown ==
    \A p \in Party :
        ratchet[p].sender_chain = <<>> => ratchet[p].receiver_chains # <<>>

(***************************************************************************)
(* What a session promises its peer's messages.  A message p has not       *)
(* opened opens whenever it arrives, in any order, with any copies,        *)
(* reflections and damaged messages before it, provided that               *)
(*   - p has opened messages of fewer than MaxReceiverChains newer chains, *)
(*   - if p has passed over it, fewer than MaxSkippedMessageKeys messages  *)
(*     were passed over since,                                             *)
(*   - if not, p passes over at most MaxMessageGap messages to reach it.   *)
(***************************************************************************)
NewerChains(p, message_key) ==
    { Message(id).sealed_with.key : id \in
        { i \in opened[p] : Len(Message(i).sealed_with.key) > Len(message_key.key) } }

InReach(p, reader) ==
    IF \E i \in DOMAIN passed[p] : passed[p][i] = reader.sealed_with
    THEN \E i \in DOMAIN passed[p] :
            passed[p][i] = reader.sealed_with /\ i <= MaxSkippedMessageKeys
    ELSE Cardinality(PassedBy(p, reader)) <= MaxMessageGap

Openable ==
    \A p \in Party : \A n \in DOMAIN sent[Peer(p)] :
        LET reader == sent[Peer(p)][n].message
        IN  /\ <<Peer(p), n>> \notin opened[p]
            /\ Cardinality(NewerChains(p, reader.sealed_with)) < MaxReceiverChains
            /\ InReach(p, reader)
            => CanDecrypt(ratchet[p], reader)

\* A message is sent as a pre-key message, which lets its receiver set up the
\* session, exactly as long as its sender has opened nothing of its peer's.
PreKeyUntilAnswered ==
    [][\A p \in Party :
         Len(sent'[p]) > Len(sent[p])
           => (sent'[p][Len(sent'[p])].type = PRE_KEY <=> opened[p] = {})]_vars

(***************************************************************************)
(* The inductive invariant: why the properties above hold.  Beside what is *)
(* true of each ratchet alone, the keys of the messages it opened are gone *)
(* from it, and its sender chain is past the messages it sent.             *)
(***************************************************************************)
Turn(p) == IF p = Alice THEN 1 ELSE 0

OpenedAreGone(p) ==
    \A id \in opened[p] :
        /\ id[1] = Peer(p)
        /\ id[2] \in DOMAIN sent[id[1]]
        /\ Gone(ratchet[p], Message(id).sealed_with)

SentAreBehind(p) ==
    /\ \A n \in DOMAIN sent[p] :
          /\ Spent(ratchet[p], sent[p][n].message.sealed_with)
          /\ ~OnTurn(sent[p][n].message.sealed_with.key, Turn(p))
    /\ \A n, m \in DOMAIN sent[p] :
          sent[p][n].message.sealed_with = sent[p][m].message.sealed_with => n = m

SessionInv ==
    /\ TypeOK
    /\ \A p \in Party :
          /\ KeysApart(ratchet[p])
          /\ Turns(ratchet[p], Turn(p))
          /\ received_message[p] <=> opened[p] # {}
          /\ OpenedAreGone(p)
          /\ SentAreBehind(p)

\* The pair of sessions implements the channel of Channel.tla: at most once,
\* and only what the peer made.
Promise == INSTANCE Channel WITH made     <- [p \in Party |-> Len(sent[p])],
                                 accepted <- opened,
                                 count    <- decrypted

ChannelSpec == Promise!Spec
==============================================================================

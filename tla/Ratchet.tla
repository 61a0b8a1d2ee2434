------------------------------- MODULE Ratchet -------------------------------
(***************************************************************************)
(* The double ratchet of src/ratchet.cpp: one party's keys, and what       *)
(* encrypting and decrypting do to them.                                   *)
(*                                                                         *)
(* Secrets are symbolic.  A root key is the sequence of Diffie-Hellman     *)
(* secrets mixed into it since the session began, a secret being the pair  *)
(* of ratchet keys it is computed from: two parties hold the same root key *)
(* exactly when they mixed the same secrets in the same order.  HKDF turns *)
(* a root key and a secret into a root key and a chain key at once, so the *)
(* chain is named by the root key it was derived with; its message keys    *)
(* are that name and an index.                                             *)
(***************************************************************************)
EXTENDS OlmList

CONSTANTS MaxReceiverChains,       \* MAX_RECEIVER_CHAINS, 5
          MaxSkippedMessageKeys,   \* MAX_SKIPPED_MESSAGE_KEYS, 40
          MaxMessageGap            \* MAX_MESSAGE_GAP, 2000

ASSUME RatchetLimits ==
    /\ MaxReceiverChains \in Nat \ {0}
    /\ MaxSkippedMessageKeys \in Nat \ {0}
    /\ MaxMessageGap \in Nat

RatchetKey == Nat                      \* a Curve25519 key pair, by number
Secret     == SUBSET RatchetKey        \* X25519(ours, theirs) = X25519(theirs, ours)
SharedKey  == Seq(Secret)

ChainKey   == [key : SharedKey, index : Nat]
MessageKey == [key : SharedKey, index : Nat]

SenderChain       == [ratchet_key : RatchetKey, chain_key : ChainKey]
ReceiverChain     == [ratchet_key : RatchetKey, chain_key : ChainKey]
SkippedMessageKey == [ratchet_key : RatchetKey, message_key : MessageKey]

RatchetState ==
    { r \in [root_key             : SharedKey,
             sender_chain         : Seq(SenderChain),
             receiver_chains      : Seq(ReceiverChain),
             skipped_message_keys : Seq(SkippedMessageKey)] :
        /\ Len(r.sender_chain) <= 1
        /\ Len(r.receiver_chains) <= MaxReceiverChains
        /\ Len(r.skipped_message_keys) <= MaxSkippedMessageKeys }

\* A message on the wire: the header, and the key its body and MAC are made with.
WireMessage == [ratchet_key : RatchetKey, counter : Nat, sealed_with : MessageKey]

-----------------------------------------------------------------------------
(* Key derivation *)

CreateChainKey(root_key, our_key, their_key) ==
    LET new_root_key == Append(root_key, {our_key, their_key})
    IN  [root_key  |-> new_root_key,
         chain_key |-> [key |-> new_root_key, index |-> 0]]

AdvanceChainKey(chain_key) == [chain_key EXCEPT !.index = @ + 1]

CreateMessageKeys(chain_key) == [key |-> chain_key.key, index |-> chain_key.index]

-----------------------------------------------------------------------------
(* The two ends of a session.  The first chain comes from the shared secret  *)
(* of the triple Diffie-Hellman: it is the chain of the empty sequence.      *)

FirstChain(ratchet_key) ==
    [ratchet_key |-> ratchet_key, chain_key |-> [key |-> <<>>, index |-> 0]]

InitialiseAsAlice(our_ratchet_key) ==
    [root_key             |-> <<>>,
     sender_chain         |-> <<FirstChain(our_ratchet_key)>>,
     receiver_chains      |-> <<>>,
     skipped_message_keys |-> <<>>]

\* Mutant: the receiver chain is not inserted.
InitialiseAsBobWithoutChain(their_ratchet_key) ==
    [root_key             |-> <<>>,
     sender_chain         |-> <<>>,
     receiver_chains      |-> <<>>,
     skipped_message_keys |-> <<>>]

InitialiseAsBob(their_ratchet_key) ==
    [root_key             |-> <<>>,
     sender_chain         |-> <<>>,
     receiver_chains      |-> <<FirstChain(their_ratchet_key)>>,
     skipped_message_keys |-> <<>>]

-----------------------------------------------------------------------------
(* Encrypting *)

\* encrypt_random_length is not zero: the next message starts a sender chain.
NeedsRatchetKey(r) == r.sender_chain = <<>>

StartSenderChain(r, new_key) ==
    LET derived == CreateChainKey(r.root_key, new_key, r.receiver_chains[1].ratchet_key)
    IN  [r EXCEPT !.root_key     = derived.root_key,
                  !.sender_chain = <<[ratchet_key |-> new_key,
                                      chain_key   |-> derived.chain_key]>>]

\* The sender chain encrypt() uses; new_key is the key pair made from the
\* random bytes it is given, used only when there is no chain yet.
ReadyToSend(r, new_key) ==
    IF NeedsRatchetKey(r) THEN StartSenderChain(r, new_key) ELSE r

Encrypted(r, new_key) ==
    LET chain == ReadyToSend(r, new_key).sender_chain[1]
    IN  [ratchet_key |-> chain.ratchet_key,
         counter     |-> chain.chain_key.index,
         sealed_with |-> CreateMessageKeys(chain.chain_key)]

\* Mutant: a chain just started is not advanced.
AfterEncryptStartOnly(r, new_key) ==
    IF NeedsRatchetKey(r) THEN StartSenderChain(r, new_key)
    ELSE [r EXCEPT !.sender_chain[1].chain_key = AdvanceChainKey(@)]

AfterEncrypt(r, new_key) ==
    [ReadyToSend(r, new_key) EXCEPT !.sender_chain[1].chain_key = AdvanceChainKey(@)]

-----------------------------------------------------------------------------
(* Decrypting *)

VerifyMac(message_key, reader) == reader.sealed_with = message_key

\* Mutant: the limit on the hashes to compute is off by one.
VerifyForExistingChainBelowGap(chain_key, reader) ==
    /\ reader.counter >= chain_key.index
    /\ reader.counter - chain_key.index < MaxMessageGap
    /\ VerifyMac(CreateMessageKeys([chain_key EXCEPT !.index = reader.counter]), reader)

VerifyForExistingChain(chain_key, reader) ==
    /\ reader.counter >= chain_key.index
    /\ reader.counter - chain_key.index <= MaxMessageGap
    /\ VerifyMac(CreateMessageKeys([chain_key EXCEPT !.index = reader.counter]), reader)

VerifyForNewChain(r, reader) ==
    /\ r.sender_chain # <<>>
    /\ reader.counter <= MaxMessageGap
    /\ VerifyForExistingChain(
           CreateChainKey(r.root_key, r.sender_chain[1].ratchet_key,
                          reader.ratchet_key).chain_key, reader)

HasChain(r, reader) ==
    \E i \in DOMAIN r.receiver_chains : r.receiver_chains[i].ratchet_key = reader.ratchet_key

\* The search stops at the first chain with the message's ratchet key.
ChainFor(r, reader) ==
    CHOOSE i \in DOMAIN r.receiver_chains :
        /\ r.receiver_chains[i].ratchet_key = reader.ratchet_key
        /\ \A j \in 1..i-1 : r.receiver_chains[j].ratchet_key # reader.ratchet_key

IsLate(r, reader) ==
    r.receiver_chains[ChainFor(r, reader)].chain_key.index > reader.counter

Opens(skipped, reader) ==
    /\ skipped.message_key.index = reader.counter
    /\ skipped.ratchet_key = reader.ratchet_key
    /\ VerifyMac(skipped.message_key, reader)

HasSkipped(r, reader) ==
    \E i \in DOMAIN r.skipped_message_keys : Opens(r.skipped_message_keys[i], reader)

SkippedFor(r, reader) ==
    CHOOSE i \in DOMAIN r.skipped_message_keys :
        /\ Opens(r.skipped_message_keys[i], reader)
        /\ \A j \in 1..i-1 : ~Opens(r.skipped_message_keys[j], reader)

\* The message is authentic under a key this ratchet has or can derive.
CanDecrypt(r, reader) ==
    \/ ~HasChain(r, reader) /\ VerifyForNewChain(r, reader)
    \/ HasChain(r, reader) /\ IsLate(r, reader) /\ HasSkipped(r, reader)
    \/ /\ HasChain(r, reader) /\ ~IsLate(r, reader)
       /\ VerifyForExistingChain(r.receiver_chains[ChainFor(r, reader)].chain_key, reader)

\* Mutant: the key that opened the message stays in the list.
UseSkippedKeyKept(r, reader) == r

\* Mutant: the first key is erased instead of the one that was found.
UseSkippedKeyErasesFirst(r, reader) ==
    [r EXCEPT !.skipped_message_keys = Erase(@, 1)]

UseSkippedKey(r, reader) ==
    [r EXCEPT !.skipped_message_keys = Erase(@, SkippedFor(r, reader))]

StartReceiverChain(r, reader) ==
    LET derived == CreateChainKey(r.root_key, r.sender_chain[1].ratchet_key,
                                  reader.ratchet_key)
        chain   == [ratchet_key |-> reader.ratchet_key, chain_key |-> derived.chain_key]
    IN  [r EXCEPT !.root_key        = derived.root_key,
                  !.receiver_chains = InsertFront(@, chain, MaxReceiverChains),
                  !.sender_chain    = Erase(@, 1)]

\* Mutant: the loop runs up to and including the message's own counter.
SkippedKeysInclusive(chain, counter) ==
    [n \in 1..(counter + 1 - chain.chain_key.index) |->
        [ratchet_key |-> chain.ratchet_key,
         message_key |-> CreateMessageKeys([chain.chain_key EXCEPT !.index = counter + 1 - n])]]

\* The keys of the messages from the chain's index up to the counter, newest first.
SkippedKeys(chain, counter) ==
    [n \in 1..(counter - chain.chain_key.index) |->
        [ratchet_key |-> chain.ratchet_key,
         message_key |-> CreateMessageKeys([chain.chain_key EXCEPT !.index = counter - n])]]

\* Mutant: the new keys go behind the old ones, so that a full list drops them.
AdvanceReceiverChainAtEnd(r, i, counter) ==
    [r EXCEPT
        !.skipped_message_keys =
            Truncate(@ \o SkippedKeys(r.receiver_chains[i], counter), MaxSkippedMessageKeys),
        !.receiver_chains[i].chain_key =
            AdvanceChainKey([@ EXCEPT !.index = counter])]

\* Mutant: the chain stops at the message's own key.
AdvanceReceiverChainNoStep(r, i, counter) ==
    [r EXCEPT
        !.skipped_message_keys =
            Truncate(SkippedKeys(r.receiver_chains[i], counter) \o @, MaxSkippedMessageKeys),
        !.receiver_chains[i].chain_key = [@ EXCEPT !.index = counter]]

\* The loop and the step after it: each key passed over is inserted at the front.
AdvanceReceiverChain(r, i, counter) ==
    [r EXCEPT
        !.skipped_message_keys =
            Truncate(SkippedKeys(r.receiver_chains[i], counter) \o @, MaxSkippedMessageKeys),
        !.receiver_chains[i].chain_key =
            AdvanceChainKey([@ EXCEPT !.index = counter])]

AfterDecrypt(r, reader) ==
    IF ~HasChain(r, reader)
    THEN AdvanceReceiverChain(StartReceiverChain(r, reader), 1, reader.counter)
    ELSE IF IsLate(r, reader)
         THEN UseSkippedKey(r, reader)
         ELSE AdvanceReceiverChain(r, ChainFor(r, reader), reader.counter)

\* Mutant: a message that names a new ratchet key starts its chain before the
\* MAC is checked.
DecryptStartsChainFirst(r, reader) ==
    IF CanDecrypt(r, reader)
    THEN [ok |-> TRUE,  ratchet |-> AfterDecrypt(r, reader)]
    ELSE IF ~HasChain(r, reader) /\ r.sender_chain # <<>>
         THEN [ok |-> FALSE, ratchet |-> StartReceiverChain(r, reader)]
         ELSE [ok |-> FALSE, ratchet |-> r]

\* Mutant: a chain is advanced to a message's counter before the MAC is checked.
DecryptAdvancesFirst(r, reader) ==
    IF CanDecrypt(r, reader)
    THEN [ok |-> TRUE,  ratchet |-> AfterDecrypt(r, reader)]
    ELSE IF HasChain(r, reader) /\ ~IsLate(r, reader)
         THEN [ok |-> FALSE,
               ratchet |-> AdvanceReceiverChain(r, ChainFor(r, reader), reader.counter)]
         ELSE [ok |-> FALSE, ratchet |-> r]

\* Every check is made on copies: a message that fails leaves the ratchet alone.
Decrypt(r, reader) ==
    IF CanDecrypt(r, reader)
    THEN [ok |-> TRUE,  ratchet |-> AfterDecrypt(r, reader)]
    ELSE [ok |-> FALSE, ratchet |-> r]

-----------------------------------------------------------------------------
(* Pickling: the fields are stored in order, the lists element by element. *)

\* Mutant: the index of the sender chain is not restored.
UnpickleFirstIndex(stored) ==
    [root_key             |-> stored.root_key,
     sender_chain         |-> [i \in DOMAIN stored.sender_chain |->
                                 [stored.sender_chain[i] EXCEPT !.chain_key.index = 0]],
     receiver_chains      |-> UnpickleList(stored.receiver_chains, MaxReceiverChains),
     skipped_message_keys |-> UnpickleList(stored.skipped_message_keys, MaxSkippedMessageKeys)]

Unpickle(stored) ==
    [root_key             |-> stored.root_key,
     sender_chain         |-> UnpickleList(stored.sender_chain, 1),
     receiver_chains      |-> UnpickleList(stored.receiver_chains, MaxReceiverChains),
     skipped_message_keys |-> UnpickleList(stored.skipped_message_keys, MaxSkippedMessageKeys)]

-----------------------------------------------------------------------------
(* What holds of a ratchet between calls *)

\* Chains come newest first, each made with a longer root key than the next; a
\* chain is past every skipped key of its own; no skipped key is held twice.
KeysApart(r) ==
    /\ \A i \in DOMAIN r.receiver_chains :
          Len(r.receiver_chains[i].chain_key.key) <= Len(r.root_key)
    /\ \A i, j \in DOMAIN r.receiver_chains :
          i < j => Len(r.receiver_chains[i].chain_key.key)
                       > Len(r.receiver_chains[j].chain_key.key)
    /\ \A k \in DOMAIN r.skipped_message_keys :
          Len(r.skipped_message_keys[k].message_key.key) <= Len(r.root_key)
    /\ \A k \in DOMAIN r.skipped_message_keys, i \in DOMAIN r.receiver_chains :
          r.skipped_message_keys[k].message_key.key = r.receiver_chains[i].chain_key.key
              => r.skipped_message_keys[k].message_key.index
                     < r.receiver_chains[i].chain_key.index
    /\ \A k, l \in DOMAIN r.skipped_message_keys :
          r.skipped_message_keys[k].message_key = r.skipped_message_keys[l].message_key
              => k = l

\* The ratchet has no way left to the key: its chain is not in the future, what
\* is held of the chain is past it, and it is not among the skipped keys.
Gone(r, message_key) ==
    /\ message_key \in MessageKey
    /\ Len(message_key.key) <= Len(r.root_key)
    /\ \A i \in DOMAIN r.receiver_chains :
          r.receiver_chains[i].chain_key.key = message_key.key
              => r.receiver_chains[i].chain_key.index > message_key.index
    /\ \A k \in DOMAIN r.skipped_message_keys :
          r.skipped_message_keys[k].message_key # message_key

\* The sender chain is past the key, or has been given up since.
Spent(r, message_key) ==
    /\ message_key \in MessageKey
    /\ Len(message_key.key) <= Len(r.root_key)
    /\ r.sender_chain # <<>> /\ message_key.key = r.root_key
          => message_key.index < r.sender_chain[1].chain_key.index

OnTurn(key, t) == Len(key) % 2 = t

\* The secrets of the root key are mixed in by the two ends in turn: a party of
\* turn t receives on chains of parity t and sends on the others, and its
\* sender chain, while it has one, is the newest chain of all.
Turns(r, t) ==
    /\ \A i \in DOMAIN r.receiver_chains : OnTurn(r.receiver_chains[i].chain_key.key, t)
    /\ \A k \in DOMAIN r.skipped_message_keys :
          OnTurn(r.skipped_message_keys[k].message_key.key, t)
    /\ IF r.sender_chain = <<>>
       THEN OnTurn(r.root_key, t) /\ r.receiver_chains # <<>>
       ELSE /\ ~OnTurn(r.root_key, t)
            /\ r.sender_chain[1].chain_key.key = r.root_key
==============================================================================

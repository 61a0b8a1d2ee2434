------------------------------ MODULE GroupChat ------------------------------
(***************************************************************************)
(* One sender and several readers.  Shares and exports travel over secure  *)
(* channels that may damage them, messages over a network that delays,     *)
(* reorders, loses, repeats and damages them.  Every process may end at any*)
(* time and go on from its last pickle.                                    *)
(*                                                                         *)
(* The application saves the sender's session before it lets a message go, *)
(* so what a crash takes back was never seen by anyone; nothing in the     *)
(* library enforces that.  A reader saves whenever it likes.               *)
(***************************************************************************)
EXTENDS GroupSession, FiniteSets

CONSTANTS Readers,
          MaxMessages,        \* bound of the model: messages written
          MaxKeys,            \* bound of the model: different shares and exports
          Damages             \* the kinds of damage a key may take on its way

ASSUME ChatBounds == MaxMessages \in Nat /\ MaxKeys \in Nat

\* The parts of the ratchet that are altered, what is added to the counter, and
\* whether the signing key is altered.
ASSUME DamageAssumption ==
    Damages \subseteq [parts : SUBSET Parts, shift : Counter, other_key : BOOLEAN]

\* Indices further apart than half the range of the counter are ordered the wrong
\* way round, in the code after 2^31 messages.
ASSUME WithinHalf == MaxMessages < Period \div 2

VARIABLES
    outbound,                 \* the ratchet of the OlmOutboundGroupSession
    saved_outbound,           \* its last pickle
    written,                  \* how many messages the sender has written
    outbox,                   \* encrypted, not yet let go
    sent,                     \* all that was let go
    keys,                     \* the shares and exports made so far
    inbound,                  \* inbound[r], the OlmInboundGroupSession of r
    ready,                    \* ready[r]: creating it has succeeded
    saved_inbound,            \* the last pickle of r, or Cleared
    opened                    \* history: the messages r has decrypted

sender  == <<outbound, saved_outbound, written, outbox, sent>>
reader  == <<inbound, ready, saved_inbound, opened>>
vars    == <<outbound, saved_outbound, written, outbox, sent, keys, inbound, ready,
             saved_inbound, opened>>

Seeds == [i \in Parts |-> <<i>>]

Init ==
    /\ outbound = NewOutbound(Seeds)
    /\ saved_outbound = outbound
    /\ written = 0
    /\ outbox = {}
    /\ sent = {}
    /\ keys = {}
    /\ inbound = [r \in Readers |-> Cleared]
    /\ ready = [r \in Readers |-> FALSE]
    /\ saved_inbound = [r \in Readers |-> Cleared]
    /\ opened = [r \in Readers |-> {}]

-----------------------------------------------------------------------------
(* The sender *)

Write ==
    /\ written < MaxMessages
    /\ outbox' = outbox \union {GroupMessage(outbound, written)}
    /\ outbound' = AfterGroupEncrypt(outbound)
    /\ written' = written + 1
    /\ UNCHANGED <<saved_outbound, sent, keys, reader>>

SaveAndSend ==
    /\ outbox # {}
    /\ saved_outbound' = outbound
    /\ sent' = sent \union outbox
    /\ outbox' = {}
    /\ UNCHANGED <<outbound, written, keys, reader>>

RestartSender ==
    /\ outbound # saved_outbound
    /\ outbound' = saved_outbound
    /\ outbox' = {}
    /\ UNCHANGED <<saved_outbound, written, sent, keys, reader>>

NewKey(key) ==
    /\ keys' = keys \union {key}
    /\ Cardinality(keys') <= MaxKeys

Share ==
    /\ NewKey(SessionKey(outbound))
    /\ UNCHANGED <<sender, reader>>

-----------------------------------------------------------------------------
(* The readers *)

\* An Ed25519 key that is nobody's.
OtherKey == "other"

\* A key that arrives other than it was made.  An altered part ends in a seed that
\* nobody uses; the signature, if there is one, no longer fits.
Damaged(key, damage) ==
    [version     |-> key.version,
     counter     |-> (key.counter + damage.shift) % Period,
     data        |-> [i \in Parts |-> IF i \in damage.parts THEN Append(key.data[i], 4)
                                                            ELSE key.data[i]],
     signing_key |-> IF damage.other_key THEN OtherKey ELSE key.signing_key,
     signed      |-> FALSE]

Arriving == keys \union { Damaged(key, damage) : key \in keys, damage \in Damages }

\* A new session object, or one whose creation failed, tried with any key made
\* so far, as it was or damaged, by either of the two calls.
Create(r) ==
    /\ ~ready[r]
    /\ \E key \in Arriving,
          version \in {SESSION_KEY_VERSION, SESSION_EXPORT_VERSION} :
         LET result == InitGroupSessionKeys(inbound[r], key, version)
         IN  /\ inbound' = [inbound EXCEPT ![r] = result.session]
             /\ ready' = [ready EXCEPT ![r] = result.ok]
    /\ UNCHANGED <<sender, keys, saved_inbound, opened>>

Receive(r, message) ==
    /\ ready[r]
    /\ LET result == GroupDecrypt(inbound[r], message)
       IN  /\ inbound' = [inbound EXCEPT ![r] = result.session]
           /\ opened' = IF result.ok
                        THEN [opened EXCEPT ![r] = @ \union
                                 {[index |-> message.index, plaintext |-> result.result]}]
                        ELSE opened
    /\ UNCHANGED <<sender, keys, ready, saved_inbound>>

\* A message arrives, any number of times and in any order, perhaps damaged.
ReceiveAny(r) ==
    \E m \in sent, damaged \in BOOLEAN :
        Receive(r, IF damaged THEN [m EXCEPT !.signed_by = NoKey] ELSE m)

\* An export at any index of the conversation, also one not yet written.
ExportKey(r) ==
    /\ ready[r]
    /\ \E index \in 0..MaxMessages :
         LET result == Export(inbound[r], index)
         IN  /\ inbound' = [inbound EXCEPT ![r] = result.session]
             /\ IF result.ok THEN NewKey(result.result) ELSE UNCHANGED keys
    /\ UNCHANGED <<sender, ready, saved_inbound, opened>>

SaveReader(r) ==
    /\ ready[r]
    /\ saved_inbound' = [saved_inbound EXCEPT ![r] = inbound[r]]
    /\ UNCHANGED <<sender, keys, inbound, ready, opened>>

\* Without a pickle the session is lost, and a new one may be created.
RestartReader(r) ==
    /\ inbound' = [inbound EXCEPT ![r] = saved_inbound[r]]
    /\ ready' = [ready EXCEPT ![r] = saved_inbound[r] # Cleared]
    /\ UNCHANGED <<sender, keys, saved_inbound, opened>>

Next ==
    \/ Write \/ SaveAndSend \/ RestartSender \/ Share
    \/ \E r \in Readers :
         \/ Create(r) \/ ReceiveAny(r) \/ ExportKey(r) \/ SaveReader(r) \/ RestartReader(r)

Spec == Init /\ [][Next]_vars

-----------------------------------------------------------------------------
(* Properties *)

\* The ratchet of the sender at each index.
RatchetAt == [index \in Counter |-> AdvanceTo(NewOutbound(Seeds), index)]

\* A session has the sender's signing key, and its initial ratchet leads to the
\* sender's at an index.  A part that was damaged is reseeded from a higher one that
\* was not, and a wrong counter is overtaken in the same way, so that index may lie
\* some way after the first known one.
Joins(session, index) ==
    /\ session.signing_key = SigningKey
    /\ index >= FirstKnownIndex(session)
    /\ AdvanceTo(session.initial_ratchet, index) = RatchetAt[index]

\* The indices whose messages r should be able to open.
Known(r) == { i \in 0..MaxMessages : ready[r] /\ Joins(inbound[r], i) }

\* What r was given is what the sender had at some index.
Genuine(r) == FirstKnownIndex(inbound[r]) \in Known(r)

\* A reader can open, at any time and however often, exactly the messages where its
\* initial ratchet has met the sender's; with an undamaged one, all from its first
\* known index on.  Neither the messages it opened or refused before, nor the exports
\* it made, nor going back to an old pickle changes that.
HistoryReadable ==
    \A r \in Readers : ready[r] =>
        \A m \in sent :
            LET opens == GroupDecrypt(inbound[r], m).ok
            IN  /\ opens <=> m.index \in Known(r)
                /\ Genuine(r) => (opens <=> m.index >= FirstKnownIndex(inbound[r]))

OfSender(key, index) ==
    key.data = RatchetAt[index].data /\ key.signing_key = SigningKey

\* The same for handing the history on: an export hands on the ratchet and the key
\* of the sender exactly where the reader has them, and one who was given them
\* undamaged can make it at every index from its first known one on.
HistoryExportable ==
    \A r \in Readers : ready[r] =>
        \A i \in 0..MaxMessages :
            LET result == Export(inbound[r], i)
            IN  /\ result.ok => (OfSender(result.result, i) <=> i \in Known(r))
                /\ Genuine(r) => (result.ok <=> i >= FirstKnownIndex(inbound[r]))

\* olm_inbound_group_session_is_verified: a session that says so was either given the
\* sender's ratchet and key as they are, or has opened a message with them, even if
\* creating it failed before or it comes from an export, which nobody signs.
VerifiedOnEvidence ==
    \A r \in Readers :
        ready[r] /\ inbound[r].signing_key_verified =>
            Genuine(r) \/ \E e \in opened[r] : e.index \in Known(r)

\* Together with the discipline of the application, the history of what is sent
\* and opened is as GroupHistory has it, through every crash and damage.
Seen(m) == [index |-> m.index, plaintext |-> m.plaintext]

History == INSTANCE GroupHistory WITH
    Index     <- 0..MaxMessages,
    Plaintext <- 0 .. MaxMessages - 1,
    sent      <- { Seen(m) : m \in sent },
    known     <- [r \in Readers |-> Known(r)]

HistorySpec == History!Spec
==============================================================================

------------------------------- MODULE Session -------------------------------
(***************************************************************************)
(* One Session (src/session.cpp): how either end sets it up, and what it   *)
(* makes of its messages.  The first root and chain keys of its ratchet    *)
(* come from the shared secret of a triple Diffie-Hellman; Ratchet names   *)
(* all keys relative to it, so a session and its messages carry it here.   *)
(***************************************************************************)
EXTENDS Ratchet, Account

PublicKey == Nat

\* The keys that a pre-key message carries in front of its body.
SessionKeys == [alice_identity_key : PublicKey, alice_base_key : PublicKey,
                bob_one_time_key : PublicKey]

SessionState == [keys : SessionKeys, shared_secret : Seq(Secret),
                 received_message : BOOLEAN, ratchet : RatchetState]

PRE_KEY == 0
MESSAGE == 1

\* A message and its place in the session; the receiver of a normal message
\* does not see the keys.
SessionMessage == [type : {PRE_KEY, MESSAGE}, keys : SessionKeys,
                   shared_secret : Seq(Secret), body : WireMessage]

\* session_id: a hash of the three keys.
SessionId(session) == session.keys

\* Each shared secret is made of a key pair and a public key.
NewOutboundSession(identity_key, their_identity_key, one_time_key, base_key, ratchet_key) ==
    [keys             |-> [alice_identity_key |-> identity_key,
                           alice_base_key     |-> base_key,
                           bob_one_time_key   |-> one_time_key],
     shared_secret    |-> << {identity_key, one_time_key},
                             {base_key, their_identity_key},
                             {base_key, one_time_key} >>,
     received_message |-> FALSE,
     ratchet          |-> InitialiseAsAlice(ratchet_key)]

\* Mutant: the one-time key is not looked up.
AcceptsInboundAnyKey(account, expected, message) ==
    /\ message.type = PRE_KEY
    /\ \A key \in expected : key = message.keys.alice_identity_key

\* The caller may name the identity key it expects: expected has at most one.
AcceptsInbound(account, expected, message) ==
    /\ message.type = PRE_KEY
    /\ \A key \in expected : key = message.keys.alice_identity_key
    /\ LookupKey(account, message.keys.bob_one_time_key)

\* Mutant: the identity key and the base key change places in the agreement.
NewInboundSessionSwapped(identity_key, message) ==
    [keys             |-> message.keys,
     shared_secret    |-> << {identity_key, message.keys.alice_base_key},
                             {message.keys.bob_one_time_key, message.keys.alice_identity_key},
                             {message.keys.bob_one_time_key, message.keys.alice_base_key} >>,
     received_message |-> FALSE,
     ratchet          |-> InitialiseAsBob(message.body.ratchet_key)]

NewInboundSession(identity_key, message) ==
    [keys             |-> message.keys,
     shared_secret    |-> << {message.keys.bob_one_time_key, message.keys.alice_identity_key},
                             {identity_key, message.keys.alice_base_key},
                             {message.keys.bob_one_time_key, message.keys.alice_base_key} >>,
     received_message |-> FALSE,
     ratchet          |-> InitialiseAsBob(message.body.ratchet_key)]

\* Mutant: sessions with the same one-time key are taken for the same.
MatchesWithoutBaseKey(session, expected, message) ==
    /\ \A key \in expected : key = session.keys.alice_identity_key
    /\ message.keys.alice_identity_key = session.keys.alice_identity_key
    /\ message.keys.bob_one_time_key = session.keys.bob_one_time_key

\* matches_inbound_session of a pre-key message.
MatchesInboundSession(session, expected, message) ==
    /\ \A key \in expected : key = session.keys.alice_identity_key
    /\ message.keys = session.keys

EncryptMessageType(session) == IF session.received_message THEN MESSAGE ELSE PRE_KEY

EncryptedMessage(session, new_key) ==
    [type          |-> EncryptMessageType(session),
     keys          |-> session.keys,
     shared_secret |-> session.shared_secret,
     body          |-> Encrypted(session.ratchet, new_key)]

SessionAfterEncrypt(session, new_key) ==
    [session EXCEPT !.ratchet = AfterEncrypt(@, new_key)]

\* The MAC of a message that was damaged, or made with other secrets, is right
\* under no key of this session.
NoKey == [key |-> <<>>, index |-> -1]

Reader(session, message) ==
    IF message.shared_secret = session.shared_secret
    THEN message.body
    ELSE [message.body EXCEPT !.sealed_with = NoKey]

\* Mutant: received_message is set whether or not the ratchet accepts the message.
DecryptMessageMarksAlways(session, message) ==
    LET result == Decrypt(session.ratchet, Reader(session, message))
    IN  [ok      |-> result.ok,
         session |-> [session EXCEPT !.ratchet = result.ratchet, !.received_message = TRUE]]

\* decrypt() looks at the body only, of either type of message.
DecryptMessage(session, message) ==
    LET result == Decrypt(session.ratchet, Reader(session, message))
    IN  [ok      |-> result.ok,
         session |-> [session EXCEPT !.ratchet          = result.ratchet,
                                     !.received_message = @ \/ result.ok]]
==============================================================================

----------------------------- MODULE GroupSession -----------------------------
(***************************************************************************)
(* The two session objects of a group conversation, as values: what        *)
(* src/outbound_group_session.c and src/inbound_group_session.c do to one  *)
(* of them.  An operator for a call that can fail returns the session after*)
(* the call, whether it succeeded, and the error code it left.             *)
(*                                                                         *)
(* A signature or a MAC is right exactly if it covers what was signed, so  *)
(* a message carries the ratchet value that encrypted it and the key that  *)
(* verifies its signature.  What is damaged on the way has a signature that*)
(* no key verifies.                                                        *)
(***************************************************************************)
EXTENDS Megolm

SUCCESS               == "SUCCESS"
BAD_SESSION_KEY       == "BAD_SESSION_KEY"
BAD_SIGNATURE         == "BAD_SIGNATURE"
BAD_MESSAGE_MAC       == "BAD_MESSAGE_MAC"
UNKNOWN_MESSAGE_INDEX == "UNKNOWN_MESSAGE_INDEX"

SESSION_KEY_VERSION    == 2            \* of a share, signed by the sender
SESSION_EXPORT_VERSION == 1            \* of an export, not signed

\* Ed25519 public keys: the one of the sender's pair, the zero bytes of a cleared
\* session, and what a message that was damaged has instead of one.
SigningKey == "signing key"
ZeroKey    == "zero"
NoKey      == "none"

\* a - b as uint32_t, and the test that orders two indices.
Difference(a, b) == (a - b) % Period
AtOrAfter(a, b)  == Difference(a, b) < Period \div 2

-----------------------------------------------------------------------------
(* The sender *)

NewOutbound(random_data) == MegolmInit(random_data, 0)

\* olm_group_encrypt: the message, and the ratchet after it.
GroupMessage(ratchet, plaintext) ==
    [index       |-> ratchet.counter,
     sealed_with |-> ratchet.data,
     plaintext   |-> plaintext,
     signed_by   |-> SigningKey]

\* Mutant: the message is sent without advancing the ratchet.
AfterGroupEncryptStays(ratchet) == ratchet

AfterGroupEncrypt(ratchet) == Advance(ratchet)

\* olm_outbound_group_session_key.  signed: the key verifies with the signing key
\* that is in it.
SessionKey(ratchet) ==
    [version     |-> SESSION_KEY_VERSION,
     counter     |-> ratchet.counter,
     data        |-> ratchet.data,
     signing_key |-> SigningKey,
     signed      |-> TRUE]

-----------------------------------------------------------------------------
(* The reader *)

\* What olm_clear_inbound_group_session leaves: all bytes zero.
Cleared ==
    [initial_ratchet      |-> MegolmInit([i \in Parts |-> <<>>], 0),
     latest_ratchet       |-> MegolmInit([i \in Parts |-> <<>>], 0),
     signing_key          |-> ZeroKey,
     signing_key_verified |-> FALSE]

Fail(session, error)   == [session |-> session, ok |-> FALSE, last_error |-> error]
Succeed(session, result) ==
    [session |-> session, ok |-> TRUE, last_error |-> SUCCESS, result |-> result]

\* Mutant: an export counts as verified.
KeysVerifiedAlways(session, key) ==
    [initial_ratchet      |-> MegolmInit(key.data, key.counter),
     latest_ratchet       |-> MegolmInit(key.data, key.counter),
     signing_key          |-> key.signing_key,
     signing_key_verified |-> TRUE]

\* The fields that _init_group_session_keys has set when it returns success.
KeysTaken(session, key) ==
    [initial_ratchet      |-> MegolmInit(key.data, key.counter),
     latest_ratchet       |-> MegolmInit(key.data, key.counter),
     signing_key          |-> key.signing_key,
     signing_key_verified |-> session.signing_key_verified
                                  \/ key.version = SESSION_KEY_VERSION]

\* olm_init_inbound_group_session and olm_import_inbound_group_session, which
\* expect a share and an export.  The ratchets and the signing key are overwritten
\* before the signature of a share is checked, so a refused share leaves them
\* changed.  Of an export nothing is checked but its version.
InitGroupSessionKeys(session, key, expected_version) ==
    IF key.version # expected_version
    THEN Fail(session, BAD_SESSION_KEY)
    ELSE IF expected_version = SESSION_KEY_VERSION /\ ~key.signed
    THEN Fail([KeysTaken(session, key)
                  EXCEPT !.signing_key_verified = session.signing_key_verified],
              BAD_SIGNATURE)
    ELSE Succeed(KeysTaken(session, key), 0)

\* Mutant: an index before the first known one is not refused.
GetMegolmUnchecked(session, message_index) ==
    IF AtOrAfter(message_index, session.latest_ratchet.counter)
    THEN LET megolm == AdvanceTo(session.latest_ratchet, message_index)
         IN  Succeed([session EXCEPT !.latest_ratchet = megolm], megolm)
    ELSE Succeed(session, AdvanceTo(session.initial_ratchet, message_index))

\* Mutant: the latest ratchet is advanced only half way.
GetMegolmHalfMoved(session, message_index) ==
    IF AtOrAfter(message_index, session.latest_ratchet.counter)
    THEN LET megolm == AdvanceTo(session.latest_ratchet, message_index)
         IN  Succeed([session EXCEPT !.latest_ratchet.counter = message_index], megolm)
    ELSE IF ~AtOrAfter(message_index, session.initial_ratchet.counter)
    THEN Fail(session, UNKNOWN_MESSAGE_INDEX)
    ELSE Succeed(session, AdvanceTo(session.initial_ratchet, message_index))

\* The ratchet at an index: from the latest one, which is kept where it gets to,
\* or from a copy of the initial one.
GetMegolm(session, message_index) ==
    IF AtOrAfter(message_index, session.latest_ratchet.counter)
    THEN LET megolm == AdvanceTo(session.latest_ratchet, message_index)
         IN  Succeed([session EXCEPT !.latest_ratchet = megolm], megolm)
    ELSE IF ~AtOrAfter(message_index, session.initial_ratchet.counter)
    THEN Fail(session, UNKNOWN_MESSAGE_INDEX)
    ELSE Succeed(session, AdvanceTo(session.initial_ratchet, message_index))

\* olm_group_decrypt, of a message whose header could be decoded, into a buffer
\* that is large enough.  The latest ratchet has moved before the MAC is checked.
GroupDecrypt(session, message) ==
    IF message.signed_by # session.signing_key
    THEN Fail(session, BAD_SIGNATURE)
    ELSE LET got == GetMegolm(session, message.index)
         IN  IF ~got.ok THEN got
             ELSE IF got.result.data # message.sealed_with
             THEN Fail(got.session, BAD_MESSAGE_MAC)
             ELSE Succeed([got.session EXCEPT !.signing_key_verified = TRUE],
                          message.plaintext)

\* olm_export_inbound_group_session: the session after it, and the key.
Export(session, message_index) ==
    LET got == GetMegolm(session, message_index)
    IN  IF ~got.ok THEN got
        ELSE Succeed(got.session, [version     |-> SESSION_EXPORT_VERSION,
                                   counter     |-> message_index,
                                   data        |-> got.result.data,
                                   signing_key |-> session.signing_key,
                                   signed      |-> FALSE])

FirstKnownIndex(session) == session.initial_ratchet.counter
==============================================================================

-------------------------------- MODULE Pickle --------------------------------
(***************************************************************************)
(* The binary form in which the five kinds of objects are stored, and the  *)
(* envelope around it, src/pickle_encoding.c.                              *)
(*                                                                         *)
(* A layout is the sequence of the fields of an object after the version   *)
(* number; an object is the sequence of the bytes of its fields, and a     *)
(* list is its size followed by its elements.                              *)
(***************************************************************************)
EXTENDS Base64

Word     == [type |-> "word",  length |-> 4, element |-> <<>>]
Flag     == [type |-> "flag",  length |-> 1, element |-> <<>>]
Bytes(n) == [type |-> "bytes", length |-> n, element |-> <<>>]
ListOf(element) == [type |-> "list", length |-> 4, element |-> element]

PublicKey         == Bytes(32)
SharedKey         == Bytes(32)
Curve25519KeyPair == <<PublicKey, Bytes(32)>>
Ed25519KeyPair    == <<PublicKey, Bytes(64)>>
Megolm            == <<Bytes(128), Word>>

Versions == [account          |-> <<0, 0, 0, 2>>,
             session          |-> <<0, 0, 0, 1>>,
             pk_decryption    |-> <<0, 0, 0, 1>>,
             outbound_session |-> <<0, 0, 0, 1>>,
             inbound_session  |-> <<0, 0, 0, 2>>]

Kinds == DOMAIN Versions

\* The layouts of older versions and of the branch that logged chain indices.
LOGGING_VERSION == <<128, 0, 0, 1>>

OldVersions(kind) == CASE kind = "session"         -> {LOGGING_VERSION}
                       [] kind = "inbound_session" -> {<<0, 0, 0, 1>>}
                       [] OTHER                    -> {}

Account == Ed25519KeyPair \o Curve25519KeyPair
             \o <<ListOf(<<Word, Flag>> \o Curve25519KeyPair), Word>>

Ratchet == <<SharedKey,
             ListOf(Curve25519KeyPair \o <<SharedKey, Word>>),
             ListOf(<<PublicKey, SharedKey, Word>>),
             ListOf(<<PublicKey, SharedKey, Word>>)>>

\* Mutant: the chain index of an old pickle is not stepped over.
SessionWithoutChainIndex(version) ==
    <<Flag, PublicKey, PublicKey, PublicKey>> \o Ratchet

Session(version) ==
    <<Flag, PublicKey, PublicKey, PublicKey>> \o Ratchet
      \o (IF version = LOGGING_VERSION THEN <<Word>> ELSE <<>>)

InboundSession(version) ==
    Megolm \o Megolm \o <<PublicKey>>
      \o (IF version = <<0, 0, 0, 1>> THEN <<>> ELSE <<Flag>>)

Layout(kind, version) ==
    CASE kind = "account"          -> Account
      [] kind = "session"          -> Session(version)
      [] kind = "pk_decryption"    -> Curve25519KeyPair
      [] kind = "outbound_session" -> Megolm \o Ed25519KeyPair
      [] kind = "inbound_session"  -> InboundSession(version)

PickleObject(version, object) == version \o FlattenSeq(object)

\* What an object of the present layout holds that was stored in another: all
\* shares were verified before there was a field for it, and the chain index is
\* dropped.
Restored(kind, version, object) ==
    CASE kind = "inbound_session" /\ version \in OldVersions(kind) -> Append(object, <<1>>)
      [] kind = "session" /\ version = LOGGING_VERSION             -> Front(object)
      [] OTHER                                                     -> object

Number(word) == FoldLeft(LAMBDA n, b : 256 * n + b, 0, word)

\* AES-CBC fills the last block up with bytes that say how many they are, a whole
\* block where the input ends with one.
AES_BLOCK_LENGTH == 16
Padding(raw)     == AES_BLOCK_LENGTH - (Len(raw) % AES_BLOCK_LENGTH)

CIPHER_MAC_LENGTH == 8

\* _olm_enc_output: the encrypted object and its code, in base64.
Seal(raw, key) ==
    [raw |-> raw, key |-> key, intact |-> TRUE,
     length |-> EncodeLength(Len(raw) + Padding(raw) + CIPHER_MAC_LENGTH)]

\* _olm_enc_input: <<>> and an error, or the object.  Decoding is done in place, so
\* a text that was looked at is no longer one, whatever comes of it.
OpenSeal(text, key) ==
    IF DecodeLength(text.length) = -1
    THEN [raw |-> <<>>, last_error |-> "INVALID_BASE64", left |-> text]
    ELSE [raw        |-> IF text.intact /\ text.key = key THEN text.raw ELSE <<>>,
          last_error |-> IF text.intact /\ text.key = key THEN "" ELSE "BAD_ACCOUNT_KEY",
          left       |-> [text EXCEPT !.intact = FALSE]]
===============================================================================

--------------------------- MODULE AndroidSession ---------------------------
(***************************************************************************)
(* The JNI functions of a session: android/.../jni/olm_session.cpp.        *)
(***************************************************************************)
EXTENDS NativeSteps

createNewSessionJni == Making("session", NewObject("session"), {})

releaseSessionJni == Releasing("session")

\* The way out after setRandomInBuffer fails does not come by the release of its buffer.
initOutboundSessionJni ==
    Procedure(<<Instance>> \o AllGiven(<<"account", "identity key", "one time key">>)
                \o <<PassingBy(RandomIfAny("random"), {"random"}),
                     Acquire("theirIdentityKey"), Acquire("theirOneTimeKey"),
                     Library({"theirIdentityKey", "theirOneTimeKey", "random"}, {})>>,
              {"theirIdentityKey", "theirOneTimeKey", "random"})

initInboundSessionJni ==
    Procedure(<<Instance>> \o AllGiven(<<"account", "message">>)
                \o <<Acquire("message"), Library({"message"}, {"message"})>>,
              {"message"})

initInboundSessionFromIdKeyJni ==
    Procedure(<<Instance>> \o AllGiven(<<"account", "identity key", "message">>)
                \o <<Acquire("message"), Acquire("theirIdentityKey"),
                     Library({"theirIdentityKey", "message"}, {"message"})>>,
              {"message", "theirIdentityKey"})

\* What goes wrong here counts as no match.
matchesInboundSessionJni ==
    Procedure(<<Instance, Given("message"), Acquire("message"),
                Library({"message"}, {"message"})>>,
              {"message"})

matchesInboundSessionFromIdKeyJni ==
    Procedure(<<Instance, Given("identity key"), Acquire("theirIdentityKey"),
                Given("message"), Acquire("message"),
                Library({"theirIdentityKey", "message"}, {"message"})>>,
              {"theirIdentityKey", "message"})

encryptMessageJni ==
    Procedure(<<Instance>> \o AllGiven(<<"clear message", "encrypted message">>)
                \o <<Acquire("clearMsg"), Given("class"), Given("mType"),
                     PassingBy(RandomIfAny("random"), {"random"}),
                     Acquire("encryptedMsg"),
                     Library({"clearMsg", "random", "encryptedMsg"}, {})>>
                \o Returning("encryptedMsg"),
              {"clearMsg", "random", "encryptedMsg"})

\* Mutant: the message is not copied again after its length was computed.
decryptMessageWithoutReload ==
    Procedure(<<Instance>> \o AllGiven(<<"encrypted message", "class", "mCipherText", "mType",
                         "string">>)
                \o <<Acquire("encryptedMsg"),
                     Unchecked(Acquire("temp")), Copy("temp", "encryptedMsg"),
                     Library({"temp"}, {"temp"}),
                     Unchecked(Acquire("plainText")), Library({"temp", "plainText"}, {"temp"})>>
                \o Returning("plainText"),
              {"encryptedMsg", "temp", "plainText"})

decryptMessageJni ==
    Procedure(<<Instance>> \o AllGiven(<<"encrypted message", "class", "mCipherText", "mType",
                         "string">>)
                \o <<Acquire("encryptedMsg"),
                     Unchecked(Acquire("temp")), Copy("temp", "encryptedMsg"),
                     Library({"temp"}, {"temp"}),
                     Unchecked(Acquire("plainText")), Copy("temp", "encryptedMsg"),
                     Library({"temp", "plainText"}, {"temp"})>>
                \o Returning("plainText"),
              {"encryptedMsg", "temp", "plainText"})

getSessionIdentifierJni ==
    Procedure(<<Instance, Acquire("sessionId"), Library({"sessionId"}, {})>>
                \o Returning("sessionId"),
              {"sessionId"})

serializeJni ==
    Procedure(<<Instance>> \o AllGiven(<<"key">>)
                \o <<Acquire("key"), Acquire("pickled"), Library({"key", "pickled"}, {})>>
                \o Returning("pickled"),
              {"key", "pickled"})

\* The session is made before the arguments are looked at.
deserializeJni ==
    Making("session",
           NewObject("session")
             \o <<Given("key"), Given("data"), Acquire("key"), Acquire("pickled"),
                  Library({"session", "key", "pickled"}, {"pickled"})>>,
           {"key", "pickled"})

Procedures ==
    [createNewSessionJni               |-> createNewSessionJni,
     releaseSessionJni                 |-> releaseSessionJni,
     initOutboundSessionJni            |-> initOutboundSessionJni,
     initInboundSessionJni             |-> initInboundSessionJni,
     initInboundSessionFromIdKeyJni    |-> initInboundSessionFromIdKeyJni,
     matchesInboundSessionJni          |-> matchesInboundSessionJni,
     matchesInboundSessionFromIdKeyJni |-> matchesInboundSessionFromIdKeyJni,
     encryptMessageJni                 |-> encryptMessageJni,
     decryptMessageJni                 |-> decryptMessageJni,
     getSessionIdentifierJni           |-> getSessionIdentifierJni,
     serializeJni                      |-> serializeJni,
     deserializeJni                    |-> deserializeJni]
=============================================================================

---------------------------- MODULE AndroidGroup ----------------------------
(***************************************************************************)
(* The JNI functions of the group sessions:                                *)
(* android/.../jni/olm_inbound_group_session.cpp and                       *)
(* olm_outbound_group_session.cpp.                                         *)
(***************************************************************************)
EXTENDS NativeSteps

releaseInbound  == Releasing("session")
releaseOutbound == Releasing("session")

createInbound ==
    Making("session",
           <<Acquire("session"), Given("session key"), Acquire("sessionKey"),
             Library({"session", "sessionKey"}, {})>>,
           {"sessionKey"})

inboundSessionIdentifier ==
    Procedure(<<Instance, Acquire("sessionId"), Library({"sessionId"}, {})>>
                \o Returning("sessionId"),
              {"sessionId"})

inboundDecryptMessage ==
    Procedure(<<Instance>> \o AllGiven(<<"encrypted message", "result object">>)
                \o <<Acquire("encryptedMsg"), Given("class"), Given("mIndex"),
                     Acquire("temp"), Copy("temp", "encryptedMsg"),
                     Library({"temp"}, {"temp"}),
                     Unchecked(Acquire("plainText")), Copy("temp", "encryptedMsg"),
                     Library({"temp", "plainText"}, {"temp"})>>
                \o Returning("plainText"),
              {"encryptedMsg", "temp", "plainText"})

firstKnownIndex == Procedure(<<Instance>>, {})
isVerified      == Procedure(<<Instance>>, {})

export ==
    Procedure(<<Instance, Acquire("buffer"), Library({"buffer"}, {})>> \o Returning("buffer"),
              {"buffer"})

inboundSerialize ==
    Procedure(<<Instance>> \o AllGiven(<<"key">>)
                \o <<Acquire("key"), Acquire("pickled"), Library({"key", "pickled"}, {})>>
                \o Returning("pickled"),
              {"key", "pickled"})

inboundDeserialize ==
    Making("session",
           <<Acquire("session"), Given("key"), Given("data"), Acquire("key"), Acquire("pickled"),
             Library({"session", "key", "pickled"}, {"pickled"})>>,
           {"key", "pickled"})

\* The way out after setRandomInBuffer fails does not come by the release of its buffer.
createOutbound ==
    Making("session",
           <<Acquire("session"), PassingBy(RandomIfAny("random"), {"random"}),
             Library({"session", "random"}, {})>>,
           {"random"})

outboundSessionIdentifier ==
    Procedure(<<Instance, Acquire("sessionId"), Library({"sessionId"}, {})>>
                \o Returning("sessionId"),
              {"sessionId"})

messageIndex == Procedure(<<Instance>>, {})

sessionKey ==
    Procedure(<<Instance, Acquire("sessionKey"), Library({"sessionKey"}, {})>>
                \o Returning("sessionKey"),
              {"sessionKey"})

outboundEncryptMessage ==
    Procedure(<<Instance>> \o AllGiven(<<"clear message">>)
                \o <<Acquire("clearMsg"), Acquire("encryptedMsg"),
                     Library({"clearMsg", "encryptedMsg"}, {})>>
                \o Returning("encryptedMsg"),
              {"clearMsg", "encryptedMsg"})

outboundSerialize ==
    Procedure(<<Instance>> \o AllGiven(<<"key">>)
                \o <<Acquire("key"), Acquire("pickled"), Library({"key", "pickled"}, {})>>
                \o Returning("pickled"),
              {"key", "pickled"})

outboundDeserialize ==
    Making("session",
           <<Acquire("session"), Given("key"), Given("data"), Acquire("key"), Acquire("pickled"),
             Library({"session", "key", "pickled"}, {"pickled"})>>,
           {"key", "pickled"})

Procedures ==
    [releaseInbound            |-> releaseInbound,
     releaseOutbound           |-> releaseOutbound,
     createInbound             |-> createInbound,
     inboundSessionIdentifier  |-> inboundSessionIdentifier,
     inboundDecryptMessage     |-> inboundDecryptMessage,
     firstKnownIndex           |-> firstKnownIndex,
     isVerified                |-> isVerified,
     export                    |-> export,
     inboundSerialize          |-> inboundSerialize,
     inboundDeserialize        |-> inboundDeserialize,
     createOutbound            |-> createOutbound,
     outboundSessionIdentifier |-> outboundSessionIdentifier,
     messageIndex              |-> messageIndex,
     sessionKey                |-> sessionKey,
     outboundEncryptMessage    |-> outboundEncryptMessage,
     outboundSerialize         |-> outboundSerialize,
     outboundDeserialize       |-> outboundDeserialize]
=============================================================================

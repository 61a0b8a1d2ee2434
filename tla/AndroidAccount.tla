--------------------------- MODULE AndroidAccount ---------------------------
(***************************************************************************)
(* The JNI functions of an account, of the utility and of public-key       *)
(* encryption: android/.../jni/olm_account.cpp, olm_utility.cpp and        *)
(* olm_pk.cpp.                                                             *)
(***************************************************************************)
EXTENDS NativeSteps

createNewAccountJni ==
    Making("account",
           NewObject("account")
             \o <<RandomIfAny("random"), Library({"account", "random"}, {})>>,
           {"random"})

releaseAccountJni == Releasing("account")

\* -1 when there is no account.
maxOneTimeKeysJni == Procedure(<<Instance>>, {})

\* The allocation of the array that is returned is checked here.
ReturningChecked(buffer) == <<Acquire("result"), Copy("result", buffer)>>

identityKeysJni ==
    Procedure(<<Instance, Acquire("identityKeys"), Library({"identityKeys"}, {})>>
                \o ReturningChecked("identityKeys"),
              {"identityKeys"})

oneTimeKeysJni ==
    Procedure(<<Instance, Acquire("keys"), Library({"keys"}, {})>> \o ReturningChecked("keys"),
              {"keys"})

generateOneTimeKeysJni ==
    Procedure(<<Instance, RandomIfAny("random"), Library({"random"}, {})>>, {"random"})

removeOneTimeKeysJni ==
    Procedure(<<Given("session"), Instance, Library({}, {})>>, {})

markOneTimeKeysAsPublishedJni == Procedure(<<Instance, Library({}, {})>>, {})

\* Mutant: the way out after the signature's allocation fails does not release the message.
signMessagePassingBy ==
    Procedure(<<Given("message"), Instance, Unchecked(Acquire("message")),
                PassingBy(Acquire("signedMsg"), {"message"}),
                Library({"message", "signedMsg"}, {})>>
                \o Returning("signedMsg"),
              {"signedMsg", "message"})

signMessageJni ==
    Procedure(<<Given("message"), Instance, Unchecked(Acquire("message")),
                Acquire("signedMsg"), Library({"message", "signedMsg"}, {})>>
                \o Returning("signedMsg"),
              {"signedMsg", "message"})

\* Mutant: the buffer of the pickle is used without a look whether it was allocated.
serializeUnchecked ==
    Procedure(<<Given("key"), Instance, Acquire("key"), Unchecked(Acquire("pickled")),
                Library({"key", "pickled"}, {})>>
                \o Returning("pickled"),
              {"key", "pickled"})

serializeJni ==
    Procedure(<<Given("key"), Instance, Acquire("key"), Acquire("pickled"),
                Library({"key", "pickled"}, {})>>
                \o Returning("pickled"),
              {"key", "pickled"})

deserializeJni ==
    Making("account",
           AllGiven(<<"key", "data">>)
             \o NewObject("account")
             \o <<Acquire("key"), Acquire("pickled"),
                  Library({"account", "key", "pickled"}, {"pickled"})>>,
           {"key", "pickled"})

createUtilityJni == Making("utility", NewObject("utility"), {})

releaseUtilityJni == Releasing("utility")

\* The error of a signature that is not right is returned, any other failure is not.
verifyEd25519SignatureJni ==
    Procedure(<<Instance, Given("arguments"),
                Acquire("signature"), Acquire("key"), Acquire("message"),
                Library({"key", "message", "signature"}, {"signature"})>>,
              {"signature", "key", "message"})

sha256Jni ==
    Procedure(<<Instance, Given("message"), Acquire("message"),
                Acquire("hashValue"), Library({"message", "hashValue"}, {})>>
                \o Returning("hashValue"),
              {"message", "hashValue"})

Procedures ==
    [createNewAccountJni           |-> createNewAccountJni,
     releaseAccountJni             |-> releaseAccountJni,
     maxOneTimeKeysJni             |-> maxOneTimeKeysJni,
     identityKeysJni               |-> identityKeysJni,
     oneTimeKeysJni                |-> oneTimeKeysJni,
     generateOneTimeKeysJni        |-> generateOneTimeKeysJni,
     removeOneTimeKeysJni          |-> removeOneTimeKeysJni,
     markOneTimeKeysAsPublishedJni |-> markOneTimeKeysAsPublishedJni,
     signMessageJni                |-> signMessageJni,
     serializeJni                  |-> serializeJni,
     deserializeJni                |-> deserializeJni,
     createUtilityJni              |-> createUtilityJni,
     releaseUtilityJni             |-> releaseUtilityJni,
     verifyEd25519SignatureJni     |-> verifyEd25519SignatureJni,
     sha256Jni                     |-> sha256Jni]

-----------------------------------------------------------------------------
(* Public-key encryption *)

createNewPkEncryptionJni == Making("encryption", NewObject("encryption"), {})
createNewPkDecryptionJni == Making("decryption", NewObject("decryption"), {})

releasePkEncryptionJni == Releasing("encryption")
releasePkDecryptionJni == Releasing("decryption")

setRecipientKeyJni ==
    Procedure(<<Instance, Given("key"), Acquire("key"), Library({"key"}, {})>>,
              {"key"})

encryptJni ==
    Procedure(<<Instance, Given("plaintext"), Acquire("plaintext"),
                Given("class"), Given("mMac"), Given("mEphemeralKey"),
                Acquire("ciphertext"), Acquire("mac"), Acquire("ephemeral"), Random("random"),
                Library({"plaintext", "random", "ciphertext", "mac", "ephemeral"}, {})>>
                \o Returning("ciphertext"),
              {"random", "ephemeral", "mac", "ciphertext", "plaintext"})

\* The public key's buffer is not released.
setPrivateKeyJni ==
    Procedure(<<Instance, Given("key"), Acquire("key"), Acquire("publicKey"),
                Library({"key", "publicKey"}, {})>>
                \o Returning("publicKey"),
              {"key"})

\* Nor is it here.
generateKeyJni ==
    Procedure(<<Instance, Random("random"), Acquire("publicKey"),
                Library({"random", "publicKey"}, {})>>
                \o Returning("publicKey"),
              {"random"})

\* The private key's buffer is cleared, not released.
privateKeyJni ==
    Procedure(<<Instance, Acquire("privateKey"), Library({"privateKey"}, {})>>
                \o Returning("privateKey"),
              {})

\* The characters of the ciphertext are got twice under one name.
decryptJni ==
    Procedure(<<Instance>>
                \o AllGiven(<<"encrypted message", "class", "mCipherText", "string">>)
                \o <<Acquire("ciphertext"), Given("string"), Acquire("ciphertext"),
                     Given("mMac"), Given("string"), Acquire("mac"),
                     Given("mEphemeralKey"), Given("string"), Acquire("ephemeralKey"),
                     Acquire("plaintext"), Acquire("tempCiphertext"),
                     Copy("tempCiphertext", "ciphertext"),
                     Library({"ephemeralKey", "mac", "tempCiphertext", "plaintext"},
                             {"tempCiphertext"})>>
                \o Returning("plaintext"),
              {"tempCiphertext", "plaintext", "ciphertext", "mac", "ephemeralKey"})

PkProcedures ==
    [createNewPkEncryptionJni |-> createNewPkEncryptionJni,
     createNewPkDecryptionJni |-> createNewPkDecryptionJni,
     releasePkEncryptionJni   |-> releasePkEncryptionJni,
     releasePkDecryptionJni   |-> releasePkDecryptionJni,
     setRecipientKeyJni       |-> setRecipientKeyJni,
     encryptJni               |-> encryptJni,
     setPrivateKeyJni         |-> setPrivateKeyJni,
     generateKeyJni           |-> generateKeyJni,
     privateKeyJni            |-> privateKeyJni,
     decryptJni               |-> decryptJni]
=============================================================================

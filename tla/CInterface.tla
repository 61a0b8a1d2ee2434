----------------------------- MODULE CInterface -----------------------------
(***************************************************************************)
(* The functions of the C interface (src/olm.cpp, src/pk.cpp and the group *)
(* sessions), and the ones below them that make secrets (src/session.cpp,  *)
(* ratchet.cpp, cipher.cpp, crypto.cpp), as procedures: what they check,   *)
(* in which order, what they decode in place, and which secrets, handed to *)
(* them or made in local variables, are overwritten before they return.  A *)
(* failure is told by olm_error().  What a function does to its object is  *)
(* in the modules of the object.                                           *)
(***************************************************************************)
EXTENDS NativeSteps

\* The length of a buffer does not fit, or the object refuses what it was asked for.
Length(buffer) == Given(buffer)
Method         == Library({}, {})

\* b64_input: the length is checked, then the buffer is decoded in place.
Input(buffer) == <<Length(buffer), Unchecked(Library({buffer}, {buffer}))>>

\* Secrets in local variables, which every way out after them overwrites.
Locals(secrets) == [i \in DOMAIN secrets |-> Holding(secrets[i])]

Local(secrets, steps) ==
    Procedure(Locals(secrets) \o steps, {secrets[i] : i \in DOMAIN secrets})

\* Placement new on memory that was overwritten.
Constructing(object) == Making(object, <<Holding(object)>>, {})
Clearing(object)     == Procedure(<<Holding(object)>>, {object})

\* The random bytes are overwritten on the way out, whatever the method answers.
Consuming(checks) == Procedure(<<Holding("random")>> \o checks \o <<Method>>, {"random"})

olm_account       == Constructing("account")
olm_session       == Constructing("session")
olm_utility       == Constructing("utility")
olm_clear_account == Clearing("account")
olm_clear_session == Clearing("session")
olm_clear_utility == Clearing("utility")

olm_create_account                 == Consuming(<<>>)
olm_account_generate_one_time_keys == Consuming(<<>>)

\* A function that writes text when the buffer is long enough for it.
Output == Procedure(<<Length("output"), Method>>, {})

olm_account_identity_keys == Procedure(<<Method>>, {})
olm_account_one_time_keys == Procedure(<<Method>>, {})
olm_account_sign          == Output
olm_remove_one_time_keys  == Procedure(<<Method>>, {})

\* When a key has the wrong length the random bytes stay as they were.
olm_create_outbound_session ==
    Procedure(<<Holding("random"),
                PassingBy(Length("identity key"), {"random"}),
                PassingBy(Length("one time key"), {"random"}), Method>>,
              {"random"})

olm_create_inbound_session      == Procedure(Input("message") \o <<Method>>, {})
olm_create_inbound_session_from ==
    Procedure(<<Length("identity key")>> \o Input("message") \o <<Method>>, {})

olm_session_id == Output

\* That there is no match is no failure.
olm_matches_inbound_session      == Procedure(Input("message") \o <<Unchecked(Method)>>, {})
olm_matches_inbound_session_from ==
    Procedure(<<Length("identity key")>> \o Input("message") \o <<Unchecked(Method)>>, {})

\* When the message's buffer is too small the random bytes stay as they were.
olm_encrypt ==
    Procedure(<<Holding("random"), PassingBy(Length("message"), {"random"}), Method>>,
              {"random"})

olm_decrypt_max_plaintext_length == Procedure(Input("message") \o <<Method>>, {})
olm_decrypt                      == Procedure(Input("message") \o <<Method>>, {})

olm_sha256 == Output

olm_ed25519_verify ==
    Procedure(<<Length("key")>> \o Input("signature") \o <<Library({"message"}, {})>>, {})

-----------------------------------------------------------------------------
(* Group sessions *)

olm_clear_inbound_group_session  == Clearing("session")
olm_clear_outbound_group_session == Clearing("session")

\* The key that was decoded is overwritten, whether it is accepted or not.
KeyBuffer ==
    Procedure(<<Length("base64"), Length("session key"), Holding("key_buf"), Method>>,
              {"key_buf"})

olm_init_inbound_group_session   == KeyBuffer
olm_import_inbound_group_session == KeyBuffer

\* When there are too few random bytes, those stay as they were.
olm_init_outbound_group_session ==
    Procedure(<<Holding("random"), PassingBy(Length("random"), {"random"})>>, {"random"})

olm_group_decrypt_max_plaintext_length ==
    Procedure(Input("message") \o AllGiven(<<"version", "ciphertext">>), {})

\* The copy of the ratchet is made by _get_megolm.
olm_group_decrypt ==
    Procedure(Input("message")
                \o AllGiven(<<"version", "fields", "signature", "plaintext", "index">>)
                \o Locals(<<"megolm">>) \o <<Method>>,
              {"megolm"})

\* The copy of the ratchet stays in its local variable.
olm_export_inbound_group_session ==
    Procedure(<<Length("key"), Given("index"), Holding("megolm")>>, {})

olm_inbound_group_session_id  == Procedure(<<Length("id")>>, {})
olm_outbound_group_session_id == Procedure(<<Length("id")>>, {})

-----------------------------------------------------------------------------
(* Public-key encryption *)

olm_pk_encryption       == Constructing("encryption")
olm_pk_decryption       == Constructing("decryption")
olm_clear_pk_encryption == Clearing("encryption")
olm_clear_pk_decryption == Clearing("decryption")

olm_pk_encryption_set_recipient_key == Procedure(<<Length("key")>>, {})

\* Nothing of what the message was encrypted with is overwritten.
olm_pk_encrypt ==
    Procedure(<<Holding("random"), Length("outputs"), Length("random"),
                Holding("ephemeral_keypair"), Holding("secret"), Method>>,
              {})

olm_pk_key_from_private == Procedure(<<Length("pubkey"), Length("privkey")>>, {})

\* The random bytes are the private key.  They stay as they were.
olm_pk_generate_key ==
    Procedure(<<Holding("privkey")>> \o olm_pk_key_from_private.steps, {})

olm_pickle_pk_decryption == Output

olm_unpickle_pk_decryption ==
    Procedure(<<Length("pubkey")>> \o Input("pickled") \o AllGiven(<<"version", "end">>), {})

\* The ciphertext is decoded in place, without a look at its length.
olm_pk_decrypt ==
    Procedure(<<Length("plaintext"), Holding("secret"),
                Unchecked(Library({"ephemeral_key", "mac", "ciphertext"}, {"ciphertext"})), Method>>,
              {})

olm_pk_get_private_key == Procedure(<<Length("private_key")>>, {})

-----------------------------------------------------------------------------
(* Where the secrets are made *)

\* The local secrets of functions that are part of others.  No key is longer than
\* a block, so that hmac_sha256_key copies it and makes no secret of its own.
hmac_sha256_init  == <<"i_pad">>
hmac_sha256_final == <<"o_pad", "final_context">>
derive_keys       == <<"derived_secrets">>
create_chain_key  == <<"secret", "derived_secrets">>

crypto_sha256      == Local(<<"context">>, <<>>)
crypto_hmac_sha256 ==
    Local(<<"hmac_key", "context">> \o hmac_sha256_init \o hmac_sha256_final, <<>>)
crypto_hkdf_sha256 ==
    Local(<<"hmac_key", "context", "step_result">> \o hmac_sha256_init \o hmac_sha256_final,
          <<>>)

crypto_aes_encrypt_cbc == Local(<<"key_schedule", "input_block">>, <<>>)
crypto_aes_decrypt_cbc == Local(<<"key_schedule", "block1", "block2">>, <<Given("padding")>>)

cipher_encrypt ==
    Procedure(<<Length("ciphertext"), Length("output")>> \o Locals(<<"keys">> \o derive_keys),
              {"keys", "derived_secrets"})

cipher_decrypt ==
    Procedure(<<Length("plaintext"), Length("input")>> \o Locals(<<"keys">> \o derive_keys)
                \o AllGiven(<<"mac", "padding">>),
              {"keys", "derived_secrets"})

initialise_as_bob   == Local(<<"derived_secrets">>, <<>>)
initialise_as_alice == Local(<<"derived_secrets">>, <<>>)

ratchet_encrypt ==
    Procedure(AllGiven(<<"random", "output">>) \o Locals(create_chain_key \o <<"keys">>),
              {"secret", "derived_secrets", "keys"})

\* The key of the message stays in its local variable.
verify_for_existing_chain ==
    Procedure(AllGiven(<<"counter", "gap">>) \o Locals(<<"new_chain", "message_key">>)
                \o <<Method>>,
              {"new_chain"})

\* Its chain is another than the copy that the function it calls makes.
verify_for_new_chain ==
    Procedure(AllGiven(<<"sender chain", "gap">>)
                \o Locals(<<"new_root_key", "chain">> \o create_chain_key)
                \o verify_for_existing_chain.steps,
              {"new_root_key", "chain", "secret", "derived_secrets", "new_chain"})

\* The keys of the triple Diffie-Hellman and what it gives.
new_outbound_session ==
    Procedure(<<Length("random")>>
                \o Locals(<<"base_key", "ratchet_key", "secret", "derived_secrets">>),
              {"base_key", "ratchet_key", "secret", "derived_secrets"})

new_inbound_session ==
    Procedure(AllGiven(<<"fields", "identity key", "ratchet key", "one time key">>)
                \o Locals(<<"secret", "derived_secrets">>),
              {"secret", "derived_secrets"})

Procedures ==
    [olm_account                            |-> olm_account,
     olm_session                            |-> olm_session,
     olm_utility                            |-> olm_utility,
     olm_clear_account                      |-> olm_clear_account,
     olm_clear_session                      |-> olm_clear_session,
     olm_clear_utility                      |-> olm_clear_utility,
     olm_create_account                     |-> olm_create_account,
     olm_account_generate_one_time_keys     |-> olm_account_generate_one_time_keys,
     olm_account_identity_keys              |-> olm_account_identity_keys,
     olm_account_one_time_keys              |-> olm_account_one_time_keys,
     olm_account_sign                       |-> olm_account_sign,
     olm_remove_one_time_keys               |-> olm_remove_one_time_keys,
     olm_create_outbound_session            |-> olm_create_outbound_session,
     olm_create_inbound_session             |-> olm_create_inbound_session,
     olm_create_inbound_session_from        |-> olm_create_inbound_session_from,
     olm_session_id                         |-> olm_session_id,
     olm_matches_inbound_session            |-> olm_matches_inbound_session,
     olm_matches_inbound_session_from       |-> olm_matches_inbound_session_from,
     olm_encrypt                            |-> olm_encrypt,
     olm_decrypt_max_plaintext_length       |-> olm_decrypt_max_plaintext_length,
     olm_decrypt                            |-> olm_decrypt,
     olm_sha256                             |-> olm_sha256,
     olm_ed25519_verify                     |-> olm_ed25519_verify,
     olm_clear_inbound_group_session        |-> olm_clear_inbound_group_session,
     olm_clear_outbound_group_session       |-> olm_clear_outbound_group_session,
     olm_init_inbound_group_session         |-> olm_init_inbound_group_session,
     olm_import_inbound_group_session       |-> olm_import_inbound_group_session,
     olm_init_outbound_group_session        |-> olm_init_outbound_group_session,
     olm_group_decrypt_max_plaintext_length |-> olm_group_decrypt_max_plaintext_length,
     olm_group_decrypt                      |-> olm_group_decrypt,
     olm_export_inbound_group_session       |-> olm_export_inbound_group_session,
     olm_inbound_group_session_id           |-> olm_inbound_group_session_id,
     olm_outbound_group_session_id          |-> olm_outbound_group_session_id,
     olm_pk_encryption                      |-> olm_pk_encryption,
     olm_pk_decryption                      |-> olm_pk_decryption,
     olm_clear_pk_encryption                |-> olm_clear_pk_encryption,
     olm_clear_pk_decryption                |-> olm_clear_pk_decryption,
     olm_pk_encryption_set_recipient_key    |-> olm_pk_encryption_set_recipient_key,
     olm_pk_encrypt                         |-> olm_pk_encrypt,
     olm_pk_key_from_private                |-> olm_pk_key_from_private,
     olm_pk_generate_key                    |-> olm_pk_generate_key,
     olm_pickle_pk_decryption               |-> olm_pickle_pk_decryption,
     olm_unpickle_pk_decryption             |-> olm_unpickle_pk_decryption,
     olm_pk_decrypt                         |-> olm_pk_decrypt,
     olm_pk_get_private_key                 |-> olm_pk_get_private_key,
     crypto_sha256                          |-> crypto_sha256,
     crypto_hmac_sha256                     |-> crypto_hmac_sha256,
     crypto_hkdf_sha256                     |-> crypto_hkdf_sha256,
     crypto_aes_encrypt_cbc                 |-> crypto_aes_encrypt_cbc,
     crypto_aes_decrypt_cbc                 |-> crypto_aes_decrypt_cbc,
     cipher_encrypt                         |-> cipher_encrypt,
     cipher_decrypt                         |-> cipher_decrypt,
     initialise_as_bob                      |-> initialise_as_bob,
     initialise_as_alice                    |-> initialise_as_alice,
     ratchet_encrypt                        |-> ratchet_encrypt,
     verify_for_existing_chain              |-> verify_for_existing_chain,
     verify_for_new_chain                   |-> verify_for_new_chain,
     new_outbound_session                   |-> new_outbound_session,
     new_inbound_session                    |-> new_inbound_session]
=============================================================================

-------------------------- MODULE JavascriptCalls ---------------------------
(***************************************************************************)
(* The methods of the JavaScript binding: javascript/olm_post.js,          *)
(* olm_pk.js, olm_inbound_group_session.js, olm_outbound_group_session.js. *)
(* Most of their buffers are on Emscripten's stack, which restore_stack    *)
(* takes back whatever happens; what they malloc, unchecked, is released   *)
(* in finally.  An error of the library is thrown.                         *)
(***************************************************************************)
EXTENDS NativeSteps

Malloc(buffer) == Unchecked(Acquire(buffer))

\* random_stack: get_random_values may throw.
RandomStack == Given("random")

\* The text of an argument is put on the stack.
Stack(buffer, text) == Copy(buffer, text)

OnStack(reads)         == Procedure(<<Library(reads, {})>>, {})
Randomised(reads)      == Procedure(<<RandomStack, Library(reads \union {"random"}, {})>>, {})
Consuming(reads, text) ==
    Procedure(<<Stack("buffer", text), Library(reads \union {"buffer"}, {"buffer"})>>, {})

\* The constructors and the free() of every class.
Constructed == Making("object", <<Malloc("object"), Unchecked(Library({"object"}, {}))>>, {})
Freed       == Procedure(<<Holding("object")>>, {"object"})

account_create                 == Randomised({})
account_identity_keys          == OnStack({})
account_sign                   == OnStack({"message"})
account_one_time_keys          == OnStack({})
account_mark_keys_as_published == OnStack({})
account_generate_one_time_keys == Randomised({})
account_remove_one_time_keys   == OnStack({})
account_pickle                 == OnStack({"key"})
account_unpickle               == Consuming({"key"}, "pickle")

session_pickle               == OnStack({"key"})
session_unpickle             == Consuming({"key"}, "pickle")
session_create_outbound      == Randomised({"identity_key", "one_time_key"})
session_create_inbound       == Consuming({}, "message")
session_create_inbound_from  == Consuming({"identity_key"}, "message")
session_session_id           == OnStack({})
session_matches_inbound      == Consuming({}, "message")
session_matches_inbound_from == Consuming({"identity_key"}, "message")

session_encrypt ==
    Procedure(<<Library({}, {}), Library({}, {}), Library({}, {}), RandomStack,
                Malloc("plaintext_buffer"), Copy("plaintext_buffer", "plaintext"),
                Malloc("message_buffer"),
                Library({"plaintext_buffer", "random", "message_buffer"}, {})>>,
              {"plaintext_buffer", "message_buffer"})

\* "calculating the length destroys the input buffer, so we need to re-copy it"
session_decrypt ==
    Procedure(<<Malloc("message_buffer"), Copy("message_buffer", "message"),
                Library({"message_buffer"}, {"message_buffer"}),
                Copy("message_buffer", "message"), Malloc("plaintext_buffer"),
                Library({"message_buffer", "plaintext_buffer"}, {"message_buffer"})>>,
              {"message_buffer", "plaintext_buffer"})

utility_sha256         == OnStack({"input"})
utility_ed25519_verify == Consuming({"key", "message"}, "signature")

pk_set_recipient_key == OnStack({"key"})

pk_encrypt ==
    Procedure(<<Malloc("plaintext_buffer"), Copy("plaintext_buffer", "plaintext"), RandomStack,
                Malloc("ciphertext_buffer"),
                Library({"plaintext_buffer", "random", "ciphertext_buffer"}, {})>>,
              {"plaintext_buffer", "ciphertext_buffer"})

pk_init_with_private_key == OnStack({"private_key"})
pk_generate_key          == Randomised({})
pk_get_private_key       == OnStack({})
pk_pickle                == OnStack({"key"})
pk_unpickle              == Consuming({"key"}, "pickle")

pk_decrypt ==
    Procedure(<<Malloc("ciphertext_buffer"), Copy("ciphertext_buffer", "ciphertext"),
                Library({}, {}), Malloc("plaintext_buffer"),
                Library({"ephemeralkey", "mac", "ciphertext_buffer", "plaintext_buffer"},
                        {"ciphertext_buffer"})>>,
              {"ciphertext_buffer", "plaintext_buffer"})

inbound_pickle            == OnStack({"key"})
inbound_unpickle          == Consuming({"key"}, "pickle")
inbound_create            == OnStack({"key"})
inbound_import_session    == OnStack({"key"})

inbound_decrypt ==
    Procedure(<<Malloc("message_buffer"), Copy("message_buffer", "message"),
                Library({"message_buffer"}, {"message_buffer"}),
                Copy("message_buffer", "message"), Malloc("plaintext_buffer"),
                Library({"message_buffer", "plaintext_buffer"}, {"message_buffer"})>>,
              {"message_buffer", "plaintext_buffer"})

inbound_session_id        == OnStack({})
inbound_export_session    == OnStack({})

outbound_pickle      == OnStack({"key"})
outbound_unpickle    == Consuming({"key"}, "pickle")
outbound_create      == Randomised({})

outbound_encrypt ==
    Procedure(<<Library({}, {}), Malloc("plaintext_buffer"),
                Copy("plaintext_buffer", "plaintext"), Malloc("message_buffer"),
                Library({"plaintext_buffer", "message_buffer"}, {})>>,
              {"plaintext_buffer", "message_buffer"})

outbound_session_id  == OnStack({})
outbound_session_key == OnStack({})

Procedures ==
    [constructed                    |-> Constructed,
     freed                          |-> Freed,
     account_create                 |-> account_create,
     account_identity_keys          |-> account_identity_keys,
     account_sign                   |-> account_sign,
     account_one_time_keys          |-> account_one_time_keys,
     account_mark_keys_as_published |-> account_mark_keys_as_published,
     account_generate_one_time_keys |-> account_generate_one_time_keys,
     account_remove_one_time_keys   |-> account_remove_one_time_keys,
     account_pickle                 |-> account_pickle,
     account_unpickle               |-> account_unpickle,
     session_pickle                 |-> session_pickle,
     session_unpickle               |-> session_unpickle,
     session_create_outbound        |-> session_create_outbound,
     session_create_inbound         |-> session_create_inbound,
     session_create_inbound_from    |-> session_create_inbound_from,
     session_session_id             |-> session_session_id,
     session_matches_inbound        |-> session_matches_inbound,
     session_matches_inbound_from   |-> session_matches_inbound_from,
     session_encrypt                |-> session_encrypt,
     session_decrypt                |-> session_decrypt,
     utility_sha256                 |-> utility_sha256,
     utility_ed25519_verify         |-> utility_ed25519_verify,
     pk_set_recipient_key           |-> pk_set_recipient_key,
     pk_encrypt                     |-> pk_encrypt,
     pk_init_with_private_key       |-> pk_init_with_private_key,
     pk_generate_key                |-> pk_generate_key,
     pk_get_private_key             |-> pk_get_private_key,
     pk_pickle                      |-> pk_pickle,
     pk_unpickle                    |-> pk_unpickle,
     pk_decrypt                     |-> pk_decrypt,
     inbound_pickle                 |-> inbound_pickle,
     inbound_unpickle               |-> inbound_unpickle,
     inbound_create                 |-> inbound_create,
     inbound_import_session         |-> inbound_import_session,
     inbound_decrypt                |-> inbound_decrypt,
     inbound_session_id             |-> inbound_session_id,
     inbound_export_session         |-> inbound_export_session,
     outbound_pickle                |-> outbound_pickle,
     outbound_unpickle              |-> outbound_unpickle,
     outbound_create                |-> outbound_create,
     outbound_encrypt               |-> outbound_encrypt,
     outbound_session_id            |-> outbound_session_id,
     outbound_session_key           |-> outbound_session_key]
=============================================================================

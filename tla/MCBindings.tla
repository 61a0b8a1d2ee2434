----------------------------- MODULE MCBindings -----------------------------
(* Every procedure of the bindings, called as <<class, function>>. *)
EXTENDS BindingCalls, TLC

Session == INSTANCE AndroidSession
Account == INSTANCE AndroidAccount
Group   == INSTANCE AndroidGroup
C       == INSTANCE CInterface
Gem     == INSTANCE RubyCalls
Script  == INSTANCE JavascriptCalls

Of(class, procedures) ==
    [p \in {class} \X DOMAIN procedures |-> procedures[p[2]]]

MCProcedures ==
    Of("session", Session!Procedures) @@ Of("account", Account!Procedures)
      @@ Of("group", Group!Procedures) @@ Of("pk", Account!PkProcedures)
      @@ Of("ruby", Gem!Procedures) @@ Of("javascript", Script!Procedures)
      @@ Of("c", C!Procedures)

MCKnownLeaks ==
    << "session", "initOutboundSessionJni" >> :> {"random"}
      @@ << "session", "encryptMessageJni" >> :> {"random"}
      @@ << "group", "createOutbound" >> :> {"random"}
      @@ << "pk", "setPrivateKeyJni" >> :> {"publicKey"}
      @@ << "pk", "generateKeyJni" >> :> {"publicKey"}
      @@ << "pk", "privateKeyJni" >> :> {"privateKey"}
      @@ << "pk", "decryptJni" >> :> {"ciphertext"}
      @@ [p \in {"ruby"} \X {"one_time_keys", "sign", "account_to_pickle", "session_to_pickle",
                             "encrypt", "decrypt"} |-> {"ptr"}]
      @@ << "ruby", "alloc_account" >> :> {"account"}
      @@ << "ruby", "alloc_session" >> :> {"session"}
      @@ << "ruby", "alloc_utility" >> :> {"utility"}
      @@ [p \in {"c"} \X {"olm_create_outbound_session", "olm_encrypt",
                          "olm_init_outbound_group_session"} |-> {"random"}]
      @@ << "c", "olm_export_inbound_group_session" >> :> {"megolm"}
      @@ << "c", "olm_pk_encrypt" >> :> {"random", "ephemeral_keypair", "secret"}
      @@ << "c", "olm_pk_generate_key" >> :> {"privkey"}
      @@ << "c", "olm_pk_decrypt" >> :> {"secret"}
      @@ [p \in {"c"} \X {"verify_for_existing_chain", "verify_for_new_chain"} |->
             {"message_key"}]

\* The buffers the code does not look at: the object of a new Ruby object, what the
\* JavaScript binding mallocs, two buffers of each of Android's decryptions, the message
\* that is signed, and the Java arrays that are returned, but for two of them.
Android   == {"session", "account", "group", "pk"}
Returned  == {p \in DOMAIN MCProcedures :
                 p[1] \in Android /\ p[2] \notin {"identityKeysJni", "oneTimeKeysJni"}}
Ciphers   == {"javascript"} \X {"session_encrypt", "outbound_encrypt",
                               "session_decrypt", "inbound_decrypt"}
PkCiphers == {"javascript"} \X {"pk_encrypt", "pk_decrypt"}

MCUnguarded ==
    << "session", "decryptMessageJni" >> :> {"temp", "plainText", "result"}
      @@ << "group", "inboundDecryptMessage" >> :> {"plainText", "result"}
      @@ << "account", "signMessageJni" >> :> {"message", "result"}
      @@ [p \in Returned |-> {"result"}]
      @@ << "ruby", "alloc_account" >> :> {"account"}
      @@ << "ruby", "alloc_session" >> :> {"session"}
      @@ << "ruby", "alloc_utility" >> :> {"utility"}
      @@ << "javascript", "constructed" >> :> {"object"}
      @@ [p \in Ciphers |-> {"plaintext_buffer", "message_buffer"}]
      @@ [p \in PkCiphers |-> {"plaintext_buffer", "ciphertext_buffer"}]
=============================================================================

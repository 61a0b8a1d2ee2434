---------------------------- MODULE SessionSetup ----------------------------
(***************************************************************************)
(* Two users who set up sessions with each other, perhaps both at once.    *)
(* Each has an account with published one-time keys, which the other may   *)
(* start more than one session with.  What either sends arrives in any     *)
(* order, any number of times, intact or damaged.                          *)
(*                                                                         *)
(* The library leaves three things to its user, and they are guards here:  *)
(* an inbound session is created only when no session will_receive? the    *)
(* message (test_bob_no_answer.rb), its one-time key is removed only when  *)
(* it has decrypted something, since a damaged message can create one too, *)
(* and such a session is thrown away only when its key is removed.         *)
(***************************************************************************)
EXTENDS Session, FiniteSets

CONSTANTS Alice, Bob,
          KeysEach,      \* bound of the model: one-time keys of each user
          MaxStarted,    \* bound of the model: outbound sessions started in all
          MaxSessions,   \* bound of the model: sessions a user has at a time
          MaxSent        \* bound of the model: messages the two send in all

ASSUME SetupBounds ==
    /\ Alice # Bob
    /\ KeysEach \in 1..MaxOneTimeKeys
    /\ MaxStarted \in Nat /\ MaxSessions \in Nat /\ MaxSent \in Nat

VARIABLES
    account,     \* account[p], an AccountState
    sessions,    \* sessions[p]: the sessions p has
    next_key,    \* next_key[p]: the number of the next key pair p generates
    removed,     \* history: the one-time keys that p has removed
    started,     \* history: how many outbound sessions there have been
    sent,        \* history: the messages p has encrypted, in order
    opened,      \* history: <<q, n>> once p has decrypted q's message n
    decrypted    \* history: how many calls of decrypt by p have succeeded

vars == <<account, sessions, next_key, removed, started, sent, opened, decrypted>>

Party   == {Alice, Bob}
Peer(p) == IF p = Alice THEN Bob ELSE Alice

\* The identity key of p; p's other key pairs have the numbers after it: the
\* one-time keys, two for each outbound session, one for a message at most.
KeysPerUser == 1 + KeysEach + 2 * MaxStarted + MaxSent

IdentityKey(p) == IF p = Alice THEN 1 ELSE 1 + KeysPerUser

\* The key of a message whose key was damaged: nobody's.
Garbage == 0

NewKeys(p) ==
    MarkKeysAsPublished(GenerateOneTimeKeys(NewAccount, KeysEach, IdentityKey(p)))

Init ==
    /\ account = [p \in Party |-> NewKeys(p)]
    /\ sessions = [p \in Party |-> {}]
    /\ next_key = [p \in Party |-> IdentityKey(p) + KeysEach + 1]
    /\ started = 0
    /\ removed = [p \in Party |-> {}]
    /\ sent = [p \in Party |-> <<>>]
    /\ opened = [p \in Party |-> {}]
    /\ decrypted = [p \in Party |-> 0]

-----------------------------------------------------------------------------
(* Calls of p's application *)

Outbound(p, key) ==
    /\ started < MaxStarted
    /\ started' = started + 1
    /\ Cardinality(sessions[p]) < MaxSessions
    /\ sessions' = [sessions EXCEPT ![p] = @ \union
           {NewOutboundSession(IdentityKey(p), IdentityKey(Peer(p)), key,
                               next_key[p], next_key[p] + 1)}]
    /\ next_key' = [next_key EXCEPT ![p] = @ + 2]
    /\ UNCHANGED <<account, removed, sent, opened, decrypted>>

Inbound(p, expected, message) ==
    /\ Cardinality(sessions[p]) < MaxSessions
    /\ ~\E s \in sessions[p] : MatchesInboundSession(s, {}, message)
    /\ AcceptsInbound(account[p], expected, message)
    /\ sessions' = [sessions EXCEPT ![p] = @ \union
                      {NewInboundSession(IdentityKey(p), message)}]
    /\ UNCHANGED <<account, next_key, removed, started, sent, opened, decrypted>>

Encrypt(p, s) ==
    /\ Len(sent[Alice]) + Len(sent[Bob]) < MaxSent
    /\ sent' = [sent EXCEPT ![p] = Append(@, EncryptedMessage(s, next_key[p]))]
    /\ sessions' = [sessions EXCEPT ![p] =
                      (@ \ {s}) \union {SessionAfterEncrypt(s, next_key[p])}]
    /\ next_key' = [next_key EXCEPT ![p] = IF NeedsRatchetKey(s.ratchet) THEN @ + 1 ELSE @]
    /\ UNCHANGED <<account, removed, started, opened, decrypted>>

\* Session s of p is given what arrives as the message called id.
Receive(p, s, id, message) ==
    LET result == DecryptMessage(s, message)
    IN  /\ sessions' = [sessions EXCEPT ![p] = (@ \ {s}) \union {result.session}]
        /\ opened' = IF result.ok THEN [opened EXCEPT ![p] = @ \union {id}] ELSE opened
        /\ decrypted' = IF result.ok THEN [decrypted EXCEPT ![p] = @ + 1] ELSE decrypted
        /\ UNCHANGED <<account, next_key, removed, started, sent>>

RemoveOneTimeKey(p, s) ==
    /\ s.received_message
    /\ LookupKey(account[p], s.keys.bob_one_time_key)
    /\ account' = [account EXCEPT ![p] = RemoveKey(@, s.keys.bob_one_time_key)]
    /\ removed' = [removed EXCEPT ![p] = @ \union {s.keys.bob_one_time_key}]
    /\ UNCHANGED <<sessions, next_key, started, sent, opened, decrypted>>

Discard(p, s) ==
    /\ s.received_message => ~LookupKey(account[p], s.keys.bob_one_time_key)
    /\ sessions' = [sessions EXCEPT ![p] = @ \ {s}]
    /\ UNCHANGED <<account, next_key, removed, started, sent, opened, decrypted>>

-----------------------------------------------------------------------------
(* The network.  Damage makes a key another one, or the MAC wrong; a ratchet *)
(* key is under the MAC, the keys in front of the body are not.              *)

DamagedKeys(message) ==
    { [message EXCEPT !.keys.alice_identity_key = Garbage],
      [message EXCEPT !.keys.alice_base_key = Garbage],
      [message EXCEPT !.keys.bob_one_time_key = Garbage] }

DamagedBody(message) ==
    { [message EXCEPT !.body.sealed_with = NoKey],
      [message EXCEPT !.body.sealed_with = NoKey, !.body.ratchet_key = Garbage] }

Intact(id) == sent[id[1]][id[2]]

\* What may arrive of a message.  decrypt() does not look at the keys.
Arriving(id)     == {Intact(id)} \union DamagedKeys(Intact(id)) \union DamagedBody(Intact(id))
BodyArriving(id) == {Intact(id)} \union DamagedBody(Intact(id))

Ids == { <<q, n>> : q \in Party, n \in 1..MaxSent }
Sent == { id \in Ids : id[2] \in DOMAIN sent[id[1]] }

Next ==
    \E p \in Party :
        \/ \E key \in { k.key : k \in Keys(NewKeys(Peer(p))) } : Outbound(p, key)
        \/ \E id \in Sent : \E message \in Arriving(id) :
              \E expected \in {{}, {IdentityKey(Peer(p))}} : Inbound(p, expected, message)
        \/ \E s \in sessions[p] : Encrypt(p, s)
        \/ \E s \in sessions[p], id \in Sent : \E message \in BodyArriving(id) :
              Receive(p, s, id, message)
        \/ \E s \in sessions[p] : RemoveOneTimeKey(p, s)
        \/ \E s \in sessions[p] : Discard(p, s)

Spec == Init /\ [][Next]_vars

-----------------------------------------------------------------------------
(* Properties *)

\* A session that has decrypted anything is one end of a conversation whose
\* other end wrote it: both ends have the same id and the same shared secret
\* (olm.h 309-310: the id is the same for both ends of the conversation).
EndsAgree ==
    \A p \in Party : \A s \in sessions[p] :
        s.received_message =>
            \E id \in opened[p] :
                /\ id[1] = Peer(p)
                /\ SessionId(s) = sent[id[1]][id[2]].keys
                /\ s.shared_secret = sent[id[1]][id[2]].shared_secret

\* will_receive? is true of exactly the messages of the session's other end,
\* whichever user started which session, for every intact pre-key message.
RoutedRight ==
    \A p \in Party : \A s \in sessions[p], id \in { i \in Sent : i[1] = Peer(p) } :
        LET message == sent[id[1]][id[2]]
        IN  s.received_message /\ message.type = PRE_KEY =>
                (MatchesInboundSession(s, {}, message)
                    <=> s.shared_secret = message.shared_secret)

\* Each user's sessions together promise what one session does: at most once,
\* and only what the peer made.
Promise == INSTANCE Channel WITH made     <- [p \in Party |-> Len(sent[p])],
                                 accepted <- opened,
                                 count    <- decrypted

ChannelSpec == Promise!Spec

\* Whichever pre-key message of a session is the first to arrive intact, it can
\* be read, however many sessions damaged messages have created: by the session
\* that has read others of its kind, or else by a new one, unless the one-time
\* key has gone to another session.  The limits of the ratchet apply: on how far
\* ahead a message is, and on how many before it can have been passed over.
OnFirstChain(p, keys) ==
    \A id \in opened[p] :
        sent[id[1]][id[2]].keys = keys =>
            /\ sent[id[1]][id[2]].body.sealed_with.key = <<>>
            /\ sent[id[1]][id[2]].body.counter <= MaxSkippedMessageKeys

Readable(p, message) ==
    LET ends == { s \in sessions[p] : s.received_message /\ s.keys = message.keys }
    IN  IF ends # {}
        THEN \A s \in ends : DecryptMessage(s, message).ok
        ELSE message.keys.bob_one_time_key \notin removed[p] =>
                 /\ AcceptsInbound(account[p], {IdentityKey(Peer(p))}, message)
                 /\ DecryptMessage(NewInboundSession(IdentityKey(p), message), message).ok

PreKeyReadable ==
    \A p \in Party : \A id \in Sent \ opened[p] :
        LET message == sent[id[1]][id[2]]
        IN  /\ id[1] = Peer(p) /\ message.type = PRE_KEY
            /\ message.keys.alice_identity_key = IdentityKey(Peer(p))
            /\ message.body.counter <= MaxMessageGap
            /\ OnFirstChain(p, message.keys)
            => Readable(p, message)
==============================================================================

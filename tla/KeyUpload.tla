------------------------------ MODULE KeyUpload ------------------------------
(***************************************************************************)
(* An account and the directory that hands its one-time keys to whoever    *)
(* wants to start a session.  The owner generates keys, lists the          *)
(* unpublished ones, uploads the list and then marks the keys as           *)
(* published; an upload may be lost or late, and so may its answer; the     *)
(* process may stop at any point and start again from the last pickle.     *)
(*                                                                         *)
(* The library leaves two things to its user, and they are guards here:    *)
(* one upload round at a time (no key is generated between listing and     *)
(* marking), and a pickle that has the listed keys is kept before they are *)
(* uploaded.  When else to pickle is the user's choice.  The directory     *)
(* (not in src/) gives a key once.                                         *)
(***************************************************************************)
EXTENDS Account

CONSTANTS MaxGenerated,   \* bound of the model: key pairs generated
          MaxBatch        \* bound of the model: keys generated by one call

ASSUME GenerationBounds == MaxGenerated \in Nat /\ MaxBatch \in Nat

VARIABLES
    account,      \* the Account
    pickled,      \* what to_pickle last returned, kept by the owner
    generated,    \* history: how many key pairs there have been
    listed,       \* the list in the owner's hands, {} when no upload is under way
    requests,     \* the lists sent to the directory, which may yet arrive, or again
    uploaded,     \* the keys the directory has ever taken
    claimed,      \* those of them it has given to somebody
    used,         \* those of them that sessions have been started with
    removed       \* removed.account, removed.pickled: the used keys taken out
                  \* of the account, and out of it when it was last pickled

vars == <<account, pickled, generated, listed, requests, uploaded, claimed, used, removed>>

Init ==
    /\ account = NewAccount
    /\ pickled = NewAccount
    /\ generated = 0
    /\ listed = {}
    /\ requests = {}
    /\ uploaded = {}
    /\ claimed = {}
    /\ used = {}
    /\ removed = [account |-> {}, pickled |-> {}]

Generate(number) ==
    /\ generated + number <= MaxGenerated
    /\ listed = {}
    /\ account' = GenerateOneTimeKeys(account, number, generated)
    /\ generated' = generated + number
    /\ UNCHANGED <<pickled, listed, requests, uploaded, claimed, used, removed>>

List ==
    /\ listed = {}
    /\ listed' = OneTimeKeys(account)
    /\ UNCHANGED <<account, pickled, generated, requests, uploaded, claimed, used, removed>>

Send ==
    /\ listed # {} /\ listed \subseteq OneTimeKeys(pickled)
    /\ requests' = requests \union {listed}
    /\ UNCHANGED <<account, pickled, generated, listed, uploaded, claimed, used, removed>>

\* A request arrives; the owner learns of it (Mark) or not (GiveUp, Restart).
Upload(list) ==
    /\ uploaded' = uploaded \union list
    /\ UNCHANGED <<account, pickled, generated, listed, requests, claimed, used, removed>>

Mark ==
    /\ listed # {} /\ listed \subseteq uploaded
    /\ account' = MarkKeysAsPublished(account)
    /\ listed' = {}
    /\ UNCHANGED <<pickled, generated, requests, uploaded, claimed, used, removed>>

\* The request or its answer is lost; the owner lists again later.
GiveUp ==
    /\ listed # {}
    /\ listed' = {}
    /\ UNCHANGED <<account, pickled, generated, requests, uploaded, claimed, used, removed>>

Claim(k) ==
    /\ k \in uploaded \ claimed
    /\ claimed' = claimed \union {k}
    /\ UNCHANGED <<account, pickled, generated, listed, requests, uploaded, used, removed>>

\* A pre-key message made with k arrives: the session looks the key up, and
\* remove_one_time_keys takes it out of the account.
Use(k) ==
    /\ k \in claimed /\ LookupKey(account, k.key)
    /\ account' = RemoveKey(account, k.key)
    /\ used' = used \union {k}
    /\ removed' = [removed EXCEPT !.account = @ \union {k}]
    /\ UNCHANGED <<pickled, generated, listed, requests, uploaded, claimed>>

Save ==
    /\ pickled' = account
    /\ removed' = [removed EXCEPT !.pickled = removed.account]
    /\ UNCHANGED <<account, generated, listed, requests, uploaded, claimed, used>>

\* What was generated, marked or removed since the last pickle is lost.
Restart ==
    /\ account' = UnpickleAccount(pickled)
    /\ listed' = {}
    /\ removed' = [removed EXCEPT !.account = removed.pickled]
    /\ UNCHANGED <<pickled, generated, requests, uploaded, claimed, used>>

Next ==
    \/ \E number \in 1..MaxBatch : Generate(number)
    \/ List
    \/ Send
    \/ \E list \in requests : Upload(list)
    \/ Mark
    \/ GiveUp
    \/ \E k \in uploaded : Claim(k)
    \/ \E k \in claimed : Use(k)
    \/ Save
    \/ Restart

Spec == Init /\ [][Next]_vars

-----------------------------------------------------------------------------
(* Properties *)

PublicKey == [id : Nat, key : Nat]

\* The state has its types; the account never holds more keys than its limit.
TypeOK ==
    /\ account \in AccountState
    /\ pickled \in AccountState
    /\ generated \in Nat
    /\ listed \in SUBSET PublicKey
    /\ requests \in SUBSET SUBSET PublicKey
    /\ uploaded \in SUBSET PublicKey
    /\ claimed \in SUBSET uploaded
    /\ used \in SUBSET claimed
    /\ removed \in [account : SUBSET used, pickled : SUBSET used]

\* A key that somebody holds or may be given works when its message comes: the
\* account still has it, whatever was generated, removed, unpickled or uploaded
\* twice since, unless MaxOneTimeKeys newer keys have been generated (account.cpp
\* 245-261 drops the oldest, published or not).
ServableUnlessCrowdedOut ==
    \A k \in uploaded \ used :
        \/ LookupKey(account, k.key)
        \/ account.next_one_time_key_id - k.id >= MaxOneTimeKeys

\* A full list gives up its oldest keys and no others: of the MaxOneTimeKeys ids
\* given last, the account has every key that no session has used.
NewestKept ==
    \A id \in 1..account.next_one_time_key_id :
        account.next_one_time_key_id - id < MaxOneTimeKeys
            => \E k \in Keys(account) \union used : k.id = id

\* A key that was removed never starts another session (docs/olm.rst: Bob
\* discards the private part of a single-use key), after restarts too unless
\* the process stopped before the removal was pickled.
UsedKeysGone ==
    /\ \A k \in removed.account : ~LookupKey(account, k.key)
    /\ \A k \in removed.pickled : ~LookupKey(pickled, k.key)

\* The directory never sees one id for two keys, though a restart may take the
\* counter back and new keys get ids that lost keys had.
UploadedIdsDistinct ==
    \A k, l \in uploaded : k.id = l.id => k = l

\* No key is kept from everybody: a key marked as published, which one_time_keys
\* will not list again, is one the directory has taken.
PublishedWereUploaded ==
    \A k \in Keys(account) : k.published => [id |-> k.id, key |-> k.key] \in uploaded
-----------------------------------------------------------------------------
(* The inductive invariant *)

\* Newest first, each key at least as old as its place says, made from the first
\* few random numbers, and no id and no key pair twice.
InOrder(a, made) ==
    \A i \in DOMAIN a.one_time_keys :
        /\ a.one_time_keys[i].id \in 1 .. a.next_one_time_key_id + 1 - i
        /\ a.one_time_keys[i].key \in 1..made
        /\ \A j \in DOMAIN a.one_time_keys \ {i} :
               /\ a.one_time_keys[i].id # a.one_time_keys[j].id
               /\ a.one_time_keys[i].key # a.one_time_keys[j].key

\* Of the newest ids each is in the list, or its key was used.
Kept(a, gone) ==
    \A id \in 1..a.next_one_time_key_id :
        a.next_one_time_key_id - id < MaxOneTimeKeys
            => \E k \in Keys(a) \union gone : k.id = id

MarkedIn(a, taken) ==
    \A k \in Keys(a) : k.published => [id |-> k.id, key |-> k.key] \in taken

\* The two sets do not use one id, or one key pair, for different keys.
Match(S, T) == \A k \in S, l \in T : k.id = l.id <=> k.key = l.key

\* The keys that have been in a list sent to the directory.
Known == uploaded \union UNION requests

\* The account and its pickle agree with each other and with what was sent; what
\* was sent is in the pickle's past; and an upload under way lists all there is.
UploadInv ==
    /\ TypeOK
    /\ \A a \in {account, pickled} :
         InOrder(a, generated) /\ Kept(a, used) /\ MarkedIn(a, uploaded) /\ Match(Known, Keys(a))
    /\ Match(Keys(pickled), Keys(account))
    /\ pickled.next_one_time_key_id <= account.next_one_time_key_id
    /\ \A k \in Known : k.id \in 1..pickled.next_one_time_key_id /\ k.key \in 1..generated
    /\ Match(Known, Known)
    /\ listed # {} => OneTimeKeys(account) \subseteq listed
    /\ \A k \in removed.account : ~LookupKey(account, k.key)
    /\ \A k \in removed.pickled : ~LookupKey(pickled, k.key)
=============================================================================

------------------------------- MODULE Account -------------------------------
(***************************************************************************)
(* The one-time keys of an Account (src/account.cpp): a bounded list,      *)
(* newest first, and the counter that gives them their ids.  A key pair is *)
(* a number; two key pairs are the same exactly when their numbers are.    *)
(***************************************************************************)
EXTENDS OlmList

CONSTANT MaxOneTimeKeys          \* MAX_ONE_TIME_KEYS, 100

ASSUME AccountLimit == MaxOneTimeKeys \in Nat \ {0}

OneTimeKey == [id : Nat, published : BOOLEAN, key : Nat]

AccountState ==
    { account \in [one_time_keys : Seq(OneTimeKey), next_one_time_key_id : Nat] :
        Len(account.one_time_keys) <= MaxOneTimeKeys }

NewAccount == [one_time_keys |-> <<>>, next_one_time_key_id |-> 0]

Keys(account) == { account.one_time_keys[i] : i \in DOMAIN account.one_time_keys }

\* Mutant: the new keys go behind the old ones, so that a full list keeps the old.
GenerateAtEnd(account, number, random) ==
    [one_time_keys |->
        Truncate(account.one_time_keys \o
                 [i \in 1..number |-> [id        |-> account.next_one_time_key_id + i,
                                       published |-> FALSE,
                                       key       |-> random + i]],
                 MaxOneTimeKeys),
     next_one_time_key_id |-> account.next_one_time_key_id + number]

\* Mutant: published is not reset, so a new key has the flag of the slot it takes.
GenerateKeepsFlag(account, number, random) ==
    [one_time_keys |->
        Truncate([i \in 1..number |->
                    [id        |-> account.next_one_time_key_id + number + 1 - i,
                     published |-> /\ account.one_time_keys # <<>>
                                   /\ account.one_time_keys[1].published,
                     key       |-> random + number + 1 - i]]
                 \o account.one_time_keys,
                 MaxOneTimeKeys),
     next_one_time_key_id |-> account.next_one_time_key_id + number]

\* The loop inserts each key at the front; random stands for the bytes that make
\* the key pairs random + 1, ..., random + number, which nobody made before.
GenerateOneTimeKeys(account, number, random) ==
    [one_time_keys |->
        Truncate([i \in 1..number |->
                    [id        |-> account.next_one_time_key_id + number + 1 - i,
                     published |-> FALSE,
                     key       |-> random + number + 1 - i]]
                 \o account.one_time_keys,
                 MaxOneTimeKeys),
     next_one_time_key_id |-> account.next_one_time_key_id + number]

\* The object that get_one_time_keys_json writes: the unpublished keys by id.
OneTimeKeys(account) ==
    { [id |-> k.id, key |-> k.key] : k \in { k \in Keys(account) : ~k.published } }

MarkKeysAsPublished(account) ==
    [account EXCEPT !.one_time_keys =
        [i \in DOMAIN @ |-> [@[i] EXCEPT !.published = TRUE]]]

LookupKey(account, key) == \E k \in Keys(account) : k.key = key

PositionOf(account, key) ==
    CHOOSE i \in DOMAIN account.one_time_keys :
        /\ account.one_time_keys[i].key = key
        /\ \A j \in 1..i-1 : account.one_time_keys[j].key # key

\* Mutant: the search removes the key before the one it found.
RemoveKeyBefore(account, key) ==
    LET i == PositionOf(account, key)
    IN  [account EXCEPT !.one_time_keys = Erase(@, IF i = 1 THEN 1 ELSE i - 1)]

\* remove_key of a key that LookupKey finds; of another it changes nothing.
RemoveKey(account, key) ==
    [account EXCEPT !.one_time_keys = Erase(@, PositionOf(account, key))]

\* Mutant: the counter is not restored but counted again from the keys.
UnpickleAccountRecounting(stored) ==
    [one_time_keys        |-> UnpickleList(stored.one_time_keys, MaxOneTimeKeys),
     next_one_time_key_id |-> Len(stored.one_time_keys)]

UnpickleAccount(stored) ==
    [one_time_keys        |-> UnpickleList(stored.one_time_keys, MaxOneTimeKeys),
     next_one_time_key_id |-> stored.next_one_time_key_id]
==============================================================================

-------------------------- MODULE RestoredSessions --------------------------
(***************************************************************************)
(* The two sessions of DoubleRatchet when a process may end at any time    *)
(* and go on from a pickle that is older than its last calls.  The library *)
(* cannot tell.  Its user does things in order: a session is pickled before*)
(* a message it encrypted leaves, and before the plaintext of a message it *)
(* decrypted is used.  How many calls lie between two pickles is up to him.*)
(*                                                                         *)
(* The variables of DoubleRatchet describe the session objects: sent and   *)
(* opened are what those have encrypted and decrypted, so the end of a     *)
(* process takes back what is not in its pickle.                           *)
(***************************************************************************)
EXTENDS DoubleRatchet

CONSTANTS MaxKeyPairs,   \* bound of the model: ratchet key pairs anyone makes
          MaxUnsaved     \* bound of the model: calls of both that are in no pickle

ASSUME RestoreBounds == MaxKeyPairs \in Nat /\ MaxUnsaved \in Nat

VARIABLES
    saved,               \* saved[p]: p's last pickle, and the history that goes with it
    network              \* network[p]: the messages of p that have left, <<n, message>>

everything == <<vars, saved, network>>

Session(p) ==
    [ratchet |-> ratchet[p], received_message |-> received_message[p], sent |-> sent[p],
     opened |-> opened[p], decrypted |-> decrypted[p], passed |-> passed[p]]

Outbox(p) == { <<n, sent[p][n].message>> : n \in DOMAIN sent[p] }

Unsaved(p) == (Len(sent[p]) - Len(saved[p].sent)) + (decrypted[p] - saved[p].decrypted)

MaySkipSaving == Unsaved(Alice) + Unsaved(Bob) < MaxUnsaved

RestoredInit ==
    /\ Init
    /\ saved = [p \in Party |-> Session(p)]
    /\ network = [p \in Party |-> {}]

EncryptOne(p) ==
    /\ MaySkipSaving
    /\ NeedsRatchetKey(ratchet[p]) => next_key <= MaxKeyPairs
    /\ Encrypt(p)
    /\ UNCHANGED <<saved, network>>

\* decrypt() of anything that has left either end.
DecryptOne(p) ==
    /\ MaySkipSaving
    /\ \E q \in Party : \E m \in network[q] : Receive(p, <<q, m[1]>>, m[2])
    /\ UNCHANGED <<saved, network>>

\* A message whose body or MAC was damaged on its way.
DecryptDamaged(p) ==
    /\ \E m \in network[Peer(p)] :
          Receive(p, <<Peer(p), 0>>, [m[2] EXCEPT !.sealed_with = NoKey])
    /\ UNCHANGED <<saved, network>>

\* to_pickle; then what was encrypted leaves, and what was decrypted is used.
SaveAndSend(p) ==
    /\ saved' = [saved EXCEPT ![p] = Session(p)]
    /\ network' = [network EXCEPT ![p] = @ \union Outbox(p)]
    /\ UNCHANGED vars

\* The process ends, and from_pickle makes a session of the last pickle.  Key pairs
\* are random: the ones that are lost are not made again.
Restore(p) ==
    /\ ratchet' = [ratchet EXCEPT ![p] = Unpickle(saved[p].ratchet)]
    /\ received_message' = [received_message EXCEPT ![p] = saved[p].received_message]
    /\ sent' = [sent EXCEPT ![p] = saved[p].sent]
    /\ opened' = [opened EXCEPT ![p] = saved[p].opened]
    /\ decrypted' = [decrypted EXCEPT ![p] = saved[p].decrypted]
    /\ passed' = [passed EXCEPT ![p] = saved[p].passed]
    /\ UNCHANGED <<next_key, saved, network>>

RestoredNext ==
    \E p \in Party :
        \/ EncryptOne(p)
        \/ DecryptOne(p)
        \/ DecryptDamaged(p)
        \/ SaveAndSend(p)
        \/ Restore(p)

RestoredSpec == RestoredInit /\ [][RestoredNext]_everything

-----------------------------------------------------------------------------
(* Properties.  SessionInv and Openable hold of the session objects although *)
(* they go back in time; in particular, a message whose plaintext was lost   *)
(* with the process opens again.                                             *)

\* Neither a session nor the pickle it may go back to can make again the key of
\* a message that has left it, or of one whose plaintext was used: no key seals two
\* messages, and nothing is used twice, through any number of restores.
GoneForGood ==
    \A p \in Party : \A r \in {ratchet[p], saved[p].ratchet} :
        /\ \A m \in network[p] : ~Derivable(r, m[2].sealed_with)
        /\ \A id \in saved[p].opened : ~Derivable(r, Message(id).sealed_with)
=============================================================================

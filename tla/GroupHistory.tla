----------------------------- MODULE GroupHistory -----------------------------
(***************************************************************************)
(* What group sessions promise: every message of the sender has an index   *)
(* of its own, and a reader whose ratchet is the sender's at some index    *)
(* opens messages from that index on, as they were written, and no others. *)
(***************************************************************************)
EXTENDS Integers

CONSTANTS Readers, Index, Plaintext

VARIABLES sent,               \* the messages that left the sender
          known,              \* known[r]: the indices that r can open
          opened              \* opened[r]: what r has opened

vars == <<sent, known, opened>>

Message == [index : Index, plaintext : Plaintext]

Init ==
    /\ sent = {}
    /\ known = [r \in Readers |-> {}]
    /\ opened = [r \in Readers |-> {}]

\* Messages leave the sender; no two of them ever have the same index.
Send ==
    /\ UNCHANGED <<known, opened>>
    /\ sent \subseteq sent' /\ sent' \subseteq Message
    /\ \A m, n \in sent' : m.index = n.index => m = n

\* A reader gets a session, or loses it.  To know an index is to know all later ones.
Learn(r, indices) ==
    /\ indices \subseteq Index
    /\ \A i \in indices, j \in Index : j >= i => j \in indices
    /\ known' = [known EXCEPT ![r] = indices]
    /\ UNCHANGED <<sent, opened>>

Open(r, m) ==
    /\ m \in sent
    /\ m.index \in known[r]
    /\ opened' = [opened EXCEPT ![r] = @ \union {m}]
    /\ UNCHANGED <<sent, known>>

Next ==
    \/ Send
    \/ \E r \in Readers :
         \/ \E indices \in {known'[r]} : Learn(r, indices)
         \/ \E m \in sent : Open(r, m)

Spec == Init /\ [][Next]_vars
==============================================================================

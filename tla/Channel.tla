------------------------------- MODULE Channel -------------------------------
(***************************************************************************)
(* What two users' sessions promise them together, whatever the network    *)
(* does: a message handed to decrypt() is accepted at most once, and only  *)
(* if the other party made it.  Messages are numbered by their sender in   *)
(* the order they were encrypted; nothing is promised about the order or   *)
(* the completeness of what is accepted.                                   *)
(***************************************************************************)
EXTENDS Integers

CONSTANTS Alice, Bob

VARIABLES made,       \* made[p]: how many messages p has encrypted
          accepted,   \* accepted[p]: <<q, n>> when p has accepted q's message n
          count       \* count[p]: how many times p has accepted something

Party   == {Alice, Bob}
Other(p) == IF p = Alice THEN Bob ELSE Alice

Init ==
    /\ made = [p \in Party |-> 0]
    /\ accepted = [p \in Party |-> {}]
    /\ count = [p \in Party |-> 0]

Make(p) ==
    /\ made' = [made EXCEPT ![p] = @ + 1]
    /\ UNCHANGED <<accepted, count>>

Accept(p, n) ==
    /\ n \in 1..made[Other(p)]
    /\ <<Other(p), n>> \notin accepted[p]
    /\ accepted' = [accepted EXCEPT ![p] = @ \union {<<Other(p), n>>}]
    /\ count' = [count EXCEPT ![p] = @ + 1]
    /\ UNCHANGED made

Next == \E p \in Party : Make(p) \/ \E n \in 1..made[Other(p)] : Accept(p, n)

Spec == Init /\ [][Next]_<<made, accepted, count>>
==============================================================================

------------------------------- MODULE OlmList -------------------------------
(***************************************************************************)
(* The fixed-capacity array list of include/olm/list.hh.  A list is a      *)
(* sequence; its first element is *begin().  An insertion into a full list *)
(* discards the element at the end, silently.                              *)
(***************************************************************************)
EXTENDS Integers, Sequences

\* Mutant: the test for a full list is off by one.
TruncateOneLate(list, max_size) ==
    IF Len(list) > max_size + 1 THEN SubSeq(list, 1, max_size + 1) ELSE list

\* Mutant: the test for a full list is off by one the other way.
TruncateOneEarly(list, max_size) ==
    IF Len(list) >= max_size THEN SubSeq(list, 1, max_size - 1) ELSE list

\* What is left of a list after the elements beyond its capacity fall off.
Truncate(list, max_size) ==
    IF Len(list) > max_size THEN SubSeq(list, 1, max_size) ELSE list

\* insert(begin(), value): the other elements move up by one.
InsertFront(list, value, max_size) ==
    Truncate(<<value>> \o list, max_size)

\* erase(pos)
Erase(list, pos) ==
    SubSeq(list, 1, pos - 1) \o SubSeq(list, pos + 1, Len(list))

(***************************************************************************)
(* unpickle(pos, end, list) inserts each stored element at end().  At a    *)
(* full list insert(end(), v) overwrites the last element instead, so of a *)
(* pickle that holds too many the last one is kept, not the next.          *)
(***************************************************************************)
UnpickleList(stored, max_size) ==
    IF Len(stored) <= max_size
    THEN stored
    ELSE Append(SubSeq(stored, 1, max_size - 1), stored[Len(stored)])
==============================================================================

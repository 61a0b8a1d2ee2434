------------------------------- MODULE Storage -------------------------------
(***************************************************************************)
(* An application stores an object and later loads it again, or loads it by*)
(* mistake as an object of another kind, with another key, or from a text  *)
(* that was damaged: olm_pickle_* and olm_unpickle_*, one field a step.    *)
(***************************************************************************)
EXTENDS Pickle

CONSTANTS Objects,            \* Objects[kind]: an object, its stored form and the version
          Keys,
          MaxLoads            \* bound of the model: loads that are tried

ASSUME StorageBounds == MaxLoads \in Nat

VARIABLES source,             \* what was stored: kind, object, text
          text,               \* the caller's copy of the pickle
          kind,               \* of the object that is loaded into
          raw,                \* the decrypted pickle
          pos,                \* how many bytes of it are read
          todo,               \* the fields yet to read
          object,             \* the fields read
          short,              \* history: a field did not fit in what was left
          last_error,
          loads,              \* loads begun
          pc                  \* "idle", "version", "fields", "loaded", "refused"

vars == <<source, text, kind, raw, pos, todo, object, short, last_error, loads, pc>>

\* A pickle is stored, and an object of some kind made to load it into.
Init ==
    /\ \E k \in Kinds, key \in Keys : \E o \in Objects[k] :
         /\ text = Seal(PickleObject(o.version, o.stored), key)
         /\ source = [kind |-> k, object |-> o.object, text |-> text]
    /\ kind \in Kinds
    /\ raw = <<>> /\ pos = 0 /\ todo = <<>> /\ object = <<>> /\ short = FALSE
    /\ last_error = "SUCCESS"
    /\ loads = 0
    /\ pc = "idle"

\* A character is changed, or characters are lost.
Damage ==
    /\ pc = "idle" /\ loads = 0 /\ text.intact
    /\ \E lost \in 0..3 : text' = [text EXCEPT !.intact = FALSE, !.length = @ - lost]
    /\ UNCHANGED <<source, kind, raw, pos, todo, object, short, last_error, loads, pc>>

\* The call begins: the envelope is opened, and where it cannot be that is all
\* that happens.
Unseal ==
    /\ pc = "idle" /\ loads < MaxLoads
    /\ loads' = loads + 1
    /\ \E key \in Keys :
         LET opened == OpenSeal(text, key)
         IN  /\ text' = opened.left
             /\ raw' = opened.raw
             /\ last_error' = IF opened.last_error = "" THEN last_error ELSE opened.last_error
             /\ pc' = IF opened.last_error = "" THEN "version" ELSE "refused"
    /\ UNCHANGED <<source, kind, pos, todo, object, short>>

\* An object into which nothing was read is used for another load, of a new copy of
\* the pickle or of the one that was decoded.
TryAgain ==
    /\ pc = "refused" /\ object = <<>> /\ loads < MaxLoads
    /\ text' \in {text, source.text}
    /\ pos' = 0
    /\ pc' = "idle"
    /\ UNCHANGED <<source, kind, raw, todo, object, short, last_error, loads>>

\* The functions of C++ are told that the pickle ends one byte later than it does,
\* so that a field which does not fit leaves the cursor where no pickle ends.
IsCpp == kind \in {"account", "session", "pk_decryption"}

\* Mutant: they are told where it ends.
EndAsIs == Len(raw)

End == IF IsCpp THEN Len(raw) + 1 ELSE Len(raw)

Fits(field) == pos + field.length <= End

\* The byte after the pickle is one of the padding.
ByteAt(i) == IF i <= Len(raw) THEN raw[i] ELSE Padding(raw)

\* The value a field gets and the cursor after it: of what does not fit nothing is
\* read, a new object keeps its zeros, and the cursor goes to the end.
Value(field) == [i \in 1..field.length |-> IF Fits(field) THEN ByteAt(pos + i) ELSE 0]
After(field) == IF Fits(field) THEN pos + field.length ELSE End

VersionError(version) ==
    CASE version \in {Versions[kind]} \union OldVersions(kind) -> ""
      [] kind = "account" /\ version = <<0, 0, 0, 1>>          -> "BAD_LEGACY_ACCOUNT_PICKLE"
      [] OTHER                                                 -> "UNKNOWN_PICKLE_VERSION"

ReadVersion ==
    /\ pc = "version"
    /\ LET version == Value(Word)
           error   == VersionError(version)
       IN  /\ pos' = After(Word)
           /\ IF error = ""
              THEN /\ todo' = Layout(kind, version)
                   /\ pc' = "fields"
                   /\ UNCHANGED last_error
              ELSE /\ last_error' = error
                   /\ pc' = "refused"
                   /\ UNCHANGED todo
    /\ UNCHANGED <<source, text, kind, raw, object, short, loads>>

Loop(n, element) == [type |-> "loop", length |-> n, element |-> element]

\* A field, or the size of a list, whose elements are read next.
ReadField ==
    /\ pc = "fields" /\ todo # <<>> /\ Head(todo).type # "loop"
    /\ LET field == Head(todo)
       IN  /\ pos' = After(field)
           /\ object' = Append(object, Value(field))
           /\ short' = (short \/ ~Fits(field))
           /\ todo' = IF field.type = "list"
                      THEN <<Loop(Number(Value(field)), field.element)>> \o Tail(todo)
                      ELSE Tail(todo)
    /\ UNCHANGED <<source, text, kind, raw, last_error, loads, pc>>

\* while (size-- && pos != end).  What insert does with more elements than the list
\* has room for is in OlmList.
ReadElement ==
    /\ pc = "fields" /\ todo # <<>> /\ Head(todo).type = "loop"
    /\ LET loop == Head(todo)
       IN  todo' = IF loop.length = 0 \/ pos = End THEN Tail(todo)
                   ELSE loop.element \o <<[loop EXCEPT !.length = @ - 1]>> \o Tail(todo)
    /\ UNCHANGED <<source, text, kind, raw, pos, object, short, last_error, loads, pc>>

\* The cursor is where the pickle ends, or the length was wrong: the C++ functions
\* then leave an error that is set already.
Finish ==
    /\ pc = "fields" /\ todo = <<>>
    /\ IF pos = Len(raw)
       THEN /\ object' = Restored(kind, SubSeq(raw, 1, 4), object)
            /\ pc' = "loaded"
            /\ UNCHANGED last_error
       ELSE /\ last_error' = IF IsCpp /\ last_error # "SUCCESS" THEN last_error
                             ELSE "CORRUPTED_PICKLE"
            /\ pc' = "refused"
            /\ UNCHANGED object
    /\ UNCHANGED <<source, text, kind, raw, pos, todo, short, loads>>

Next == \/ Damage \/ Unseal \/ TryAgain
        \/ ReadVersion \/ ReadField \/ ReadElement \/ Finish

Spec == Init /\ [][Next]_vars

-----------------------------------------------------------------------------
(* Properties *)

\* An object is loaded as it was stored, in every layout there has been, and never
\* refused once its envelope is open; account.cpp, session.cpp, ratchet.cpp, pk.cpp,
\* megolm.c and the group sessions read the fields in the order they write them.
LoadedAsStored ==
    kind = source.kind =>
        /\ pc = "loaded" => object = source.object
        /\ pc = "refused" => last_error \in {"BAD_ACCOUNT_KEY", "INVALID_BASE64"}

\* A pickle of another kind, whose version number may well be right, is never loaded
\* as an account, a session or a pk decryption: its fields do not end where the
\* pickle does.
OtherKindRefused == IsCpp /\ pc = "loaded" => kind = source.kind

\* "We had the wrong number of bytes in the input", inbound_group_session.c:261 and
\* outbound_group_session.c:134: what is loaded had all of its fields in the pickle.
WrongLengthRefused == pc = "loaded" => ~short
===============================================================================

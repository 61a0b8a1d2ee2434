---------------------------- MODULE MessageReading ----------------------------
(***************************************************************************)
(* One message is decoded by a sequential program: decode_message,         *)
(* decode_one_time_key_message or _olm_decode_group_message on one input,  *)
(* one call of decode or skip_unknown a step, and the checks its caller    *)
(* makes then.                                                             *)
(*                                                                         *)
(* The input is either what the encoder wrote, with a field the decoder    *)
(* does not know put in, or any short sequence of bytes.                   *)
(***************************************************************************)
EXTENDS MessageFormat

CONSTANTS Contents,           \* Contents[format]: the messages to encode
          Unknown,            \* encodings of fields that no format has
          Payloads            \* Payloads[format]: the payloads to try

VARIABLES format,
          input,              \* the message, trailer included
          written,            \* <<what was encoded>>; <<>> of other inputs
          version,            \* reader.version
          at,                 \* pos and the fields of the reader
          unknown,            \* where this turn of the loop began
          turn,               \* the field that is looked for next in this turn
          pc                  \* "start", "loop" or "done"

vars == <<format, input, written, version, at, unknown, turn, pc>>

OLM_PROTOCOL_VERSION == 3

Byte == 0..255

\* Whatever is read is a sequence of bytes.
ASSUME InputsAreBytes ==
    /\ \A f \in Format : \A contents \in Contents[f] :
           EncodeMessage(f, OLM_PROTOCOL_VERSION, contents) \in Seq(Byte) \ {<<>>}
    /\ \A f \in Format : \A payload \in Payloads[f] : payload \in Seq(Byte)
    /\ \A extra \in Unknown : extra \in Seq(Byte)

\* The bytes of a MAC or a signature.
Trailer(f) == [i \in 1..TrailerLength[f] |-> 255]

NothingFound == [n \in Names(format) |-> Missing]

\* The reader's version is not initialised: it holds anything until the version
\* byte has been read.
Init ==
    /\ format \in Format
    /\ \/ \E contents \in Contents[format], extra \in Unknown,
             place \in {"front", "back"} :
            LET bytes == EncodeMessage(format, OLM_PROTOCOL_VERSION, contents)
            IN  /\ input = (IF place = "front"
                            THEN <<bytes[1]>> \o extra \o Tail(bytes)
                            ELSE bytes \o extra) \o Trailer(format)
                /\ written = <<contents>>
       \/ /\ \/ \E payload \in Payloads[format] : input = payload \o Trailer(format)
             \/ \E n \in 0..TrailerLength[format] :
                    input = [i \in 1..n |-> OLM_PROTOCOL_VERSION]
          /\ written = <<>>
    /\ version \in {0, OLM_PROTOCOL_VERSION}
    /\ at = [pos |-> 0, fields |-> NothingFound]
    /\ unknown = 0 /\ turn = 0
    /\ pc = "start"

End == Len(input) - TrailerLength[format]

\* Nothing before the trailer: nothing is read, and has_message_index of a group
\* message, which is set after the loop, is never set.
TooShort ==
    /\ pc = "start" /\ End <= 0
    /\ \E left \in {Missing, Value(0)} :
          at' = [at EXCEPT !.fields = [n \in Names(format) |->
                                         IF n = "message_index" THEN left ELSE Missing]]
    /\ pc' = "done"
    /\ UNCHANGED <<format, input, written, version, unknown, turn>>

Start ==
    /\ pc = "start" /\ End > 0
    /\ version' = input[1]
    /\ at' = [at EXCEPT !.pos = 1]
    /\ pc' = "loop"
    /\ UNCHANGED <<format, input, written, unknown, turn>>

\* while (pos != end)
Turn ==
    /\ pc = "loop" /\ turn = 0
    /\ IF at.pos = End
       THEN pc' = "done" /\ UNCHANGED <<unknown, turn>>
       ELSE unknown' = at.pos /\ turn' = 1 /\ UNCHANGED pc
    /\ UNCHANGED <<format, input, written, version, at>>

LookFor ==
    /\ turn \in DOMAIN Formats[format]
    /\ at' = Decode(input, End, at, Formats[format][turn])
    /\ turn' = turn + 1
    /\ UNCHANGED <<format, input, written, version, unknown, pc>>

\* None of the fields was there.
Skip ==
    /\ turn = Len(Formats[format]) + 1
    /\ at' = IF at.pos = unknown
             THEN [at EXCEPT !.pos = SkipUnknown(input, End, @)] ELSE at
    /\ turn' = 0
    /\ UNCHANGED <<format, input, written, version, unknown, pc>>

Next == TooShort \/ Start \/ Turn \/ LookFor \/ Skip

\* The loop runs in the calling thread, and nothing in it can block.
Spec == Init /\ [][Next]_vars /\ WF_vars(Next)

-----------------------------------------------------------------------------
(* What the callers check before they use a field *)

\* Mutant: the version alone decides.
AcceptedByVersion == version = OLM_PROTOCOL_VERSION

\* Ratchet::decrypt, Session::new_inbound_session (which does not look at the
\* version) and _decrypt of an inbound group session.
Accepted ==
    /\ format # "pre_key" => version = OLM_PROTOCOL_VERSION
    /\ \A n \in Names(format) : at.fields[n].found

-----------------------------------------------------------------------------
(* Properties *)

Strings == { n \in Names(format) : "start" \in DOMAIN at.fields[n] }
AfterString(n) == at.fields[n].start + at.fields[n].length

\* What the decoder hands out points into the part of the payload it has read:
\* never at the MAC, the signature or past the message, whatever lengths the
\* message claims; and no two fields share a byte.
FieldsInside ==
    \A n \in Strings :
        /\ at.fields[n].start >= 1
        /\ AfterString(n) <= at.pos
        /\ at.pos <= End
        /\ \A o \in Strings \ {n} : \/ AfterString(n) <= at.fields[o].start
                                    \/ AfterString(o) <= at.fields[n].start

\* A message with nothing before its trailer is refused, whatever the reader held
\* before it was decoded: its version and has_message_index were never set, and
\* the callers compare them all the same.
TooShortRefused == pc = "done" /\ End <= 0 => ~Accepted

Content(n) ==
    LET found == at.fields[n]
    IN  IF n \in Strings THEN SubSeq(input, found.start + 1, AfterString(n))
        ELSE found.value

\* A message that was encoded is accepted and read back as it was written,
\* whatever its parts hold and however long they are, and although another
\* version added a field the decoder does not know; and it takes exactly the bytes
\* that were allocated for it.
ReadAsWritten ==
    \A i \in DOMAIN written :
        pc = "done" =>
            /\ Accepted
            /\ \A n \in Names(format) : Content(n) = written[i][n]
            /\ Len(EncodeMessage(format, OLM_PROTOCOL_VERSION, written[i]))
                 + TrailerLength[format] = EncodedLength(format, written[i])

\* Every message, damaged ones included, is decoded in the end: each turn of the
\* loop gets on.
Terminates == <>(pc = "done")
==============================================================================

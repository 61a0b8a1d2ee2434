---------------------------- MODULE MessageFormat ----------------------------
(***************************************************************************)
(* The wire format of the three kinds of messages, src/message.cpp.  An    *)
(* input is a sequence of bytes; a position is the number of bytes before  *)
(* it, so input[pos + 1] is *pos, and end is the position after the last   *)
(* byte of the payload.                                                    *)
(***************************************************************************)
EXTENDS Integers, Sequences, SequencesExt

CONSTANTS CounterBits,        \* width of std::uint32_t
          SizeBits,           \* width of std::size_t
          MacLength,          \* bytes of the MAC after a payload
          SignatureLength     \* bytes of the signature after a group message

ASSUME FormatWidths ==
    /\ CounterBits \in Nat \ {0} /\ SizeBits \in Nat /\ SizeBits >= CounterBits
    /\ MacLength \in Nat /\ SignatureLength \in Nat

\* How many values the two types have.
ASSUME FormatRanges == 2 ^ CounterBits \in Nat \ {0} /\ 2 ^ SizeBits \in Nat \ {0}

-----------------------------------------------------------------------------
(* Varints: seven bits a byte, the lowest first, the top bit of all but the *)
(* last byte set.                                                           *)

VarintLength(value) ==
    CHOOSE n \in 1..SizeBits : /\ value < 128 ^ n
                               /\ \A m \in 1 .. n - 1 : value >= 128 ^ m

VarintEncode(value) ==
    [i \in 1..VarintLength(value) |->
        ((value \div 128 ^ (i - 1)) % 128) + (IF i < VarintLength(value) THEN 128 ELSE 0)]

\* Mutant: the bytes are taken in the wrong order.
VarintDecodeBigEndian(bytes, bits) ==
    FoldLeft(LAMBDA value, byte : (value * 128 + (byte % 128)) % (2 ^ bits), 0, bytes)

\* value[n] is that of the last n bytes; what does not fit the type is shifted
\* out.
VarintDecode(bytes, bits) ==
    LET value[n \in 0..Len(bytes)] ==
            IF n = 0 THEN 0
            ELSE (value[n - 1] * 128 + (bytes[Len(bytes) + 1 - n] % 128)) % (2 ^ bits)
    IN  value[Len(bytes)]

\* The position after the varint that starts at pos; the end if it does not end.
VarintSkip(input, pos, end) ==
    LET last == { i \in pos + 1 .. end : input[i] < 128 }
    IN  IF last = {} THEN end ELSE CHOOSE i \in last : \A j \in last : i <= j

VarintAt(input, pos, end, bits) ==
    VarintDecode(SubSeq(input, pos + 1, VarintSkip(input, pos, end)), bits)

-----------------------------------------------------------------------------
(* The formats: the tag, name and kind of each field, in the order in which *)
(* the decoder looks for them.                                              *)

Field(tag, name, kind) == [tag |-> tag, name |-> name, kind |-> kind]

Formats ==
    [message |-> <<Field(10, "ratchet_key", "string"),
                   Field(16, "counter", "integer"),
                   Field(34, "ciphertext", "string")>>,
     pre_key |-> <<Field(10, "one_time_key", "string"),
                   Field(18, "base_key", "string"),
                   Field(26, "identity_key", "string"),
                   Field(34, "message", "string")>>,
     group   |-> <<Field(8, "message_index", "integer"),
                   Field(18, "ciphertext", "string")>>]

Format == DOMAIN Formats

\* What follows the payload.
TrailerLength ==
    [message |-> MacLength, pre_key |-> 0, group |-> MacLength + SignatureLength]

Names(format) == { Formats[format][i].name : i \in DOMAIN Formats[format] }

\* A field that was not found: a null pointer, or has_counter = false.
Missing      == [found |-> FALSE]
Span(pos, n) == [found |-> TRUE, start |-> pos, length |-> n]
Value(n)     == [found |-> TRUE, value |-> n]

-----------------------------------------------------------------------------
(* Writing *)

\* The bytes of a field; a string is given by its bytes.
EncodeField(field, content) ==
    IF field.kind = "integer"
    THEN <<field.tag>> \o VarintEncode(content)
    ELSE <<field.tag>> \o VarintEncode(Len(content)) \o content

\* encode_message, encode_one_time_key_message, _olm_encode_group_message.
EncodeMessage(format, version, contents) ==
    <<version>> \o
    FoldLeft(LAMBDA bytes, field : bytes \o EncodeField(field, contents[field.name]),
             <<>>, Formats[format])

\* The *_length functions, which the caller allocates by.
EncodedLength(format, contents) ==
    FoldLeft(LAMBDA length, field :
                 length + 1 + IF field.kind = "integer"
                              THEN VarintLength(contents[field.name])
                              ELSE VarintLength(Len(contents[field.name]))
                                       + Len(contents[field.name]),
             1, Formats[format]) + TrailerLength[format]

-----------------------------------------------------------------------------
(* Reading.  A decoder has a position and the fields found so far. *)

\* Mutant: a length is not compared with what is left.
DecodeUnchecked(input, end, at, field) ==
    IF at.pos = end \/ input[at.pos + 1] # field.tag THEN at
    ELSE LET after == VarintSkip(input, at.pos + 1, end)
         IN  IF field.kind = "integer"
             THEN [pos    |-> after,
                   fields |-> [at.fields EXCEPT ![field.name] =
                                 Value(VarintAt(input, at.pos + 1, end, CounterBits))]]
             ELSE LET length == VarintAt(input, at.pos + 1, end, SizeBits)
                  IN  [pos    |-> IF length > end - after THEN end ELSE after + length,
                       fields |-> [at.fields EXCEPT ![field.name] = Span(after, length)]]

\* decode: nothing happens unless the tag of the field is next.  A string that
\* is longer than what is left ends the message and is not stored.
Decode(input, end, at, field) ==
    IF at.pos = end \/ input[at.pos + 1] # field.tag THEN at
    ELSE LET after == VarintSkip(input, at.pos + 1, end)
         IN  IF field.kind = "integer"
             THEN [pos    |-> after,
                   fields |-> [at.fields EXCEPT ![field.name] =
                                 Value(VarintAt(input, at.pos + 1, end, CounterBits))]]
             ELSE LET length == VarintAt(input, at.pos + 1, end, SizeBits)
                  IN  IF length > end - after
                      THEN [at EXCEPT !.pos = end]
                      ELSE [pos    |-> after + length,
                            fields |-> [at.fields EXCEPT ![field.name] = Span(after, length)]]

\* Mutant: an unknown tag of a wire type that is not used is left where it is.
SkipUnknownStays(input, end, pos) ==
    LET type  == input[pos + 1] % 8
        body  == VarintSkip(input, pos, end)
        after == VarintSkip(input, body, end)
    IN  CASE pos = end -> pos
          [] type = 0  -> after
          [] type = 2  -> LET length == VarintAt(input, body, end, SizeBits)
                          IN  IF length > end - after THEN end ELSE after + length
          [] OTHER     -> pos

\* skip_unknown: an integer or a string is stepped over, anything else ends the
\* message.
SkipUnknown(input, end, pos) ==
    LET type  == input[pos + 1] % 8
        body  == VarintSkip(input, pos, end)
        after == VarintSkip(input, body, end)
    IN  CASE pos = end -> pos
          [] type = 0  -> after
          [] type = 2  -> LET length == VarintAt(input, body, end, SizeBits)
                          IN  IF length > end - after THEN end ELSE after + length
          [] OTHER     -> end
==============================================================================

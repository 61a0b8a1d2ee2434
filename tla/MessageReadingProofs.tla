------------------------ MODULE MessageReadingProofs ------------------------
(***************************************************************************)
(* Theorems about MessageReading, for any widths of the integers, any      *)
(* lengths of the trailers, and any bytes: that the fields which are       *)
(* handed out lie in what has been read, that a message too short to be    *)
(* read is refused, and that each turn of the loop gets on.                *)
(*                                                                         *)
(* What a string claims to be its length is any number of its type, so the *)
(* proofs rest on the range of a varint and on the comparison of that      *)
(* number with what is left, never on what the encoder writes.             *)
(***************************************************************************)
EXTENDS MessageReading, SequenceTheorems, FiniteSetTheorems, WellFoundedInduction, TLAPS

-----------------------------------------------------------------------------
(* Varints *)

\* A nonempty set of numbers has a least element.
LEMMA LeastNumber ==
    ASSUME NEW T \in SUBSET Nat, T # {}
    PROVE  \E x \in T : \A y \in T : x <= y
<1> DEFINE Below(x) == 1..x
           Down     == { Below(x) : x \in T }
<1>1. Down \subseteq FiniteSubsetsOf(Nat)
  BY FS_Interval DEF FiniteSubsetsOf
<1>2. Down # {}
  OBVIOUS
<1>3. PICK D \in Down : \A E \in Down : ~(<<E, D>> \in StrictSubsetOrdering(Nat))
  BY <1>1, <1>2, FS_StrictSubsetOrderingWellFounded, WFMin
<1>4. PICK x \in T : D = Below(x)
  OBVIOUS
<1>5. ASSUME NEW y \in T, y < x
      PROVE  FALSE
  <2>1. Below(y) \in Down
    OBVIOUS
  <2>2. Below(y) \subseteq Below(x) /\ x \in Below(x) /\ x \notin Below(y)
    BY <1>5
  <2>3. <<Below(y), Below(x)>> \in StrictSubsetOrdering(Nat)
    BY <2>2 DEF StrictSubsetOrdering
  <2> QED  BY <1>3, <1>4, <2>1, <2>3
<1> QED  BY <1>5

\* One turn of varint_decode: the value so far, shifted, and seven bits of a byte.
Shifted(value, byte, range) == (value * 128 + (byte % 128)) % range

\* A turn yields a value of the type, whatever it is given.
LEMMA ShiftedRange ==
    ASSUME NEW value \in Nat, NEW byte \in Byte, NEW range \in Nat \ {0}
    PROVE  Shifted(value, byte, range) \in 0 .. range - 1
<1>1. byte \in Int
  BY DEF Byte
<1>2. byte % 128 \in 0..127
  BY <1>1
<1>3. ASSUME NEW low \in 0..127 PROVE value * 128 + low \in Int
  OBVIOUS
<1>4. ASSUME NEW n \in Int PROVE n % range \in 0 .. range - 1
  OBVIOUS
<1> QED  BY <1>2, <1>3, <1>4 DEF Shifted

\* The values of the last 0, 1, ... k bytes.
ValuesOf(f, bytes, k, range) ==
    f = [n \in 0..k |-> IF n = 0 THEN 0 ELSE Shifted(f[n - 1], bytes[Len(bytes) + 1 - n], range)]

\* The loop of varint_decode computes a value for each number of bytes.
LEMMA ValuesExist ==
    ASSUME NEW bytes \in Seq(Byte), NEW range \in Nat \ {0}
    PROVE  \E f : ValuesOf(f, bytes, Len(bytes), range)
<1>0. Len(bytes) \in Nat
  BY LenProperties
<1> DEFINE Undefined == { k \in 0..Len(bytes) : ~ \E f : ValuesOf(f, bytes, k, range) }
<1> SUFFICES ASSUME Undefined # {} PROVE FALSE
  BY <1>0
<1>1. PICK k \in Undefined : \A j \in Undefined : k <= j
  <2>1. Undefined \in SUBSET Nat
    BY <1>0
  <2> HIDE DEF Undefined
  <2> QED  BY <2>1, LeastNumber
<1>2. CASE k = 0
  <2> DEFINE f == [n \in 0..0 |-> 0]
  <2>1. ValuesOf(f, bytes, 0, range)
    BY DEF ValuesOf
  <2> QED  BY <1>1, <1>2, <2>1
<1>3. CASE k # 0
  <2>1. k - 1 \in 0..Len(bytes) /\ k - 1 \notin Undefined
    BY <1>0, <1>1, <1>3
  <2>2. PICK f : ValuesOf(f, bytes, k - 1, range)
    BY <2>1
  <2> DEFINE g == [n \in 0..k |-> IF n = k
                                  THEN Shifted(f[k - 1], bytes[Len(bytes) + 1 - k], range)
                                  ELSE f[n]]
  <2>3. \A n \in 0 .. k - 1 :
            f[n] = IF n = 0 THEN 0 ELSE Shifted(f[n - 1], bytes[Len(bytes) + 1 - n], range)
    BY <2>2 DEF ValuesOf
  <2>4. ASSUME NEW n \in 0..k
        PROVE  g[n] = IF n = 0 THEN 0
                      ELSE Shifted(g[n - 1], bytes[Len(bytes) + 1 - n], range)
    BY <1>0, <1>3, <2>3
  <2> HIDE DEF g
  <2>5. g = [n \in 0..k |-> g[n]]
    BY DEF g
  <2>6. ValuesOf(g, bytes, k, range)
    BY <2>4, <2>5 DEF ValuesOf
  <2> QED  BY <1>1, <2>6
<1> QED  BY <1>2, <1>3

\* What is decoded is a value of the type, whatever the bytes are.
LEMMA VarintDecodeRange ==
    ASSUME NEW bytes \in Seq(Byte), NEW bits, 2 ^ bits \in Nat \ {0}
    PROVE  VarintDecode(bytes, bits) \in Nat
<1> DEFINE range == 2 ^ bits
           k == Len(bytes)
           f == CHOOSE g : ValuesOf(g, bytes, k, range)
<1>0. k \in Nat
  BY LenProperties
<1>1. VarintDecode(bytes, bits) = f[k]
  BY DEF VarintDecode, ValuesOf, Shifted
<1>2. ValuesOf(f, bytes, k, range)
  <2>1. range \in Nat \ {0}
    OBVIOUS
  <2> HIDE DEF range
  <2> QED  BY <2>1, ValuesExist
<1> HIDE DEF f, range
<1> DEFINE Outside == { n \in 0..k : f[n] \notin Nat }
<1>3. \A n \in 0..k : f[n] = IF n = 0 THEN 0
                             ELSE Shifted(f[n - 1], bytes[k + 1 - n], range)
  BY <1>2 DEF ValuesOf
<1>4. ASSUME Outside # {} PROVE FALSE
  <2>1. PICK n \in Outside : \A j \in Outside : n <= j
    <3>1. Outside \in SUBSET Nat
      BY <1>0
    <3> HIDE DEF Outside
    <3> QED  BY <1>4, <3>1, LeastNumber
  <2>2. n # 0
    BY <1>0, <1>3
  <2>3. n - 1 \in 0..k /\ f[n - 1] \in Nat
    BY <1>0, <2>1, <2>2
  <2>4. bytes[k + 1 - n] \in Byte
    BY <1>0, <2>2, ElementOfSeq
  <2>5. range \in Nat \ {0}
    BY DEF range
  <2>6. Shifted(f[n - 1], bytes[k + 1 - n], range) \in 0 .. range - 1
    BY <2>3, <2>4, <2>5, ShiftedRange
  <2>7. f[n] \in 0 .. range - 1
    BY <1>3, <2>2, <2>6
  <2> QED  BY <2>1, <2>5, <2>7
<1> QED  BY <1>0, <1>1, <1>4

\* varint_skip goes no further than the end, and at least one byte if there is one.
LEMMA VarintSkipRange ==
    ASSUME NEW bytes, NEW end \in Nat, NEW pos \in 0..end
    PROVE  /\ VarintSkip(bytes, pos, end) \in pos..end
           /\ pos < end => VarintSkip(bytes, pos, end) > pos
<1> DEFINE last == { i \in pos + 1 .. end : bytes[i] < 128 }
<1>1. CASE last = {}
  BY <1>1 DEF VarintSkip
<1>2. CASE last # {}
  <2>1. \E i \in last : \A j \in last : i <= j
    <3>1. last \in SUBSET Nat
      OBVIOUS
    <3> HIDE DEF last
    <3> QED  BY <1>2, <3>1, LeastNumber
  <2>2. VarintSkip(bytes, pos, end) \in last
    BY <1>2, <2>1 DEF VarintSkip
  <2> QED  BY <2>2
<1> QED  BY <1>1, <1>2

\* What a varint in the payload says is a number.
LEMMA VarintAtRange ==
    ASSUME NEW bytes \in Seq(Byte), NEW end \in Nat, end <= Len(bytes),
           NEW pos \in 0..end, NEW bits, 2 ^ bits \in Nat \ {0}
    PROVE  VarintAt(bytes, pos, end, bits) \in Nat
<1> DEFINE after == VarintSkip(bytes, pos, end)
<1>1. after \in pos..end
  BY VarintSkipRange
<1> HIDE DEF after
<1>2. \A i \in pos + 1 .. after : bytes[i] \in Byte
  BY <1>1, ElementOfSeq, LenProperties
<1>3. SubSeq(bytes, pos + 1, after) \in Seq(Byte)
  BY <1>1, <1>2, SubSeqProperties
<1> QED  BY <1>3, VarintDecodeRange DEF VarintAt, after

-----------------------------------------------------------------------------
(* The fields that have been found *)

\* A field is missing, or a string that starts somewhere and claims a length, or
\* a number.
IsField(field) ==
    \/ field = Missing
    \/ \E start, length \in Nat : field = Span(start, length)
    \/ \E n \in Nat : field = Value(n)

\* Of the three only a string has a start.
LEMMA FieldShapes ==
    /\ "start" \notin DOMAIN Missing /\ ~Missing.found
    /\ \A n : "start" \notin DOMAIN Value(n)
    /\ \A start, length : /\ "start" \in DOMAIN Span(start, length)
                           /\ Span(start, length).start = start
                           /\ Span(start, length).length = length
BY DEF Missing, Value, Span

StringsOf(fields) == { n \in DOMAIN fields : "start" \in DOMAIN fields[n] }
EndOf(field)      == field.start + field.length

\* The strings lie after the version and before pos, and apart.
Inside(fields, pos) ==
    \A n \in StringsOf(fields) :
        /\ fields[n].start >= 1
        /\ EndOf(fields[n]) <= pos
        /\ \A o \in StringsOf(fields) \ {n} : \/ EndOf(fields[n]) <= fields[o].start
                                              \/ EndOf(fields[o]) <= fields[n].start

\* A reader of fields called names.
IsReader(reader, names) ==
    /\ reader = [pos |-> reader.pos, fields |-> reader.fields]
    /\ reader.pos \in Nat
    /\ reader.fields = [n \in names |-> reader.fields[n]]
    /\ \A n \in names : IsField(reader.fields[n])

\* A string has a start and a length.
LEMMA StringFields ==
    ASSUME NEW fields, NEW names, DOMAIN fields = names,
           \A n \in names : IsField(fields[n])
    PROVE  \A n \in StringsOf(fields) :
              /\ n \in names
              /\ fields[n].start \in Nat /\ fields[n].length \in Nat
<1> SUFFICES ASSUME NEW n \in StringsOf(fields)
             PROVE  /\ n \in names
                    /\ fields[n].start \in Nat /\ fields[n].length \in Nat
  OBVIOUS
<1>1. n \in names /\ "start" \in DOMAIN fields[n]
  BY DEF StringsOf
<1>2. PICK start, length \in Nat : fields[n] = Span(start, length)
  BY <1>1, FieldShapes DEF IsField
<1> QED  BY <1>1, <1>2, FieldShapes

\* What is read does not disturb what was found before it.
LEMMA FurtherInside ==
    ASSUME NEW fields, NEW names, DOMAIN fields = names,
           \A n \in names : IsField(fields[n]),
           NEW pos \in Nat, NEW later \in Nat, pos <= later, Inside(fields, pos)
    PROVE  Inside(fields, later)
BY StringFields DEF Inside, EndOf

\* A number takes no bytes of its own among the strings.
LEMMA NumberInside ==
    ASSUME NEW fields, NEW names, DOMAIN fields = names,
           \A n \in names : IsField(fields[n]),
           NEW pos, Inside(fields, pos), NEW name \in names, NEW value \in Nat
    PROVE  /\ \A n \in names : IsField([fields EXCEPT ![name] = Value(value)][n])
           /\ Inside([fields EXCEPT ![name] = Value(value)], pos)
<1> DEFINE new == [fields EXCEPT ![name] = Value(value)]
<1>1. \A n \in names : IsField(new[n])
  BY DEF IsField
<1>2. \A n \in StringsOf(new) : n # name /\ n \in StringsOf(fields) /\ new[n] = fields[n]
  BY FieldShapes DEF StringsOf
<1> HIDE DEF new
<1>3. Inside(new, pos)
  BY <1>2 DEF Inside
<1> QED  BY <1>1, <1>3 DEF new

\* A string that starts where all others have ended is apart from them, whichever
\* of them it replaces.
LEMMA SpanInside ==
    ASSUME NEW fields, NEW names, DOMAIN fields = names,
           \A n \in names : IsField(fields[n]),
           NEW pos \in Nat, Inside(fields, pos), NEW name \in names,
           NEW after \in Nat, after >= 1, pos <= after, NEW length \in Nat
    PROVE  /\ \A n \in names : IsField([fields EXCEPT ![name] = Span(after, length)][n])
           /\ Inside([fields EXCEPT ![name] = Span(after, length)], after + length)
<1> DEFINE new == [fields EXCEPT ![name] = Span(after, length)]
<1>1. \A n \in names : IsField(new[n])
  BY DEF IsField
<1>2. new[name] = Span(after, length)
  OBVIOUS
<1>3. \A n \in StringsOf(new) \ {name} : n \in StringsOf(fields) /\ new[n] = fields[n]
  BY DEF StringsOf
<1>4. new[name].start = after /\ EndOf(new[name]) = after + length
  BY <1>2, FieldShapes DEF EndOf
<1> HIDE DEF new
<1>5. \A n \in StringsOf(new) \ {name} :
          /\ new[n].start \in Nat /\ new[n].start >= 1
          /\ EndOf(new[n]) \in Nat /\ EndOf(new[n]) <= after
          /\ \A o \in StringsOf(new) \ {name, n} : \/ EndOf(new[n]) <= new[o].start
                                                   \/ EndOf(new[o]) <= new[n].start
  <2> SUFFICES ASSUME NEW n \in StringsOf(new) \ {name}
               PROVE  /\ new[n].start \in Nat /\ new[n].start >= 1
                      /\ EndOf(new[n]) \in Nat /\ EndOf(new[n]) <= after
                      /\ \A o \in StringsOf(new) \ {name, n} :
                             EndOf(new[n]) <= new[o].start \/ EndOf(new[o]) <= new[n].start
    OBVIOUS
  <2>1. fields[n].start \in Nat /\ fields[n].length \in Nat
    BY <1>3, StringFields
  <2>2. /\ fields[n].start >= 1 /\ EndOf(fields[n]) <= pos
        /\ \A o \in StringsOf(fields) \ {n} :
               EndOf(fields[n]) <= fields[o].start \/ EndOf(fields[o]) <= fields[n].start
    BY <1>3 DEF Inside
  <2>3. EndOf(fields[n]) \in Nat
    BY <2>1 DEF EndOf
  <2> QED  BY <1>3, <2>1, <2>2, <2>3
<1>6. Inside(new, after + length)
  BY <1>4, <1>5 DEF Inside
<1> QED  BY <1>1, <1>6 DEF new

-----------------------------------------------------------------------------
(* One call of decode or skip_unknown *)

\* decode() goes on, not past the end, and what it stores lies in what it has read.
LEMMA DecodeInside ==
    ASSUME NEW bytes \in Seq(Byte), NEW end \in Nat, end <= Len(bytes),
           NEW names, NEW reader, IsReader(reader, names),
           reader.pos >= 1, reader.pos <= end, Inside(reader.fields, reader.pos),
           NEW field, field.name \in names,
           NEW after, after = Decode(bytes, end, reader, field)
    PROVE  /\ IsReader(after, names)
           /\ reader.pos <= after.pos /\ after.pos <= end
           /\ Inside(after.fields, after.pos)
<1> DEFINE pos == reader.pos
           fields == reader.fields
           body == VarintSkip(bytes, pos + 1, end)
           number == VarintAt(bytes, pos + 1, end, CounterBits)
           length == VarintAt(bytes, pos + 1, end, SizeBits)
<1>1. /\ pos \in Nat /\ DOMAIN fields = names
      /\ \A n \in names : IsField(fields[n])
  BY DEF IsReader
<1>2. CASE pos = end \/ bytes[pos + 1] # field.tag
  BY <1>1, <1>2 DEF Decode
<1>3. CASE ~(pos = end \/ bytes[pos + 1] # field.tag)
  <2>1. pos + 1 \in 0..end
    BY <1>1, <1>3
  <2>2. body \in Nat /\ pos <= body /\ body <= end
    BY <1>1, <2>1, VarintSkipRange
  <2>3. number \in Nat /\ length \in Nat
    BY <2>1, FormatRanges, VarintAtRange
  <2>4. CASE field.kind = "integer"
    <3> DEFINE new == [fields EXCEPT ![field.name] = Value(number)]
    <3>1. after = [pos |-> body, fields |-> new]
      BY <1>3, <2>4 DEF Decode
    <3> HIDE DEF body, number
    <3>2. (\A n \in names : IsField(new[n])) /\ Inside(new, pos)
      BY <1>1, <2>3, NumberInside
    <3>3. DOMAIN new = names /\ new = [n \in names |-> new[n]]
      BY <1>1
    <3> HIDE DEF new
    <3>4. Inside(new, body)
      BY <1>1, <2>2, <3>2, <3>3, FurtherInside
    <3> QED  BY <2>2, <3>1, <3>2, <3>3, <3>4 DEF IsReader
  <2>5. CASE field.kind # "integer" /\ length > end - body
    <3>1. after = [reader EXCEPT !.pos = end]
      BY <1>3, <2>5 DEF Decode
    <3>2. after = [pos |-> end, fields |-> fields]
      BY <3>1 DEF IsReader
    <3>3. Inside(fields, end)
      BY <1>1, FurtherInside
    <3> QED  BY <1>1, <3>2, <3>3 DEF IsReader
  <2>6. CASE field.kind # "integer" /\ ~(length > end - body)
    <3> DEFINE new == [fields EXCEPT ![field.name] = Span(body, length)]
    <3>1. after = [pos |-> body + length, fields |-> new]
      BY <1>3, <2>6 DEF Decode
    <3>2. body + length <= end
      BY <2>2, <2>3, <2>6
    <3> HIDE DEF body, length
    <3>3. (\A n \in names : IsField(new[n])) /\ Inside(new, body + length)
      <4>1. body >= 1
        BY <1>1, <2>2
      <4>2. field.name \in names /\ Inside(fields, pos)
        OBVIOUS
      <4> HIDE DEF pos, fields
      <4> QED  BY <1>1, <2>2, <2>3, <4>1, <4>2, SpanInside
    <3>4. new = [n \in names |-> new[n]]
      BY <1>1
    <3> HIDE DEF new
    <3> QED  BY <1>1, <2>2, <2>3, <3>1, <3>2, <3>3, <3>4 DEF IsReader
  <2> QED  BY <2>4, <2>5, <2>6
<1> QED  BY <1>2, <1>3

\* skip_unknown() goes on by a byte at least, and not past the end.
LEMMA SkipGetsOn ==
    ASSUME NEW bytes \in Seq(Byte), NEW end \in Nat, end <= Len(bytes),
           NEW pos \in Nat, pos < end
    PROVE  /\ SkipUnknown(bytes, end, pos) \in Nat
           /\ pos < SkipUnknown(bytes, end, pos)
           /\ SkipUnknown(bytes, end, pos) <= end
<1> DEFINE type == bytes[pos + 1] % 8
           body == VarintSkip(bytes, pos, end)
           next == VarintSkip(bytes, body, end)
           length == VarintAt(bytes, body, end, SizeBits)
<1>1. body \in pos..end /\ body > pos
  BY VarintSkipRange
<1>2. next \in Nat /\ body <= next /\ next <= end
  <2>1. body \in 0..end
    BY <1>1
  <2> HIDE DEF body
  <2> QED  BY <2>1, VarintSkipRange
<1>3. length \in Nat
  <2>1. body \in 0..end
    BY <1>1
  <2> HIDE DEF body
  <2> QED  BY <2>1, FormatRanges, VarintAtRange
<1>4. SkipUnknown(bytes, end, pos) =
          CASE pos = end -> pos
            [] type = 0  -> next
            [] type = 2  -> IF length > end - next THEN end ELSE next + length
            [] OTHER     -> end
  BY DEF SkipUnknown
<1> HIDE DEF type, body, next, length
<1>5. SkipUnknown(bytes, end, pos) =
          IF type = 0 THEN next
          ELSE IF type = 2 /\ ~(length > end - next) THEN next + length
          ELSE end
  BY <1>4
<1> QED  BY <1>1, <1>2, <1>3, <1>5

-----------------------------------------------------------------------------
(* The invariant of the loop *)

\* What the decoder looks for is a field of its format.
LEMMA FieldNames ==
    /\ \A f \in Format : \A i \in DOMAIN Formats[f] : Formats[f][i].name \in Names(f)
    /\ \A f \in Format : \E n \in Names(f) : n # "message_index"
    /\ \A f \in Format : Len(Formats[f]) \in Nat /\ TrailerLength[f] \in Nat
<1>1. \A f \in Format : \A i \in DOMAIN Formats[f] : Formats[f][i].name \in Names(f)
  BY DEF Names
<1>2. Format = {"message", "pre_key", "group"}
  BY DEF Format, Formats
<1>3. /\ Formats["message"][1].name = "ratchet_key" /\ 1 \in DOMAIN Formats["message"]
      /\ Formats["pre_key"][1].name = "one_time_key" /\ 1 \in DOMAIN Formats["pre_key"]
      /\ Formats["group"][2].name = "ciphertext" /\ 2 \in DOMAIN Formats["group"]
  BY DEF Formats, Field
<1>4. \A f \in Format : \E n \in Names(f) : n # "message_index"
  <2>1. "ratchet_key" \in Names("message") /\ "one_time_key" \in Names("pre_key")
        /\ "ciphertext" \in Names("group")
    BY <1>1, <1>2, <1>3
  <2> QED  BY <1>2, <2>1
<1>5. \A f \in Format : Len(Formats[f]) \in Nat /\ TrailerLength[f] \in Nat
  BY <1>2, FormatWidths DEF Formats, TrailerLength
<1> QED  BY <1>1, <1>4, <1>5

\* Between two steps the reader stands between the version and the trailer, what
\* it has found lies behind it, and a turn has read nothing yet or got on.
\* Of the input it says no more than that it consists of bytes.
ReadingInv ==
    /\ format \in Format
    /\ input \in Seq(Byte)
    /\ IsReader(at, Names(format))
    /\ turn \in Nat /\ unknown \in Nat
    /\ turn # 0 => pc = "loop" /\ unknown <= at.pos /\ unknown < End
    /\ \/ pc = "start" /\ at.fields = NothingFound
       \/ pc \in {"loop", "done"} /\ End > 0 /\ at.pos >= 1 /\ at.pos <= End
       \/ /\ pc = "done" /\ End <= 0
          /\ \A n \in Names(format) \ {"message_index"} : at.fields[n] = Missing
    /\ StringsOf(at.fields) # {} => End > 0 /\ at.pos <= End
    /\ Inside(at.fields, at.pos)

\* The trailer may be longer than the message, which then ends before it begins.
LEMMA EndType == ReadingInv => End \in Int /\ End <= Len(input)
BY FieldNames, LenProperties DEF ReadingInv, End

\* Every input is made of bytes, and nothing has been found in it.
LEMMA InitReading == Init => ReadingInv
<1> SUFFICES ASSUME Init PROVE ReadingInv
  OBVIOUS
<1>1. format \in Format
  BY DEF Init
<1>2. Trailer(format) \in Seq(Byte)
  BY <1>1, FieldNames, IsASeq DEF Trailer, Byte
<1>3. input \in Seq(Byte)
  <2>1. CASE \E contents \in Contents[format], extra \in Unknown,
                place \in {"front", "back"} :
               LET bytes == EncodeMessage(format, OLM_PROTOCOL_VERSION, contents)
               IN  input = (IF place = "front"
                            THEN <<bytes[1]>> \o extra \o Tail(bytes)
                            ELSE bytes \o extra) \o Trailer(format)
    <3>1. PICK contents \in Contents[format], extra \in Unknown,
               place \in {"front", "back"} :
               LET bytes == EncodeMessage(format, OLM_PROTOCOL_VERSION, contents)
               IN  input = (IF place = "front"
                            THEN <<bytes[1]>> \o extra \o Tail(bytes)
                            ELSE bytes \o extra) \o Trailer(format)
      BY <2>1
    <3> DEFINE bytes == EncodeMessage(format, OLM_PROTOCOL_VERSION, contents)
    <3>2. bytes \in Seq(Byte) /\ bytes # <<>> /\ extra \in Seq(Byte)
      BY <1>1, InputsAreBytes
    <3>3. input = (IF place = "front" THEN <<bytes[1]>> \o extra \o Tail(bytes)
                   ELSE bytes \o extra) \o Trailer(format)
      BY <3>1
    <3> HIDE DEF bytes
    <3>4. bytes[1] \in Byte /\ Tail(bytes) \in Seq(Byte)
      BY <3>2, HeadTailProperties, EmptySeq, ElementOfSeq
    <3>5. <<bytes[1]>> \in Seq(Byte)
      BY <3>4
    <3>6. <<bytes[1]>> \o extra \in Seq(Byte) /\ bytes \o extra \in Seq(Byte)
      BY <3>2, <3>5, ConcatProperties
    <3>7. <<bytes[1]>> \o extra \o Tail(bytes) \in Seq(Byte)
      BY <3>4, <3>6, ConcatProperties
    <3>8. (IF place = "front" THEN <<bytes[1]>> \o extra \o Tail(bytes)
           ELSE bytes \o extra) \in Seq(Byte)
      BY <3>6, <3>7
    <3> QED  BY <1>2, <3>3, <3>8, ConcatProperties
  <2>2. CASE \E payload \in Payloads[format] : input = payload \o Trailer(format)
    BY <1>1, <1>2, <2>2, InputsAreBytes, ConcatProperties
  <2>3. CASE \E n \in 0..TrailerLength[format] : input = [i \in 1..n |-> OLM_PROTOCOL_VERSION]
    <3>1. PICK n \in 0..TrailerLength[format] : input = [i \in 1..n |-> OLM_PROTOCOL_VERSION]
      BY <2>3
    <3>2. n \in Nat
      BY <1>1, FieldNames
    <3>3. [i \in 1..n |-> OLM_PROTOCOL_VERSION] \in Seq(Byte)
      BY <3>2, IsASeq DEF OLM_PROTOCOL_VERSION, Byte
    <3> QED  BY <3>1, <3>3
  <2> QED  BY <2>1, <2>2, <2>3 DEF Init
<1>4. /\ at = [pos |-> 0, fields |-> NothingFound] /\ unknown = 0 /\ turn = 0 /\ pc = "start"
  BY DEF Init
<1>5. IsReader(at, Names(format))
  BY <1>4 DEF IsReader, IsField, NothingFound
<1>6. StringsOf(at.fields) = {}
  BY <1>4, FieldShapes DEF StringsOf, NothingFound
<1> QED  BY <1>1, <1>3, <1>4, <1>5, <1>6 DEF ReadingInv, Inside

\* A message that is too short: at most message_index is left from before.
LEMMA TooShortReading == ASSUME ReadingInv, TooShort PROVE ReadingInv'
<1>1. /\ pc = "start" /\ End <= 0 /\ pc' = "done"
      /\ UNCHANGED <<format, input, unknown, turn>> /\ End' = End
  BY DEF TooShort, End
<1>2. PICK left \in {Missing, Value(0)} :
          at' = [at EXCEPT !.fields = [n \in Names(format) |->
                                         IF n = "message_index" THEN left ELSE Missing]]
  BY DEF TooShort
<1>3. at.pos \in Nat /\ at = [pos |-> at.pos, fields |-> at.fields]
  BY DEF ReadingInv, IsReader
<1> DEFINE fields == [n \in Names(format) |-> IF n = "message_index" THEN left ELSE Missing]
<1>4. at' = [pos |-> at.pos, fields |-> fields]
  BY <1>2, <1>3
<1>5. StringsOf(fields) = {} /\ \A n \in Names(format) : IsField(fields[n])
  BY FieldShapes DEF StringsOf, IsField
<1>6. IsReader(at', Names(format))
  BY <1>3, <1>4, <1>5 DEF IsReader
<1>7. turn = 0
  BY <1>1 DEF ReadingInv
<1>8. StringsOf(at'.fields) = {}
  BY <1>4, <1>5
<1>9. \A n \in Names(format) \ {"message_index"} : at'.fields[n] = Missing
  BY <1>4
<1> QED  BY <1>1, <1>6, <1>7, <1>8, <1>9 DEF ReadingInv, Inside

\* The version is one byte, which is no field's.
LEMMA StartReading == ASSUME ReadingInv, Start PROVE ReadingInv'
<1>1. /\ pc = "start" /\ End > 0 /\ pc' = "loop" /\ at' = [at EXCEPT !.pos = 1]
      /\ UNCHANGED <<format, input, unknown, turn>> /\ End' = End
  BY DEF Start, End
<1>2. /\ at' = [pos |-> 1, fields |-> at.fields] /\ at.fields = NothingFound
  BY <1>1 DEF ReadingInv, IsReader
<1>3. StringsOf(at'.fields) = {} /\ turn = 0
  BY <1>1, <1>2, FieldShapes DEF StringsOf, NothingFound, ReadingInv
<1>4. IsReader(at', Names(format))
  BY <1>2 DEF IsReader, ReadingInv
<1> QED  BY <1>1, <1>2, <1>3, <1>4, EndType DEF ReadingInv, Inside

\* A turn begins where the reader is, unless nothing is left.
LEMMA TurnReading == ASSUME ReadingInv, Turn PROVE ReadingInv'
<1>1. /\ pc = "loop" /\ turn = 0 /\ UNCHANGED <<format, input, at>> /\ End' = End
  BY DEF Turn, End
<1>2. at.pos \in Nat /\ at.pos <= End /\ End > 0 /\ End \in Int /\ at.pos >= 1
  BY <1>1, EndType DEF ReadingInv, IsReader
<1>3. CASE at.pos = End
  BY <1>1, <1>2, <1>3 DEF Turn, ReadingInv
<1>4. CASE at.pos # End
  <2>1. unknown' = at.pos /\ turn' = 1 /\ pc' = pc
    BY <1>4 DEF Turn
  <2> QED  BY <1>1, <1>2, <1>4, <2>1 DEF ReadingInv
<1> QED  BY <1>3, <1>4

\* What is found in a turn of the loop lies behind the reader.
LEMMA LookForReading == ASSUME ReadingInv, LookFor PROVE ReadingInv'
<1>1. /\ turn \in DOMAIN Formats[format] /\ turn' = turn + 1
      /\ at' = Decode(input, End, at, Formats[format][turn])
      /\ UNCHANGED <<format, input, unknown, pc>> /\ End' = End
  BY DEF LookFor, End
<1>2. turn # 0
  <2>1. Format = {"message", "pre_key", "group"}
    BY DEF Format, Formats
  <2>2. 0 \notin DOMAIN Formats["message"] /\ 0 \notin DOMAIN Formats["pre_key"]
        /\ 0 \notin DOMAIN Formats["group"]
    BY DEF Formats
  <2> QED  BY <1>1, <2>1, <2>2 DEF ReadingInv
<1>3. /\ pc = "loop" /\ End \in Nat /\ End <= Len(input) /\ End > 0
      /\ at.pos \in Nat /\ at.pos >= 1 /\ at.pos <= End
      /\ unknown \in Nat /\ unknown <= at.pos /\ unknown < End
  BY <1>2, EndType DEF ReadingInv, IsReader
<1>4. Formats[format][turn].name \in Names(format)
  BY <1>1, FieldNames DEF ReadingInv
<1>5. /\ IsReader(at', Names(format)) /\ at.pos <= at'.pos /\ at'.pos <= End
      /\ Inside(at'.fields, at'.pos)
  <2>1. /\ input \in Seq(Byte) /\ IsReader(at, Names(format)) /\ Inside(at.fields, at.pos)
    BY DEF ReadingInv
  <2> DEFINE end == End
             field == Formats[format][turn]
             names == Names(format)
  <2>2. /\ end \in Nat /\ end <= Len(input) /\ at.pos <= end
        /\ field.name \in names /\ IsReader(at, names)
        /\ at' = Decode(input, end, at, field)
    BY <1>1, <1>3, <1>4, <2>1
  <2>3. IsReader(at', names) /\ at.pos <= at'.pos /\ at'.pos <= end
        /\ Inside(at'.fields, at'.pos)
    <3> HIDE DEF end, field, names
    <3> QED  BY <1>3, <2>1, <2>2, DecodeInside
  <2> QED  BY <2>3
<1>6. at'.pos \in Nat /\ at'.pos >= 1 /\ unknown <= at'.pos
  BY <1>3, <1>5 DEF IsReader
<1> QED  BY <1>1, <1>3, <1>5, <1>6 DEF ReadingInv

\* After a turn of the loop the reader is further than where the turn began.
LEMMA SkipReading ==
    ASSUME ReadingInv, Skip
    PROVE  ReadingInv' /\ at'.pos > unknown
<1>1. /\ turn = Len(Formats[format]) + 1 /\ turn' = 0
      /\ UNCHANGED <<format, input, unknown, pc>> /\ End' = End
  BY DEF Skip, End
<1>2. turn # 0
  BY <1>1, FieldNames DEF ReadingInv
<1>3. /\ pc = "loop" /\ End \in Nat /\ End <= Len(input) /\ End > 0
      /\ at.pos \in Nat /\ at.pos >= 1 /\ at.pos <= End
      /\ unknown \in Nat /\ unknown <= at.pos /\ unknown < End
  BY <1>2, EndType DEF ReadingInv, IsReader
<1>4. CASE at.pos # unknown
  <2>1. at' = at
    BY <1>4 DEF Skip
  <2> QED  BY <1>1, <1>3, <1>4, <2>1 DEF ReadingInv
<1>5. CASE at.pos = unknown
  <2> DEFINE next == SkipUnknown(input, End, at.pos)
  <2>1. at' = [pos |-> next, fields |-> at.fields]
    BY <1>5 DEF Skip, ReadingInv, IsReader
  <2>2. next \in Nat /\ at.pos < next /\ next <= End
    <3>1. input \in Seq(Byte) /\ at.pos < End
      BY <1>3, <1>5 DEF ReadingInv
    <3> QED  BY <1>3, <3>1, SkipGetsOn
  <2> HIDE DEF next
  <2>3. IsReader(at', Names(format))
    BY <2>1, <2>2 DEF IsReader, ReadingInv
  <2>4. Inside(at.fields, next)
    <3>1. /\ DOMAIN at.fields = Names(format) /\ \A n \in Names(format) : IsField(at.fields[n])
          /\ Inside(at.fields, at.pos)
      BY DEF ReadingInv, IsReader
    <3> QED  BY <1>3, <2>2, <3>1, FurtherInside
  <2>5. at'.pos = next /\ at'.fields = at.fields
    BY <2>1
  <2> QED  BY <1>1, <1>3, <1>5, <2>2, <2>3, <2>4, <2>5 DEF ReadingInv
<1> QED  BY <1>4, <1>5

\* No step leaves the invariant.
LEMMA NextReading == ReadingInv /\ [Next]_vars => ReadingInv'
<1> SUFFICES ASSUME ReadingInv, [Next]_vars PROVE ReadingInv'
  OBVIOUS
<1>1. CASE UNCHANGED vars
  BY <1>1 DEF vars, ReadingInv, End, NothingFound
<1> QED  BY <1>1, TooShortReading, StartReading, TurnReading, LookForReading, SkipReading
         DEF Next

-----------------------------------------------------------------------------
(* The theorems *)

\* The invariant holds in every state of every decoding.
LEMMA ReadingInvariance == Spec => []ReadingInv
<1> QED  BY InitReading, NextReading, PTL DEF Spec

\* What the decoder hands out points into the part of the payload it has read,
\* whatever lengths the message claims, and no two fields share a byte.
THEOREM FieldsInsideAlways == Spec => []FieldsInside
<1>1. ReadingInv => FieldsInside
  <2> SUFFICES ASSUME ReadingInv, NEW n \in Strings
               PROVE  /\ at.fields[n].start >= 1
                      /\ AfterString(n) <= at.pos
                      /\ at.pos <= End
                      /\ \A o \in Strings \ {n} :
                             \/ AfterString(n) <= at.fields[o].start
                             \/ AfterString(o) <= at.fields[n].start
    BY DEF FieldsInside
  <2>1. DOMAIN at.fields = Names(format)
    BY DEF ReadingInv, IsReader
  <2>2. Strings = StringsOf(at.fields)
    BY <2>1 DEF Strings, StringsOf
  <2> QED  BY <2>2 DEF ReadingInv, Inside, AfterString, EndOf
<1> QED  BY <1>1, ReadingInvariance, PTL

\* A message with nothing before its trailer is refused, although its version and
\* has_message_index were never set: another field of each format was not found.
THEOREM TooShortRefusedAlways == Spec => []TooShortRefused
<1>1. ReadingInv => TooShortRefused
  <2> SUFFICES ASSUME ReadingInv, pc = "done", End <= 0 PROVE ~Accepted
    BY DEF TooShortRefused
  <2>1. \A n \in Names(format) \ {"message_index"} : at.fields[n] = Missing
    BY EndType DEF ReadingInv
  <2>2. PICK n \in Names(format) : n # "message_index"
    BY FieldNames DEF ReadingInv
  <2> QED  BY <2>1, <2>2, FieldShapes DEF Accepted
<1> QED  BY <1>1, ReadingInvariance, PTL

\* Each turn of the loop ends further on than it began, be the message damaged or
\* not, so that the loop is left after no more turns than there are bytes.
THEOREM TurnsGetOn == Spec => [][Skip => at'.pos > unknown /\ at'.pos <= End]_vars
<1>1. ReadingInv /\ [Next]_vars => [Skip => at'.pos > unknown /\ at'.pos <= End]_vars
  <2> SUFFICES ASSUME ReadingInv, Skip PROVE at'.pos > unknown /\ at'.pos <= End
    OBVIOUS
  <2>1. ReadingInv' /\ at'.pos > unknown
    BY SkipReading
  <2>2. End' = End /\ pc' = "loop"
    <3>1. turn # 0
      BY FieldNames DEF ReadingInv, Skip
    <3> QED  BY <3>1 DEF ReadingInv, Skip, End
  <2>3. at'.pos <= End'
    BY <2>1, <2>2 DEF ReadingInv
  <2> QED  BY <2>1, <2>2, <2>3
<1> QED  BY <1>1, ReadingInvariance, PTL DEF Spec
=============================================================================

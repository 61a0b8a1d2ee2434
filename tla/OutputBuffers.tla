---------------------------- MODULE OutputBuffers ----------------------------
(***************************************************************************)
(* What the functions of the library write into the buffers their caller   *)
(* gives them: one call, from the check of the buffer's length, by way of  *)
(* the raw bytes that several functions put into the very buffer they then *)
(* encode into, to the text; and the caller's handing an encoding to a     *)
(* function that decodes it in place.                                      *)
(*                                                                         *)
(* Memory is the buffer and Guard cells after it that belong to others.    *)
(***************************************************************************)
EXTENDS Base64

CONSTANTS Calls,              \* the calls to make, in the form of Call below
          Guard               \* cells after the buffer

Untouched == 256              \* a cell nobody has written to
TextCell  == 257              \* a cell of a text that is not an encoding

KEY_LENGTH == 32              \* of a Curve25519 or Ed25519 public key
MAC_LENGTH == 8

Text(n)    == [text |-> n]
Raw(bytes) == [raw |-> bytes]

\* A call writes its pieces one after another.  The raw bytes of its only piece
\* are at the end of the encoding ("end"), at the end of the buffer ("end of
\* given"), or apart from the buffer.  The length of the buffer, given, is
\* compared with checked.
Call(pieces, place, checked, given) ==
    [pieces |-> pieces, place |-> place, checked |-> checked, given |-> given]

\* olm_account_sign, olm_session_id, olm_encrypt, olm_sha256, the pickles,
\* olm_group_encrypt, olm_outbound_group_session_key, olm_export_inbound_group_session.
InPlace(raw, given) == Call(<<Raw(raw)>>, "end", EncodeLength(Len(raw)), given)

\* The ids of group sessions and the public keys of pk.cpp.
Apart(raw, given) == Call(<<Raw(raw)>>, "apart", EncodeLength(Len(raw)), given)

PkCiphertext(raw, given) ==
    Call(<<Raw(raw)>>, "end of given", EncodeLength(Len(raw)), given)

\* The length of the buffer is compared with that of the raw code.
PkMac(raw, given) == Call(<<Raw(raw)>>, "apart", MAC_LENGTH, given)

\* {"curve25519":"...","ed25519":"..."}
IdentityJson(curve25519, ed25519, given) ==
    Call(<<Text(1 + 13 + 1), Raw(curve25519), Text(2 + 10 + 1), Raw(ed25519), Text(2)>>,
         "apart",
         1 + 13 + 1 + EncodeLength(KEY_LENGTH) + 2 + 10 + 1 + EncodeLength(KEY_LENGTH) + 2,
         given)

\* {"curve25519":{"id":"key","id":"key"}} of the keys that are not published, or
\* {"curve25519":{}}.
OneTimeKeysJson(keys, given) ==
    LET listed == SelectSeq(keys, LAMBDA key : ~key.published)
    IN  Call(<<Text(1 + 13)>>
               \o FlattenSeq([i \in 1..Len(listed) |->
                    <<Text(2), Raw(listed[i].id), Text(3), Raw(listed[i].key), Text(1)>>])
               \o (IF listed = <<>> THEN <<Text(1)>> ELSE <<>>) \o <<Text(2)>>,
             "apart",
             Len(listed) * (2 + EncodeLength(4) + 3 + EncodeLength(KEY_LENGTH) + 1)
               + (IF listed = <<>> THEN 1 ELSE 0) + 3 + 13,
             given)

VARIABLES call,
          memory,             \* the buffer and the cells after it
          piece,              \* the piece that is written next
          from,               \* the bytes of it encoded, then the characters decoded
          to,                 \* the cells written, then the bytes decoded
          pc                  \* "call", "write", "return", "decode", "decoded", "refused"

vars == <<call, memory, piece, from, to, pc>>

Init ==
    /\ call \in Calls
    /\ memory = [i \in 1 .. call.given + Guard |-> Untouched]
    /\ piece = 1 /\ from = 0 /\ to = 0
    /\ pc = "call"

\* What is written over memory from cell pos + 1 on.
Over(pos, cells) ==
    [i \in DOMAIN memory |->
        IF i \in pos + 1 .. pos + Len(cells) THEN cells[i - pos] ELSE memory[i]]

IsRaw  == "raw" \in DOMAIN call.pieces[piece]
Length == Len(call.pieces[piece].raw)

\* Mutant: the raw bytes are put where the encoding begins.
RawPositionAtStart == 0

\* b64_output_pos, _olm_enc_output_pos: the cells before the raw bytes.
RawPosition ==
    (IF call.place = "end of given" THEN call.given ELSE EncodeLength(Length)) - Length

\* OUTPUT_BUFFER_TOO_SMALL, and nothing is written.
Refuse ==
    /\ pc = "call" /\ call.given < call.checked
    /\ pc' = "refused"
    /\ UNCHANGED <<call, memory, piece, from, to>>

Begin ==
    /\ pc = "call" /\ call.given >= call.checked
    /\ memory' = IF call.place = "apart" THEN memory
                 ELSE Over(RawPosition, call.pieces[1].raw)
    /\ pc' = "write"
    /\ UNCHANGED <<call, piece, from, to>>

WriteText ==
    /\ pc = "write" /\ piece \in DOMAIN call.pieces /\ ~IsRaw
    /\ memory' = Over(to, [i \in 1..call.pieces[piece].text |-> TextCell])
    /\ to' = to + call.pieces[piece].text
    /\ piece' = piece + 1
    /\ UNCHANGED <<call, from, pc>>

\* Up to three of the raw bytes, as they are now.
Encode ==
    /\ pc = "write" /\ piece \in DOMAIN call.pieces /\ IsRaw
    /\ LET n     == IF Length - from < 3 THEN Length - from ELSE 3
           bytes == IF call.place = "apart"
                    THEN SubSeq(call.pieces[piece].raw, from + 1, from + n)
                    ELSE SubSeq(memory, RawPosition + from + 1, RawPosition + from + n)
       IN  IF n = 0
           THEN /\ piece' = piece + 1 /\ from' = 0
                /\ UNCHANGED <<memory, to>>
           ELSE /\ memory' = Over(to, EncodeGroup(bytes))
                /\ from' = from + n
                /\ to' = to + n + 1
                /\ UNCHANGED piece
    /\ UNCHANGED <<call, pc>>

Return ==
    /\ pc = "write" /\ piece \notin DOMAIN call.pieces
    /\ pc' = "return"
    /\ UNCHANGED <<call, memory, piece, from, to>>

\* b64_input, _olm_enc_input, olm_group_decrypt.
GiveBack ==
    /\ pc = "return" /\ Len(call.pieces) = 1
    /\ call' = [call EXCEPT !.checked = to]
    /\ from' = 0 /\ to' = 0
    /\ pc' = "decode"
    /\ UNCHANGED <<memory, piece>>

Decode ==
    /\ pc = "decode"
    /\ LET left == call.checked - from
           n    == IF left < 4 THEN left ELSE 4
       IN  IF n = 0
           THEN pc' = "decoded" /\ UNCHANGED <<memory, from, to>>
           ELSE /\ memory' = Over(to, DecodeGroup(SubSeq(memory, from + 1, from + n)))
                /\ from' = from + n
                /\ to' = to + n - 1
                /\ UNCHANGED pc
    /\ UNCHANGED <<call, piece>>

Next == Refuse \/ Begin \/ WriteText \/ Encode \/ Return \/ GiveBack \/ Decode

Spec == Init /\ [][Next]_vars

-----------------------------------------------------------------------------
(* Properties *)

\* No call writes a cell that does not belong to the buffer it was given: the
\* length it compares with is never less than what it writes, raw bytes included.
BufferRespected == \A i \in DOMAIN memory : i > call.given => memory[i] = Untouched

\* Bit j of the bytes, counted from the highest of the first, and zeros after them.
Bit(bytes, j) ==
    IF j \div 8 < Len(bytes) THEN (bytes[j \div 8 + 1] \div 2 ^ (7 - (j % 8))) % 2 ELSE 0

\* The k-th character is that of the k-th six bits.
Reference(bytes) ==
    [k \in 1 .. (8 * Len(bytes) + 5) \div 6 |->
        ENCODE_BASE64[FoldLeft(LAMBDA v, b : 2 * v + Bit(bytes, 6 * (k - 1) + b),
                               0, <<0, 1, 2, 3, 4, 5>>)]]

Written(p) ==
    IF "text" \in DOMAIN p THEN [i \in 1..p.text |-> TextCell] ELSE Reference(p.raw)

\* A call that returns has written its text and the encodings, although it read
\* the bytes out of the buffer it was writing to, and in as many cells as its
\* *_length function answers.
WrittenAsPromised ==
    pc = "return" =>
        /\ SubSeq(memory, 1, to)
             = FlattenSeq([i \in DOMAIN call.pieces |-> Written(call.pieces[i])])
        /\ call.place # "apart" \/ Len(call.pieces) > 1 => to = call.checked

\* What was encoded is decoded to itself in place.
DecodedBack ==
    pc = "decoded" =>
        /\ to = DecodeLength(call.checked)
        /\ SubSeq(memory, 1, to) = call.pieces[1].raw
==============================================================================

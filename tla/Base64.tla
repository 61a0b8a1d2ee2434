-------------------------------- MODULE Base64 --------------------------------
(***************************************************************************)
(* Unpadded base64, src/base64.cpp, on bytes and characters as numbers.    *)
(* Encoding and decoding go group by group, from the front to the back, so *)
(* that both may be done in place.                                         *)
(***************************************************************************)
EXTENDS Integers, Sequences, SequencesExt

\* Mutant: the buffer is four thirds of the input, rounded down.
EncodeLengthRoundedDown(n) == (4 * n) \div 3

\* encode_base64_length, decode_base64_length; -1 where the code has size_t(-1).
EncodeLength(n) == 4 * ((n + 2) \div 3) + ((n + 2) % 3) - 2
DecodeLength(n) == IF n % 4 = 1 THEN -1
                   ELSE 3 * ((n + 2) \div 4) + ((n + 2) % 4) - 2

ENCODE_BASE64 ==
    [d \in 0..63 |-> CASE d < 26 -> 65 + d
                       [] d \in 26..51 -> 97 + d - 26
                       [] d \in 52..61 -> 48 + d - 52
                       [] d = 62 -> 43
                       [] d = 63 -> 47]

\* -1 as an unsigned byte for what is not a base64 character.
DECODE_BASE64 ==
    [c \in 0..127 |-> IF \E d \in 0..63 : ENCODE_BASE64[d] = c
                      THEN CHOOSE d \in 0..63 : ENCODE_BASE64[d] = c
                      ELSE 255]

\* value <<= 6; value |= digit, where 255 sets two bits of the value as well.
Append6(value, digit) ==
    IF digit < 64 THEN value * 64 + digit ELSE 256 * ((value * 64) \div 256) + 255

\* The characters of one to three bytes: the value is filled up with zeros to a
\* whole number of digits.
EncodeGroup(bytes) ==
    LET n     == Len(bytes)
        value == FoldLeft(LAMBDA v, b : v * 256 + b, 0, bytes) * 4 ^ (3 - n)
    IN  [i \in 1 .. n + 1 |-> ENCODE_BASE64[(value \div 64 ^ (n + 1 - i)) % 64]]

\* Mutant: the bits that fill up the last character are not shifted out.
DecodeGroupUnshifted(chars) ==
    LET n     == Len(chars)
        value == FoldLeft(Append6, 0, [i \in 1..n |-> DECODE_BASE64[chars[i] % 128]])
    IN  [i \in 1 .. n - 1 |-> (value \div 256 ^ (n - 1 - i)) % 256]

\* The bytes of two to four characters: what is left over is shifted out.
DecodeGroup(chars) ==
    LET n     == Len(chars)
        value == FoldLeft(Append6, 0, [i \in 1..n |-> DECODE_BASE64[chars[i] % 128]])
                   \div 4 ^ (4 - n)
    IN  [i \in 1 .. n - 1 |-> (value \div 256 ^ (n - 1 - i)) % 256]
==============================================================================

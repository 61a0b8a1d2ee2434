--------------------------- MODULE MCMessageReading ---------------------------
(* Contents that look like tags and lengths, or need a length of two bytes;  *)
(* counters around one and two varint bytes; and all short payloads over an  *)
(* alphabet that holds the tags of the format and one of each other wire type.*)
EXTENDS MessageReading

Texts == { <<>>, <<10, 1>>, <<34, 200, 34>>, [i \in 1..129 |-> 16 + i] }
Counters == { 0, 34, 127, 128, 1023 }

MCContents ==
    [message |-> [ratchet_key : Texts, counter : Counters, ciphertext : Texts],
     pre_key |-> [one_time_key : Texts, base_key : Texts,
                  identity_key : { <<>>, <<18, 1>> }, message : Texts],
     group   |-> [message_index : Counters, ciphertext : Texts]]

\* No field; an integer under a tag of two bytes; a string that holds tags.
MCUnknown == { <<>>, <<136, 1, 200, 10>>, <<58, 3, 34, 18, 10>> }

Alphabet(f) ==
    { Formats[f][i].tag : i \in DOMAIN Formats[f] } \union {1, 2, 24, 130}

MCPayloads ==
    [f \in Format |-> { <<3>> \o s : s \in UNION { [1..n -> Alphabet(f)] : n \in 0..4 } }
                        \union { <<v>> : v \in {2, 3} }]
===============================================================================

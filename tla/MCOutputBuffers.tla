--------------------------- MODULE MCOutputBuffers ---------------------------
(* All short strings of extreme bytes, one string of each length the library *)
(* encodes (signatures, keys, session keys and exports, messages), and       *)
(* buffers that are too small, exact and too large.                          *)
EXTENDS OutputBuffers

Pattern(n) == [i \in 1..n |-> (37 * i + 200) % 256]

Raws == UNION { [1..n -> {0, 3, 192, 255}] : n \in 0..4 }
          \union { Pattern(n) : n \in {8, 32, 64, 100, 165, 229} }

Near(n) == { m \in n - 1 .. n + 4 : m >= 0 }

InPlaceCalls ==
    UNION { { InPlace(raw, g), Apart(raw, g), PkCiphertext(raw, g) } :
                <<raw, g>> \in UNION { { <<r, g>> : g \in Near(EncodeLength(Len(r))) } : r \in Raws } }

Key(published, k) == [published |-> published, id |-> Pattern(4), key |-> Pattern(k)]

JsonCalls ==
    { IdentityJson(Pattern(32), Pattern(32), g) : g \in 115..120 }
      \union { OneTimeKeysJson([i \in 1..n |-> Key(i \in P, 32)], 17 + 55 * m + e) :
                   n \in 0..3, P \in SUBSET (1..3), m \in 0..3, e \in -1..1 }

MCCalls == InPlaceCalls \union JsonCalls

MCMacCalls == { PkMac(Pattern(8), g) : g \in 7..12 }
===============================================================================

------------------------------ MODULE MCFloat ------------------------------
(***************************************************************************)
(* Float with a float of 9 bits (6 of exponent, 2 of fraction) and a       *)
(* double of 18 (9 and 8): every float and the doubles around every limit  *)
(* as single operands, fewer of them in pairs and in threes, and integers  *)
(* of every magnitude.                                                     *)
(***************************************************************************)
EXTENDS Float

MCExpBits == [s |-> 6, d |-> 9]
MCFracBits == [s |-> 2, d |-> 8]
MCStale == 84 * 512 + 300

Single(s, e, m) == 511 * 512 + s * 256 + e * 4 + m
Double(s, e, m) == s * 131072 + e * 256 + m

\* 0 and 1 are subnormal; 31 is the exponent of 1, 63 that of infinity and NaN.
Floats(exps, fracs) == { Single(s, e, m) : s \in {0, 1}, e \in exps, m \in fracs }

\* 255 is the exponent of 1; a float reaches from 225 to 286, an int from 246 to 272.
Doubles(exps, fracs) == { Double(s, e, m) : s \in {0, 1}, e \in exps, m \in fracs }

MCTriples ==
  { <<w, 0, 0>> : w \in Floats(0 .. 63, 0 .. 3) \cup
                        Doubles({0, 1, 200, 222, 223, 224, 225, 252, 253, 254, 255, 256, 262, 263,
                                 264, 265, 270, 271, 272, 273, 286, 287, 510, 511},
                                {0, 1, 32, 63, 64, 65, 127, 128, 129, 192, 254, 255}) }
  \cup { <<v, w, 0>> : v, w \in Floats({0, 1, 31, 33, 63}, {0, 1, 2}) \cup
                                Doubles({0, 1, 255, 511}, {0, 129}) }
  \cup { <<u, v, w>> : u, v, w \in Floats({0, 29, 31}, {0, 3}) \cup Doubles({255}, {0, 129}) }

MCInts ==
  { 2^k + d : k \in 2 .. 17, d \in {-2, -1, 0, 1, 2} }
  \cup { 2^18 - k : k \in 1 .. 20 } \cup 0 .. 20
  \cup { 3 * 2^k + d : k \in 5 .. 14, d \in {-33, -16, -1, 0, 1, 16, 31, 32} }
=============================================================================

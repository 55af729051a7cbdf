---------------------------- MODULE MCOperations ----------------------------
(***************************************************************************)
(* Operations with blocks of three bytes, so that a fragment can begin and *)
(* end inside one, and messages of up to two blocks, three with padding.   *)
(***************************************************************************)
EXTENDS Operations, TLC

CONSTANTS c1, c2, k1, k2, h1, h2, a, b

OneCipher == {c1}
TwoCiphers == {c1, c2}
TwoKeys == {k1, k2}

MCSymmetry ==
    Permutations({h1, h2}) \cup Permutations({a, b}) \cup Permutations(TwoKeys)
=============================================================================

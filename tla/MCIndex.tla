------------------------------ MODULE MCIndex ------------------------------
(* Words of two bits, mixed by a permutation that keeps 0, as fmix32 does. *)
(* Texts: a and b of one hash, with its home at the last slot of a table   *)
(* of four; zero, whose hash is the sentinel; and one, whose hash is what  *)
(* the sentinel is stored as.  Value 0 resolves to a, 1 to b, 2 to one.    *)
(* Pairs whose first component is the first word or the last.              *)
EXTENDS Index, Bitwise

CONSTANTS a, b, zero, one     \* the texts

MCWord == 0 .. 3
MCXor(v, w) == v ^^ w
MCValues == 0 .. 2
MCMix == [w \in MCWord |-> <<0, 3, 1, 2>>[w + 1]]
MCPairs == {0, 3} \X {0, 1, 2}
MCTexts == {a, b, zero, one}
MCTextHash ==
    [t \in MCTexts |-> CASE t = zero -> [lo |-> 0, hi |-> 0]
                         [] t = one -> [lo |-> 1, hi |-> 0]
                         [] OTHER -> [lo |-> 3, hi |-> 1]]
MCNameOf == [v \in MCValues |-> <<a, b, one>>[v + 1]]

Kind(kind, verified, layout) ==
    [kind |-> kind, verified |-> verified, layout |-> layout]
PairKinds == {Kind("pairIndex", FALSE, l) : l \in 1 .. 3}
NewestPair == {Kind("pairIndex", FALSE, 3)}
MCKinds ==
    PairKinds \cup {Kind("keyedIndex", FALSE, 0)}
              \cup {Kind("hashLookup", v, 0) : v \in BOOLEAN}
=============================================================================

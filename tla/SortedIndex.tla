---------------------------- MODULE SortedIndex ----------------------------
(***************************************************************************)
(* fields/sortedU32Index.ts: pairs of a key and a value, sorted by key     *)
(* when they are finalized and found by halving.  Many pairs are sorted by *)
(* sortPermutationByKey, one pass for each digit of the keys, the lowest   *)
(* first; a digit that all keys share is skipped.  Few are sorted by a     *)
(* comparison.                                                             *)
(*                                                                         *)
(* Abstractions.  Keys have two digits in base Digit and a last one that   *)
(* may be narrower; the code's are of 11, 11 and 10 bits.  A pass, count,  *)
(* sum and scatter, is the stable order by its digit that it comes to.  A  *)
(* key above the words is stored modulo their number (U32Buffer.push).     *)
(***************************************************************************)
EXTENDS Integers, Sequences, FiniteSets

CONSTANTS
    Digit,          \* how many digits there are: 2048
    LastDigit,      \* how many there are in the last place: 1024
    KeysAdded,      \* what add is given
    KeysSought,     \* what find is given
    RadixMinSize,   \* RADIX_MIN_SIZE
    MaxPairs        \* bound: how many pairs are added

ASSUME DigitAssumption ==
    Digit \in Nat \ {0, 1} /\ LastDigit \in 1 .. Digit /\ RadixMinSize \in Nat \ {0}
ASSUME KeysAssumption == KeysAdded \subseteq Nat /\ KeysSought \subseteq Nat

VARIABLES
    stage,      \* "adding", "sorting", "sorted", "finding" or "found"
    pairs,      \* SortedU32IndexBuilder: the keys; values are their positions
    order,      \* the permutation: place -> position of the pair
    pass,       \* of sortPermutationByKey
    lo, hi,     \* of find
    soughtKey,  \* of find
    hit         \* what find returned: the position of a pair, 0 for undefined

sortedVars == <<stage, pairs, order, pass, lo, hi, soughtKey, hit>>

Passes == 3
KeyWidth == Digit * Digit * LastDigit

Key(place) == pairs[order[place]]
Places == DOMAIN pairs

SortedInit ==
    /\ stage = "adding"
    /\ pairs = <<>>
    /\ order = <<>>
    /\ pass = 0
    /\ lo = 0
    /\ hi = 0
    /\ soughtKey = 0
    /\ hit = 0

\* mutant: the key is kept as it came.
AddPairUnwrapped(key) ==
    /\ stage = "adding"
    /\ Len(pairs) < MaxPairs
    /\ pairs' = Append(pairs, key)
    /\ UNCHANGED <<stage, order, pass, lo, hi, soughtKey, hit>>

AddPair(key) ==
    /\ stage = "adding"
    /\ Len(pairs) < MaxPairs
    /\ pairs' = Append(pairs, key % KeyWidth)
    /\ UNCHANGED <<stage, order, pass, lo, hi, soughtKey, hit>>

\* The permutation of `from` that is in the order of Before.
Arranged(from, Before(_, _)) ==
    [place \in DOMAIN from |->
        from[CHOOSE p \in DOMAIN from :
                 place = 1 + Cardinality({q \in DOMAIN from : q # p /\ Before(q, p)})]]

Identity == [i \in Places |-> i]

\* The comparator of finalize.
SortFew ==
    /\ stage = "adding"
    /\ Len(pairs) < RadixMinSize
    /\ order' = Arranged(Identity, LAMBDA i, j :
                    pairs[i] < pairs[j] \/ (pairs[i] = pairs[j] /\ i < j))
    /\ stage' = "sorted"
    /\ UNCHANGED <<pairs, pass, lo, hi, soughtKey, hit>>

SortMany ==
    /\ stage = "adding"
    /\ Len(pairs) >= RadixMinSize
    /\ order' = Identity
    /\ pass' = 1
    /\ stage' = "sorting"
    /\ UNCHANGED <<pairs, lo, hi, soughtKey, hit>>

\* mutant: the pass in the middle is the narrow one.
PassBucketsMiddle == IF pass = 2 THEN LastDigit ELSE Digit

\* How many digits the pass tells apart.
PassBuckets == IF pass = Passes THEN LastDigit ELSE Digit

\* What a digit of the pass is worth.
Power == CASE pass = 1 -> 1 [] pass = 2 -> Digit [] OTHER -> Digit * Digit

DigitOf(key) == (key \div Power) % PassBuckets

\* mutant: pairs of one digit come out the other way round.
ScatteredBackwards ==
    Arranged(order, LAMBDA p, q :
        \/ DigitOf(Key(p)) < DigitOf(Key(q))
        \/ DigitOf(Key(p)) = DigitOf(Key(q)) /\ p > q)

\* By the digit, and in the order they had where it is the same.
Scattered ==
    Arranged(order, LAMBDA p, q :
        \/ DigitOf(Key(p)) < DigitOf(Key(q))
        \/ DigitOf(Key(p)) = DigitOf(Key(q)) /\ p < q)

\* mutant: skipped when the first and the last key share the digit.
ShareDigitAtEnds == DigitOf(Key(1)) = DigitOf(Key(Len(pairs)))

ShareDigit == \A p \in Places : DigitOf(Key(p)) = DigitOf(Key(1))

NextPass ==
    IF pass = Passes THEN pass' = 0 /\ stage' = "sorted"
                     ELSE pass' = pass + 1 /\ UNCHANGED stage

SkipPass ==
    /\ stage = "sorting"
    /\ ShareDigit
    /\ NextPass
    /\ UNCHANGED <<pairs, order, lo, hi, soughtKey, hit>>

RunPass ==
    /\ stage = "sorting"
    /\ ~ShareDigit
    /\ order' = Scattered
    /\ NextPass
    /\ UNCHANGED <<pairs, lo, hi, soughtKey, hit>>

----------------------------------------------------------------------------
(* find: lo and hi count places from 0.                                    *)

FindPair(key) ==
    /\ stage = "sorted"
    /\ stage' = "finding"
    /\ soughtKey' = key
    /\ lo' = 0
    /\ hi' = Len(pairs)
    /\ UNCHANGED <<pairs, order, pass, hit>>

Mid == (lo + hi) \div 2

\* mutant: the upper half begins with the middle.
UpperHalf == Mid

\* Where it does begin.
Above == Mid + 1

HalveUp ==
    /\ stage = "finding"
    /\ lo < hi
    /\ Key(Mid + 1) < soughtKey
    /\ lo' = Above
    /\ UNCHANGED <<stage, pairs, order, pass, hi, soughtKey, hit>>

HalveDown ==
    /\ stage = "finding"
    /\ lo < hi
    /\ Key(Mid + 1) >= soughtKey
    /\ hi' = Mid
    /\ UNCHANGED <<stage, pairs, order, pass, lo, soughtKey, hit>>

FoundPair ==
    /\ stage = "finding"
    /\ lo >= hi
    /\ hit' = IF lo < Len(pairs) /\ Key(lo + 1) = soughtKey THEN order[lo + 1] ELSE 0
    /\ stage' = "found"
    /\ UNCHANGED <<pairs, order, pass, lo, hi, soughtKey>>

\* The caller has the value.
PairReturned ==
    /\ stage = "found"
    /\ stage' = "sorted"
    /\ lo' = 0
    /\ hi' = 0
    /\ soughtKey' = 0
    /\ hit' = 0
    /\ UNCHANGED <<pairs, order, pass>>

Halving == HalveUp \/ HalveDown \/ FoundPair

SortedNext ==
    \/ \E key \in KeysAdded : AddPair(key)
    \/ SortFew
    \/ SortMany
    \/ SkipPass
    \/ RunPass
    \/ \E key \in KeysSought : FindPair(key)
    \/ Halving
    \/ PairReturned

SortedSpec == SortedInit /\ [][SortedNext]_sortedVars /\ WF_sortedVars(Halving)

----------------------------------------------------------------------------

(* The state is of its type, and the order is one of all pairs.            *)
SortedTypeOK ==
    /\ stage \in {"adding", "sorting", "sorted", "finding", "found"}
    /\ pairs \in Seq(0 .. KeyWidth - 1)
    /\ stage # "adding" => {order[p] : p \in DOMAIN order} = Places
    /\ stage # "adding" => DOMAIN order = Places
    /\ pass \in 0 .. Passes
    /\ lo \in 0 .. Len(pairs) /\ hi \in 0 .. Len(pairs)
    /\ hit \in 0 .. Len(pairs)

(* Once finalized the keys are ascending, and those that are equal in the  *)
(* order they were added, by either way to sort and with any passes        *)
(* skipped (sortedU32Index.ts:9-62, 73-99).                                *)
SortedAndStable ==
    stage \in {"sorted", "finding", "found"} =>
        \A p, q \in Places :
            p < q => Key(p) < Key(q) \/ (Key(p) = Key(q) /\ order[p] < order[q])

(* find returns the value that was added first with the key, and undefined *)
(* only if there is none (sortedU32Index.ts:108-121).                      *)
FindsFirstPair ==
    stage = "found" =>
        LET same == {i \in Places : pairs[i] = soughtKey}
        IN  IF same = {} THEN hit = 0
            ELSE hit \in same /\ \A i \in same : hit <= i

(* Halving ends.                                                           *)
FindEnds == stage = "finding" ~> stage = "found"
=============================================================================

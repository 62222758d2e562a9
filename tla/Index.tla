------------------------------- MODULE Index -------------------------------
(***************************************************************************)
(* The fields that look rows up by key, each a builder and a reader over   *)
(* the table of HashTable.tla:                                             *)
(*                                                                         *)
(*   hashLookup  text -> value; with verifyVia, a hit counts only if the   *)
(*               value resolves to the text that is sought;                *)
(*   keyedIndex  text -> bucket of a bucketArray: the values from ptr[b]   *)
(*               to ptr[b + 1];                                            *)
(*   pairIndex   pair of words -> row of a ColumnStore of two columns, in  *)
(*               one of three placements of the pair (pairKey).            *)
(*                                                                         *)
(* An add enters the key in the table first and then pushes what belongs   *)
(* to it, value by value; a value that does not fit its column throws in   *)
(* between (NumberBuffer.push) and the caller may go on.                   *)
(*                                                                         *)
(* Abstractions.  A value of a column is the number of the entry that it   *)
(* was pushed for.  Of the values of one add, some may come before the one *)
(* that throws; which value throws is not modelled otherwise.  Numbers are *)
(* of one stride.  Nothing is added once the table is finalized.           *)
(***************************************************************************)
EXTENDS HashTable, FiniteSets

CONSTANTS
    Texts,      \* the keys of hashLookup and keyedIndex
    TextHash,   \* their hashes: hashString
    NameOf,     \* the text each value resolves to, through verifyVia
    Pairs,      \* the keys of pairIndex: <<a, b>>
    WordSize,   \* how many words there are
    Mix,        \* fmix32 on words
    XorOf(_, _),  \* of two words
    Kinds,      \* the fields there are: [kind, verified, layout]
    MaxFails    \* bound: how many adds throw

ASSUME TextsAssumption == TextHash \in [Texts -> Hash] /\ NameOf \in [Values -> Texts]
ASSUME PairsAssumption == Pairs \subseteq Word \X Word
ASSUME WordSizeAssumption == WordSize \in Nat \ {0} /\ Word = 0 .. WordSize - 1
ASSUME FailsAssumption == MaxFails \in Nat /\ 0 .. MaxAdds - 1 \subseteq Values

ASSUME KindsAssumption ==
    /\ Kinds \subseteq [kind : {"hashLookup", "keyedIndex", "pairIndex"},
                       verified : BOOLEAN, layout : 0 .. 3]
    /\ \A k \in Kinds : k.kind = "pairIndex" => k.layout # 0

\* fmix32 is a permutation of the words.
ASSUME MixAssumption ==
    /\ Mix \in [Word -> Word]
    /\ \A v, w \in Word : Mix[v] = Mix[w] => v = w

ASSUME XorAssumption ==
    \A u, v, w \in Word : XorOf(u, v) \in Word /\ (XorOf(v, u) = XorOf(w, u) => v = w)

VARIABLES
    field,      \* which of the Kinds this is
    keys,       \* history: the key of each entry
    columns,    \* the columns of the rows, or one: the data of the buckets
    ptr,        \* BucketArrayBuilder.ptrBuf
    count,      \* PairIndexBuilder.count
    failed,     \* the entries whose add threw
    asked       \* the key that was sought last

rows == <<columns, ptr, count, failed>>
vars == <<hashTable, field, keys, rows, asked>>

Columns == {1, 2}

\* (a + 1) >>> 0
Successor(a) == IF a + 1 = WordSize THEN 0 ELSE a + 1

\* mutant: the high half is folded into the low one and then replaced by it.
PairKeyFolded(pair, layout) ==
    LET a1 == Successor(pair[1])
        folded == Mix[XorOf(pair[2], Mix[a1])]
    IN  CASE layout = 1 -> [lo |-> pair[2], hi |-> a1]
          [] layout = 2 -> [lo |-> Mix[pair[2]], hi |-> Mix[a1]]
          [] layout = 3 -> [lo |-> folded, hi |-> folded]

\* The two halves of the key of a pair.
PairKey(pair, layout) ==
    LET a1 == Successor(pair[1])
    IN  CASE layout = 1 -> [lo |-> pair[2], hi |-> a1]
          [] layout = 2 -> [lo |-> Mix[pair[2]], hi |-> Mix[a1]]
          [] layout = 3 -> [lo |-> Mix[XorOf(pair[2], Mix[a1])], hi |-> Mix[a1]]

Init ==
    /\ TableInit
    /\ field \in Kinds
    /\ keys = <<>>
    /\ columns = [c \in Columns |-> <<>>]
    /\ ptr = <<0>>
    /\ count = 0
    /\ failed = {}
    /\ asked = <<>>

----------------------------------------------------------------------------
(* The builders.                                                           *)

Enter(key, hash, value) ==
    /\ Add(hash, value)
    /\ keys' = Append(keys, key)
    /\ UNCHANGED <<field, asked>>

\* The values pushed to a column by the add that is being made.
Pushed(n) == [i \in 1 .. n |-> Len(entries) + 1]

Throws ==
    /\ Cardinality(failed) < MaxFails
    /\ failed' = failed \cup {Len(entries) + 1}

\* HashLookupBuilder.add
LookupAdd(text, value) ==
    /\ field.kind = "hashLookup"
    /\ Enter(text, TextHash[text], value)
    /\ UNCHANGED rows

\* mutant: the bucket is ended before its values are pushed.
KeyedAddEndedFirst(text, n) ==
    /\ field.kind = "keyedIndex"
    /\ Enter(text, TextHash[text], Len(ptr) - 1)
    /\ ptr' = Append(ptr, Len(columns[1]))
    /\ columns' = [columns EXCEPT ![1] = @ \o Pushed(n)]
    /\ UNCHANGED <<count, failed>>

\* KeyedIndexBuilder.add of n values.
KeyedAdd(text, n) ==
    /\ field.kind = "keyedIndex"
    /\ Enter(text, TextHash[text], Len(ptr) - 1)
    /\ columns' = [columns EXCEPT ![1] = @ \o Pushed(n)]
    /\ ptr' = Append(ptr, Len(columns'[1]))
    /\ UNCHANGED <<count, failed>>

\* The same when the value after the nth throws: the bucket stays open.
KeyedAddFails(text, n) ==
    /\ field.kind = "keyedIndex"
    /\ Throws
    /\ Enter(text, TextHash[text], Len(ptr) - 1)
    /\ columns' = [columns EXCEPT ![1] = @ \o Pushed(n)]
    /\ UNCHANGED <<ptr, count>>

\* PairIndexBuilder.add
PairAdd(pair) ==
    /\ field.kind = "pairIndex"
    /\ Enter(pair, PairKey(pair, field.layout), count)
    /\ columns' = [c \in Columns |-> columns[c] \o Pushed(1)]
    /\ count' = count + 1
    /\ UNCHANGED <<ptr, failed>>

\* mutant: the row is counted before it is pushed.
PairAddFailsCounted(pair, column) ==
    /\ field.kind = "pairIndex"
    /\ Throws
    /\ Enter(pair, PairKey(pair, field.layout), count)
    /\ columns' = [c \in Columns |-> columns[c] \o Pushed(IF c < column THEN 1 ELSE 0)]
    /\ count' = count + 1
    /\ UNCHANGED ptr

\* The same when the value of a column throws: ColumnStore.push has pushed
\* those of the columns before it.
PairAddFails(pair, column) ==
    /\ field.kind = "pairIndex"
    /\ Throws
    /\ Enter(pair, PairKey(pair, field.layout), count)
    /\ columns' = [c \in Columns |-> columns[c] \o Pushed(IF c < column THEN 1 ELSE 0)]
    /\ UNCHANGED <<ptr, count>>

Build ==
    /\ FinalizeEmpty \/ Finalize
    /\ UNCHANGED <<field, keys, rows, asked>>

----------------------------------------------------------------------------
(* The readers.                                                            *)

Ask(key, hash, fits) ==
    /\ FindEmpty(hash, fits) \/ Find(hash, fits)
    /\ asked' = key
    /\ UNCHANGED <<field, keys, rows>>

\* HashLookupReader.find, with the key matcher of verifyVia or without.
LookupFind(text) ==
    /\ field.kind = "hashLookup"
    /\ Ask(text, TextHash[text],
           IF field.verified THEN {v \in Values : NameOf[v] = text} ELSE Values)

\* KeyedIndexReader.find, whose lookup has no matcher.
KeyedFind(text) ==
    /\ field.kind = "keyedIndex"
    /\ Ask(text, TextHash[text], Values)

\* PairIndexReader.findIndex
PairFind(pair) ==
    /\ field.kind = "pairIndex"
    /\ Ask(pair, PairKey(pair, field.layout), Values)

Run ==
    /\ Steps
    /\ UNCHANGED <<field, keys, rows, asked>>

Take ==
    /\ Return
    /\ asked' = <<>>
    /\ UNCHANGED <<field, keys, rows>>

\* BucketArrayReader.slice: past the last bucket the end is NaN, which is 0.
Slice(bucket) ==
    IF bucket + 2 > Len(ptr)
    THEN <<>>
    ELSE SubSeq(columns[1], ptr[bucket + 1] + 1, ptr[bucket + 2])

----------------------------------------------------------------------------

\* bound: a keyedIndex add has at most two values.
Next ==
    \/ \E text \in Texts, value \in Values : LookupAdd(text, value)
    \/ \E text \in Texts, n \in 0 .. 2 : KeyedAdd(text, n)
    \/ \E text \in Texts, n \in 0 .. 1 : KeyedAddFails(text, n)
    \/ \E pair \in Pairs : PairAdd(pair)
    \/ \E pair \in Pairs, column \in Columns : PairAddFails(pair, column)
    \/ Build
    \/ \E text \in Texts : LookupFind(text)
    \/ \E text \in Texts : KeyedFind(text)
    \/ \E pair \in Pairs : PairFind(pair)
    \/ Run
    \/ Take

Spec == Init /\ [][Next]_vars

\* A build and a lookup run to their end on the thread that called them.
FairSpec == Spec /\ WF_vars(Run)

----------------------------------------------------------------------------

(* Every build and every lookup ends, with all slots taken that a table of *)
(* its size can have taken: the loops look for a free slot or a match and  *)
(* have no other way out (hashLookup.ts:33-38, 115-128).                   *)
ProbesEnd ==
    phase \in {"placing", "probing"} ~> phase \in {"ready", "answered"}

(* With verifyVia, what find returns resolves to the text that was sought, *)
(* and a value added under the text it resolves to is found although       *)
(* another text of the same hash was added before it (README.md:115-117,   *)
(* hashLookup.ts:120-125).                                                 *)
VerifiedIsRight ==
    phase = "answered" /\ field.kind = "hashLookup" /\ field.verified =>
        /\ \A v \in answer : NameOf[v] = asked
        /\ (\E i \in DOMAIN entries :
                keys[i] = asked /\ NameOf[entries[i].value] = asked) => answer # {}

(* Different pairs have different keys in every placement (pairIndex.ts:   *)
(* 33-34, 44-45): two entries of one hash are of one pair.                 *)
PairsStayDistinct ==
    field.kind = "pairIndex" =>
        \A i, j \in DOMAIN entries :
            entries[i].hash = entries[j].hash => keys[i] = keys[j]

\* The entry that a lookup that hit has found.
Found == CHOOSE f \in Fitting : \A g \in Fitting : f <= g

\* The values of the first column that were pushed for an entry.
PushedFor(i) ==
    [n \in 1 .. Cardinality({p \in DOMAIN columns[1] : columns[1][p] = i}) |-> i]

(* An add that throws spoils nothing that was added before it: a key whose *)
(* entry precedes every add that threw still leads to the values pushed    *)
(* for it, to all of them and to no others, in every column; and so does   *)
(* every key when no add threw (keyedIndex.ts:15-19, pairIndex.ts:76-81,   *)
(* columns.ts:109-128).                                                    *)
ReadsOwnRow ==
    phase = "answered" /\ answer # {} /\ (\A f \in failed : Found < f) =>
        /\ field.kind = "keyedIndex" =>
               \A b \in answer : Slice(b) = PushedFor(Found)
        /\ field.kind = "pairIndex" =>
               \A r \in answer, c \in Columns : columns[c][r + 1] = Found

\* A bucket that ends with the values pushed for an entry, and has nothing
\* before them but what adds that threw have left.
EndsWithOwn(bucket, i) ==
    \E left \in 0 .. Len(bucket) :
        /\ Len(bucket) = left + Len(PushedFor(i))
        /\ \A p \in 1 .. Len(bucket) :
               IF p <= left THEN bucket[p] \in failed ELSE bucket[p] = i

(* An add that throws loses nothing that is added after it either: a key   *)
(* whose own add returned leads to all values pushed for it.  In a         *)
(* keyedIndex only what adds that threw have left may stand before them in *)
(* the bucket they left open; in a pairIndex the last column holds its row *)
(* where the lookup says, since push fills it last and count goes with it  *)
(* (keyedIndex.ts:15-19, pairIndex.ts:76-81, columns.ts:109-128).          *)
ThrowsLoseNothing ==
    phase = "answered" /\ answer # {} /\ Found \notin failed =>
        /\ field.kind = "keyedIndex" =>
               \A b \in answer : EndsWithOwn(Slice(b), Found)
        /\ field.kind = "pairIndex" =>
               \A r \in answer :
                   r + 1 \in DOMAIN columns[2] /\ columns[2][r + 1] = Found

(* What the comment on pairKey says: "a hit on both halves is still an     *)
(* exact match".  The pair of the row that is found is the pair asked for  *)
(* (pairIndex.ts:33-34).                                                   *)
HitIsExact ==
    field.kind = "pairIndex" /\ phase = "answered" =>
        \A r \in answer : keys[columns[1][r + 1]] = asked
=============================================================================

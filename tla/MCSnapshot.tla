----------------------------- MODULE MCSnapshot -----------------------------
(* What a snapshot is made of, each by itself: `part` says which one moves *)
(* in a behaviour, and the others stay as they begin.                      *)
(*                                                                         *)
(* The file.  Offsets of eight bits, so that "4 GiB" is 256 bytes and "2   *)
(* GiB" is 128.  Of the snapshots, the first are files; the others come to *)
(* the limits: past 2 GiB in the last section, past it before the last     *)
(* section, past 4 GiB, and past it and back to a length that can be       *)
(* allocated.                                                              *)
(*                                                                         *)
(* The strings.  One, a lone surrogate and what is stored for it, all of   *)
(* one hash, whose home is the last slot of an index of eight.             *)
(*                                                                         *)
(* The trigrams.  Three texts over two letters, one of two letters and one *)
(* that repeats a trigram; the hash of one is the sentinel and that of      *)
(* another what the sentinel is stored as.  The last entity is the last    *)
(* word, whose successor is 0, and makes a short index sparse.             *)
(*                                                                         *)
(* The sorted keys.  Three binary digits.  The columns.  A number that     *)
(* does not fit its column, short strides and columns of each kind.        *)
EXTENDS SnapshotFile, Strings, Trigram, SortedIndex, Buckets

CONSTANTS noText, plain, lone, fffd     \* the strings

VARIABLE part

allVars == <<part, vars, stringsVars, trigramVars, sortedVars, bucketsVars>>

Emission(tag, lengths) == [tag |-> tag, manifest |-> 7, sections |-> lengths]

Files ==
    {Emission("old", <<4, 16>>), Emission("new", <<4, 16>>),
     Emission("longer", <<9, 16, 0>>)}

Lengths == {0, 3, 64, 93, 119, 120, 127}

Edge ==
    {Emission("big", <<x, y>>) : x \in Lengths, y \in Lengths}
    \cup {Emission("big", <<119, x, y>>) : x \in Lengths, y \in Lengths}
    \cup {Emission("huge", <<160>>), Emission("huge", <<220>>),
          Emission("huge", <<130, 119>>), Emission("huge", <<130, 130>>)}

MCEmissions == Files \cup Edge

\* bound: only the first snapshots are written to the file.
MCFiles == {"old", "new", "longer"}

MCStrings == {plain, lone, fffd}
MCNormal == [s \in MCStrings \cup {noText} |-> IF s = lone THEN fffd ELSE s]
MCByteHash == [s \in MCStrings |-> 7]

MCLetters == {"a", "b"}
MCLower ==
    [name \in {"Ab", "ababa", "babb"} |->
        CASE name = "Ab" -> <<"a", "b">>
          [] name = "ababa" -> <<"a", "b", "a", "b", "a">>
          [] name = "babb" -> <<"b", "a", "b", "b">>]
MCNames == DOMAIN MCLower
MCTrigrams == {<<"a", "b">>, <<"a", "b", "a">>, <<"b", "a", "b">>, <<"a", "b", "b">>}
MCHashOf ==
    [w \in MCTrigrams |->
        CASE w = <<"a", "b">> -> <<0, 0>>
          [] w = <<"a", "b", "a">> -> <<1, 0>>
          [] w = <<"b", "a", "b">> -> <<3, 1>>
          [] w = <<"a", "b", "b">> -> <<3, 2>>]
MCCharHome ==
    [w \in MCTrigrams |-> IF w \in {<<"b", "a", "b">>, <<"a", "b", "b">>} THEN 3 ELSE 1]
MCHashes == {<<3, 2>>}
MCRatios == {[num |-> 7, den |-> 10], [num |-> 11, den |-> 10]}

MCSpec(stride, most) == [stride |-> stride, least |-> 0, most |-> most]
MCField(kind, specs) == [kind |-> kind, specs |-> specs]
MCFields ==
    {MCField("numArray", <<MCSpec(1, 2)>>),
     MCField("bucketArray", <<MCSpec(1, 2)>>),
     MCField("bucketArray", <<MCSpec(2, 2)>>),
     MCField("multiBucketArray", <<MCSpec(2, 2), MCSpec(1, 2), MCSpec(1, 9)>>)}
MCStrides == {<<1, 2>>, <<2>>, <<1, 3>>}
MCRows(f) ==
    IF Len(f.specs) = 3
    THEN {<<s, <<1>>, <<9>>>> : s \in MCStrides} \cup {<<<<1, 2>>, <<3>>, <<9>>>>}
    ELSE IF f.specs[1].stride = 2 THEN {<<s>> : s \in MCStrides}
    ELSE {<<<<1>>>>, <<<<3>>>>}
MCRuns == {<<1, 2, 1>>, <<2, 3, 1>>}

PartsInit ==
    /\ part \in {"file", "strings", "trigrams", "sorted", "columns"}
    /\ Init
    /\ StringsInit
    /\ TrigramInit
    /\ SortedInit
    /\ BucketsInit
    /\ part # "columns" => made = CHOOSE f \in Fields : TRUE

NotFile == UNCHANGED vars
NotStrings == UNCHANGED stringsVars
NotTrigrams == UNCHANGED trigramVars
NotSorted == UNCHANGED sortedVars
NotColumns == UNCHANGED bucketsVars

PartsNext ==
    /\ UNCHANGED part
    /\ \/ /\ part = "file" /\ Next
          /\ NotStrings /\ NotTrigrams /\ NotSorted /\ NotColumns
       \/ /\ part = "strings" /\ StringsNext
          /\ NotFile /\ NotTrigrams /\ NotSorted /\ NotColumns
       \/ /\ part = "trigrams" /\ TrigramNext
          /\ NotFile /\ NotStrings /\ NotSorted /\ NotColumns
       \/ /\ part = "sorted" /\ SortedNext
          /\ NotFile /\ NotStrings /\ NotTrigrams /\ NotColumns
       \/ /\ part = "columns" /\ BucketsNext
          /\ NotFile /\ NotStrings /\ NotTrigrams /\ NotSorted

\* The fairness of the file and of find.
PartsSpec ==
    /\ PartsInit
    /\ [][PartsNext]_allVars
    /\ WF_vars(Reading)
    /\ WF_sortedVars(Halving)

----------------------------------------------------------------------------

(* The state of each part is of its type.                                  *)
PartsTypeOK ==
    /\ TypeOK
    /\ StringsTypeOK
    /\ TrigramTypeOK
    /\ SortedTypeOK
    /\ BucketsTypeOK

(* Every read of a file ends, whatever happens to it, and so does every    *)
(* search of a sorted index (io.ts:37-41, sortedU32Index.ts:113-117).      *)
PartsEnd == ReadsEnd /\ FindEnds
=============================================================================

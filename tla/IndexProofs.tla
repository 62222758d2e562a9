---------------------------- MODULE IndexProofs ----------------------------
(***************************************************************************)
(* Proofs about HashTable.tla, for tables of up to 2^29 - 1 entries, any   *)
(* hashes and any matchers; and about Index.tla: its fields use the table  *)
(* as HashTable.tla lets any client use it, so that what is proved of the  *)
(* table holds of them; the keys of pairs differ; and adds that throw harm *)
(* neither what was added before them nor what is added after.             *)
(***************************************************************************)
EXTENDS Index, FiniteSetTheorems, WellFoundedInduction, TLAPS

----------------------------------------------------------------------------
(* The table.                                                              *)

USE WordAssumption, ValuesAssumption, MaxAddsAssumption

(* The slots a probe passes from a until it stands at b, around the end of *)
(* a table of n slots.                                                     *)
Span(a, b, n) == IF a <= b THEN a .. b - 1 ELSE (a .. n - 1) \cup (0 .. b - 1)

Built == phase # "adding" /\ entries # <<>>

\* The part of the state that a probe relies on.
EveryTakenSlotHasAnEntry ==
    \A s \in Slots : ~IsFree(s) => \E i \in 1 .. next - 1 : at[i] = s

EntriesAreHeld ==
    \A i \in 1 .. next - 1 :
        /\ at[i] \in Slots
        /\ table[at[i]].hash = Stored(entries[i].hash)
        /\ table[at[i]].value = entries[i].value

NoGapBefore ==
    \A i \in 1 .. next - 1 :
        \A s \in Span(Home(entries[i].hash), at[i], Capacity) : ~IsFree(s)

EarlierIsMetFirst ==
    \A i, j \in 1 .. next - 1 :
        i < j /\ Stored(entries[i].hash) = Stored(entries[j].hash) =>
            at[i] \in Span(Home(entries[j].hash), at[j], Capacity)

PlacingPassedTaken ==
    phase = "placing" =>
        \A s \in Span(Home(entries[next].hash), slot, Capacity) : ~IsFree(s)

ProbePassedMisses ==
    phase = "probing" =>
        \A s \in Span(Home(sought.hash), slot, Capacity) : ~IsFree(s) /\ ~Hits(s)

TableInv ==
    /\ TableTypeOK
    /\ phase # "answered" => answer = {}
    /\ Built => /\ EveryTakenSlotHasAnEntry
                /\ EntriesAreHeld
                /\ NoGapBefore
                /\ EarlierIsMetFirst
                /\ PlacingPassedTaken
                /\ ProbePassedMisses
    /\ FindsFirst

----------------------------------------------------------------------------

(* There is a power of two for every size, and it is greater.              *)
LEMMA CapacityFits ==
  ASSUME NEW size \in 1 .. MaxAdds
  PROVE  CapacityFor(size) \in Nat /\ CapacityFor(size) > size
<1> DEFINE x == OneAndAHalf(size)
<1>1. x \in Nat /\ size < x /\ x <= 2 * MaxAdds
  BY DEF OneAndAHalf
<1> HIDE DEF x
<1>l. ShiftLimit \in Nat
  BY SMT DEF ShiftLimit
<1>2. x \in Nat /\ size < x /\ 1 < x /\ x < ShiftLimit
  BY <1>1, <1>l
<1>3. \E c \in Capacities : c \div 2 <= x /\ x < c
  BY <1>2, SMTT(60) DEF Capacities, ShiftLimit
<1>4. CapacityFor(size) \in Capacities /\ x < CapacityFor(size)
  BY <1>3 DEF CapacityFor, x
<1>5. CapacityFor(size) \in Nat
  BY <1>4, SMT DEF Capacities
<1>6. QED
  BY <1>2, <1>4, <1>5

LEMMA CapacityPositive ==
  ASSUME TableTypeOK, entries # <<>>
  PROVE  Capacity \in Nat /\ Capacity > Len(entries) /\ Len(entries) \in Nat \ {0}
<1>1. Len(entries) \in 1 .. MaxAdds
  BY DEF TableTypeOK
<1>2. QED
  BY <1>1, CapacityFits DEF Capacity

LEMMA HomeIsSlot ==
  ASSUME NEW hash \in Hash, NEW n \in Nat, n > 0
  PROVE  Stored(hash).lo % n \in 0 .. n - 1
<1>1. Stored(hash).lo \in Nat
  BY DEF Stored, Hash, Zero
<1>2. QED
  BY <1>1

LEMMA EntryTyped ==
  ASSUME TableTypeOK, NEW i \in 1 .. Len(entries)
  PROVE  /\ entries[i] \in [hash : Hash, value : Values]
         /\ entries[i].hash \in Hash
         /\ entries[i].value \in Values
<1> DEFINE Entry == [hash : Hash, value : Values]
<1>1. entries \in Seq(Entry)
  BY DEF TableTypeOK
<1> HIDE DEF Entry
<1>2. entries[i] \in Entry
  BY <1>1
<1>3. QED
  BY <1>2 DEF Entry

LEMMA HomeInSlots ==
  ASSUME TableTypeOK, entries # <<>>, NEW hash \in Hash
  PROVE  Home(hash) \in Slots
BY CapacityPositive, HomeIsSlot DEF Home, Slots

(* A stored hash never looks like a free slot.                             *)
LEMMA StoredIsTaken ==
  ASSUME NEW hash \in Hash
  PROVE  Stored(hash) \in Hash /\ Stored(hash) # Zero
BY DEF Stored, Hash, Zero

(* Facts on spans: what the next slot adds, and that of two slots one is   *)
(* on the way to the other.                                                *)
LEMMA SpanGrows ==
  ASSUME NEW n \in Nat, NEW a \in 0 .. n - 1, NEW b \in 0 .. n - 1,
         NEW s \in Span(a, IF b + 1 = n THEN 0 ELSE b + 1, n)
  PROVE  s \in Span(a, b, n) \/ s = b
BY DEF Span

LEMMA SpanTotal ==
  ASSUME NEW n \in Nat, NEW a \in 0 .. n - 1, NEW b \in 0 .. n - 1, NEW c \in 0 .. n - 1
  PROVE  b \in Span(a, c, n) \/ b = c \/ c \in Span(a, b, n)
BY DEF Span

LEMMA SpanOfSlots ==
  ASSUME NEW n \in Nat, NEW a \in 0 .. n - 1, NEW b \in 0 .. n - 1
  PROVE  /\ Span(a, b, n) \subseteq 0 .. n - 1
         /\ b \notin Span(a, b, n)
         /\ Span(a, a, n) = {}
BY DEF Span

----------------------------------------------------------------------------

LEMMA TypeInit == TableInit => TableTypeOK
BY DEF TableInit, TableTypeOK, Nothing, Zero, Hash

LEMMA TypeStep ==
  ASSUME TableTypeOK, [TableNext]_hashTable
  PROVE  TableTypeOK'
<1> USE DEF TableTypeOK
<1>c. entries' = entries => Capacity' = Capacity /\ Slots' = Slots
  BY DEF Capacity, Slots
<1>z. Zero \in Hash
  BY DEF Zero, Hash
<1>1. ASSUME NEW hash \in Hash, NEW value \in Values, Add(hash, value)
      PROVE  TableTypeOK'
  BY <1>1 DEF Add, tableVars
<1>2. CASE FinalizeEmpty
  BY <1>2 DEF FinalizeEmpty
<1>3. CASE Finalize
  <2>1. Capacity \in Nat /\ Capacity > 0
    BY <1>3, CapacityPositive DEF Finalize
  <2>2. Len(entries) >= 1
    BY <1>3, CapacityPositive DEF Finalize
  <2>3. Home(entries[1].hash) \in Slots
    BY <1>3, <2>2, EntryTyped, HomeInSlots DEF Finalize
  <2>4. Free \in [hash : Hash, value : Values]
    BY <1>z DEF Free
  <2>5. table' \in [Slots' -> [hash : Hash, value : Values]]
    BY <1>3, <2>4, <1>c DEF Finalize
  <2>6. QED
    BY <1>3, <1>c, <2>2, <2>3, <2>5 DEF Finalize
<1>4. CASE SkipTaken
  <2>1. Capacity \in Nat /\ Capacity > 0
    BY <1>4, CapacityPositive DEF SkipTaken
  <2>2. slot' \in Slots
    BY <1>4, <2>1 DEF SkipTaken, NextSlot, Slots
  <2>3. QED
    BY <1>4, <1>c, <2>2 DEF SkipTaken
<1>5. CASE Place
  <2>1. Capacity \in Nat /\ Capacity > 0
    BY <1>5, CapacityPositive DEF Place
  <2>2. entries[next].hash \in Hash /\ entries[next].value \in Values
    BY <1>5, EntryTyped DEF Place
  <2>3. [hash |-> Stored(entries[next].hash), value |-> entries[next].value]
            \in [hash : Hash, value : Values]
    BY <2>2, StoredIsTaken
  <2>4. table' \in [Slots' -> [hash : Hash, value : Values]]
    BY <1>5, <2>3, <1>c DEF Place
  <2>5. next < Len(entries) => slot' \in Slots
    <3>1. SUFFICES ASSUME next < Len(entries) PROVE slot' \in Slots
      OBVIOUS
    <3>2. entries[next + 1].hash \in Hash
      BY <3>1, EntryTyped
    <3>3. Home(entries[next + 1].hash) \in Slots
      BY <3>1, <3>2, HomeInSlots
    <3>4. QED
      BY <3>1, <3>3, <1>5 DEF Place
  <2>6. at' \in Seq(Nat) /\ Len(at') = next' - 1
    BY <1>5, <2>1 DEF Place, Slots
  <2>7. QED
    BY <1>5, <1>c, <2>4, <2>5, <2>6 DEF Place
<1>6. ASSUME NEW hash \in Hash, NEW fits \in SUBSET Values,
             FindEmpty(hash, fits) \/ Find(hash, fits)
      PROVE  TableTypeOK'
  <2>1. CASE FindEmpty(hash, fits)
    BY <2>1, <1>c DEF FindEmpty
  <2>2. CASE Find(hash, fits)
    <3>1. entries # <<>>
      BY <2>2 DEF Find, Capacity
    <3>3. Home(hash) \in Slots
      BY <3>1, HomeInSlots
    <3>4. QED
      BY <2>2, <1>c, <3>1, <3>3 DEF Find
  <2>3. QED
    BY <1>6, <2>1, <2>2
<1>7. CASE ProbeFree
  BY <1>7, <1>c DEF ProbeFree
<1>8. CASE ProbeHit
  BY <1>8, <1>c DEF ProbeHit
<1>9. CASE ProbeOn
  <2>1. Capacity \in Nat /\ Capacity > 0
    BY <1>9, CapacityPositive DEF ProbeOn
  <2>2. slot' \in Slots
    BY <1>9, <2>1 DEF ProbeOn, NextSlot, Slots
  <2>3. QED
    BY <1>9, <1>c, <2>2 DEF ProbeOn
<1>10. CASE Return
  BY <1>10, <1>c, <1>z DEF Return, Nothing
<1>11. CASE UNCHANGED hashTable
  BY <1>11, <1>c DEF hashTable, tableVars
<1>12. QED
  BY <1>1, <1>2, <1>3, <1>4, <1>5, <1>6, <1>7, <1>8, <1>9, <1>10, <1>11
  DEF TableNext, Steps, Probe

(* The table, its probes and what they return are of their types.          *)
THEOREM TypeCorrect == TableSpec => []TableTypeOK
<1>1. TableInit => TableTypeOK
  BY TypeInit
<1>2. TableTypeOK /\ [TableNext]_hashTable => TableTypeOK'
  BY TypeStep
<1>3. QED
  BY <1>1, <1>2, PTL DEF TableSpec

----------------------------------------------------------------------------

LEMMA InvInit == TableInit => TableInv
BY TypeInit DEF TableInit, TableInv, Built, FindsFirst

(* What holds of the entries placed holds as long as nothing is placed.    *)
LEMMA TableKept ==
  ASSUME TableInv, Built, UNCHANGED <<entries, table, next, at>>
  PROVE  /\ Capacity' = Capacity /\ Slots' = Slots
         /\ EveryTakenSlotHasAnEntry'
         /\ EntriesAreHeld'
         /\ NoGapBefore'
         /\ EarlierIsMetFirst'
<1>1. Capacity' = Capacity /\ Slots' = Slots
  BY DEF Capacity, Slots
<1>2. EveryTakenSlotHasAnEntry'
  BY <1>1 DEF TableInv, EveryTakenSlotHasAnEntry, IsFree
<1>3. EntriesAreHeld'
  BY <1>1 DEF TableInv, EntriesAreHeld
<1>4. NoGapBefore'
  BY <1>1 DEF TableInv, NoGapBefore, Home, IsFree
<1>5. EarlierIsMetFirst'
  BY <1>1 DEF TableInv, EarlierIsMetFirst, Home
<1>6. QED
  BY <1>1, <1>2, <1>3, <1>4, <1>5

(* The slot of an entry that a lookup is for lies before every free slot,  *)
(* seen from the home of the hash that is sought.                          *)
LEMMA FittingIsMet ==
  ASSUME TableInv, Built, NEW i \in Fitting, i < next, slot \in Slots, IsFree(slot)
  PROVE  /\ at[i] \in Span(Home(sought.hash), slot, Capacity)
         /\ Hits(at[i])
<1>0. Capacity \in Nat /\ Capacity > 0
  BY CapacityPositive DEF TableInv, Built
<1>1. i \in 1 .. Len(entries) /\ i \in 1 .. next - 1
  BY DEF Fitting, TableInv, TableTypeOK
<1>2. at[i] \in Slots /\ Hits(at[i]) /\ ~IsFree(at[i])
  BY <1>1, EntryTyped, StoredIsTaken
  DEF TableInv, EntriesAreHeld, Fitting, Hits, IsFree
<1>3. Home(entries[i].hash) = Home(sought.hash)
  BY DEF Fitting, Home
<1>4. Home(sought.hash) \in Slots
  BY HomeInSlots DEF TableInv, TableTypeOK, Built
<1>5. slot \notin Span(Home(sought.hash), at[i], Capacity)
  BY <1>1, <1>3 DEF TableInv, NoGapBefore
<1>6. QED
  BY <1>0, <1>2, <1>4, <1>5, SpanTotal DEF Slots

LEMMA PlaceInv ==
  ASSUME TableInv, Place
  PROVE  TableInv'
<1>t. TableTypeOK /\ TableTypeOK'
  BY TypeStep DEF TableInv, TableNext, Steps
<1>b. Built
  BY <1>t DEF Place, Built, TableTypeOK
<1>e. UNCHANGED entries /\ Capacity' = Capacity /\ Slots' = Slots
  BY DEF Place, Capacity, Slots
<1>c. Capacity \in Nat /\ Capacity > 0
  BY <1>t, <1>b, CapacityPositive DEF Built
<1>n. next \in 1 .. Len(entries) /\ next' = next + 1 /\ next \in Nat
  BY <1>t DEF Place, TableTypeOK
<1>s. slot \in Slots /\ IsFree(slot) /\ slot \in Nat
  BY <1>t, <1>c DEF Place, TableTypeOK, Slots
<1>a. /\ \A i \in 1 .. next - 1 : at'[i] = at[i]
      /\ at'[next] = slot
  BY <1>t, <1>n, <1>s DEF Place, TableTypeOK
<1>h. entries[next].hash \in Hash /\ entries[next].value \in Values
  BY <1>t, <1>n, EntryTyped
<1>p. /\ table'[slot].hash = Stored(entries[next].hash)
      /\ table'[slot].value = entries[next].value
      /\ \A s \in Slots : s # slot => table'[s] = table[s]
  BY <1>t, <1>s, <1>b DEF Place, TableTypeOK, Built
<1>q. table'[slot].hash # Zero
  BY <1>p, <1>h, StoredIsTaken
<1>r. \A i \in 1 .. next - 1 : at[i] \in Slots /\ ~IsFree(at[i]) /\ at[i] # slot
  <2>1. TAKE i \in 1 .. next - 1
  <2>2. i \in 1 .. Len(entries)
    BY <1>n
  <2>3. at[i] \in Slots /\ table[at[i]].hash = Stored(entries[i].hash)
    BY <1>b DEF TableInv, EntriesAreHeld
  <2>4. ~IsFree(at[i])
    BY <1>t, <2>2, <2>3, EntryTyped, StoredIsTaken DEF IsFree
  <2>5. QED
    BY <2>3, <2>4, <1>s
<1>1. EveryTakenSlotHasAnEntry'
  <2>1. ASSUME NEW s \in Slots, ~(IsFree(s)')
        PROVE  \E i \in 1 .. next : at'[i] = s
    <3>1. CASE s = slot
      BY <3>1, <1>a, <1>n
    <3>2. CASE s # slot
      <4>1. ~IsFree(s)
        BY <2>1, <3>2, <1>p DEF IsFree
      <4>2. PICK i \in 1 .. next - 1 : at[i] = s
        BY <4>1, <1>b DEF TableInv, EveryTakenSlotHasAnEntry
      <4>3. i \in 1 .. next /\ at'[i] = s
        BY <4>2, <1>a, <1>n
      <4>4. QED
        BY <4>3
    <3>3. QED
      BY <3>1, <3>2
  <2>2. QED
    BY <2>1, <1>e, <1>n DEF EveryTakenSlotHasAnEntry
<1>2. EntriesAreHeld'
  <2>1. ASSUME NEW i \in 1 .. next
        PROVE  /\ at'[i] \in Slots
               /\ table'[at'[i]].hash = Stored(entries[i].hash)
               /\ table'[at'[i]].value = entries[i].value
    <3>1. CASE i = next
      BY <3>1, <1>a, <1>p, <1>s
    <3>2. CASE i # next
      <4>1. i \in 1 .. next - 1
        BY <3>2, <1>n
      <4>2. at'[i] = at[i] /\ at[i] \in Slots /\ table'[at[i]] = table[at[i]]
        BY <4>1, <1>a, <1>r, <1>p
      <4>3. QED
        BY <4>1, <4>2, <1>b DEF TableInv, EntriesAreHeld
    <3>3. QED
      BY <3>1, <3>2
  <2>2. QED
    BY <2>1, <1>e, <1>n DEF EntriesAreHeld
<1>k. \A s \in Slots : ~IsFree(s) => ~(IsFree(s)')
  BY <1>p, <1>q DEF IsFree
<1>g. \A i \in 1 .. next : Home(entries[i].hash) \in Slots
  BY <1>t, <1>n, <1>b, EntryTyped, HomeInSlots DEF Built
<1>3. NoGapBefore'
  <2>1. ASSUME NEW i \in 1 .. next, NEW s \in Span(Home(entries[i].hash), at'[i], Capacity)
        PROVE  ~(IsFree(s)')
    <3>1. CASE i = next
      <4>1. s \in Span(Home(entries[next].hash), slot, Capacity)
        BY <2>1, <3>1, <1>a
      <4>2. s \in Slots
        BY <4>1, <1>c, <1>g, <1>s, <1>n, SpanOfSlots DEF Slots
      <4>3. ~IsFree(s)
        BY <4>1, <1>b DEF TableInv, PlacingPassedTaken, Place
      <4>4. QED
        BY <4>2, <4>3, <1>k
    <3>2. CASE i # next
      <4>1. i \in 1 .. next - 1
        BY <3>2, <1>n
      <4>2. s \in Span(Home(entries[i].hash), at[i], Capacity)
        BY <2>1, <4>1, <1>a
      <4>3. s \in Slots
        BY <4>1, <4>2, <1>c, <1>g, <1>r, SpanOfSlots DEF Slots
      <4>4. ~IsFree(s)
        BY <4>1, <4>2, <1>b DEF TableInv, NoGapBefore
      <4>5. QED
        BY <4>3, <4>4, <1>k
    <3>3. QED
      BY <3>1, <3>2
  <2>2. QED
    BY <2>1, <1>n, <1>e DEF NoGapBefore, Home
<1>4. EarlierIsMetFirst'
  <2>1. ASSUME NEW i \in 1 .. next, NEW j \in 1 .. next, i < j,
               Stored(entries[i].hash) = Stored(entries[j].hash)
        PROVE  at'[i] \in Span(Home(entries[j].hash), at'[j], Capacity)
    <3>0. i \in 1 .. next - 1
      BY <2>1, <1>n
    <3>1. CASE j = next
      <4>1. Home(entries[i].hash) = Home(entries[j].hash)
        BY <2>1 DEF Home
      <4>2. slot \notin Span(Home(entries[j].hash), at[i], Capacity)
        BY <3>0, <4>1, <1>b, <1>s DEF TableInv, NoGapBefore
      <4>3. at[i] \in Span(Home(entries[j].hash), slot, Capacity)
        BY <3>0, <4>2, <1>r, <1>g, <1>s, <1>c, SpanTotal DEF Slots
      <4>4. QED
        BY <3>0, <3>1, <4>3, <1>a
    <3>2. CASE j # next
      <4>1. j \in 1 .. next - 1
        BY <3>2, <1>n
      <4>2. at[i] \in Span(Home(entries[j].hash), at[j], Capacity)
        BY <2>1, <3>0, <4>1, <1>b DEF TableInv, EarlierIsMetFirst
      <4>3. QED
        BY <3>0, <4>1, <4>2, <1>a
    <3>3. QED
      BY <3>1, <3>2
  <2>2. QED
    BY <2>1, <1>n, <1>e DEF EarlierIsMetFirst, Home
<1>5. PlacingPassedTaken'
  <2>1. SUFFICES ASSUME phase' = "placing" PROVE PlacingPassedTaken'
    BY DEF PlacingPassedTaken
  <2>2. next < Len(entries) /\ slot' = Home(entries[next + 1].hash)
    BY <2>1 DEF Place
  <2>3. Home(entries[next + 1].hash) \in Slots
    BY <1>t, <1>n, <1>b, <2>2, EntryTyped, HomeInSlots DEF Built
  <2>4. Stored(entries'[next'].hash).lo % Capacity' = slot'
    BY <2>2, <1>e, <1>n DEF Home
  <2>5. Span(slot', slot', Capacity') = {}
    BY <2>2, <2>3, <1>e, <1>c, SpanOfSlots DEF Slots
  <2>6. QED
    BY <2>4, <2>5 DEF PlacingPassedTaken, Home
<1>6. ProbePassedMisses' /\ FindsFirst' /\ answer' = {}
  BY DEF Place, ProbePassedMisses, FindsFirst, TableInv
<1>7. QED
  BY <1>1, <1>2, <1>3, <1>4, <1>5, <1>6, <1>t DEF TableInv

(* A probe that has come to a slot that ends it returns the first entry    *)
(* that it is for, or that there is none.                                  *)
LEMMA ProbeFreeInv ==
  ASSUME TableInv, ProbeFree
  PROVE  TableInv'
<1>t. TableTypeOK /\ TableTypeOK'
  BY TypeStep DEF TableInv, TableNext, Steps, Probe
<1>b. Built /\ Built' /\ slot \in Slots /\ next = Len(entries) + 1
  BY <1>t DEF ProbeFree, Built, TableTypeOK
<1>1. Fitting = {}
  <2>1. SUFFICES ASSUME NEW i \in Fitting PROVE FALSE
    OBVIOUS
  <2>2. i < next
    BY <1>b, <1>t DEF Fitting, TableTypeOK
  <2>3. at[i] \in Span(Home(sought.hash), slot, Capacity) /\ Hits(at[i])
    BY <1>b, <2>2, FittingIsMet DEF ProbeFree
  <2>4. QED
    BY <1>b, <2>3 DEF TableInv, ProbePassedMisses, ProbeFree
<1>2. Fitting' = {}
  BY <1>1 DEF ProbeFree, Fitting
<1>3. answer' = {}
  BY DEF ProbeFree, TableInv
<1>4. FindsFirst'
  BY <1>2, <1>3 DEF FindsFirst
<1>5. PlacingPassedTaken' /\ ProbePassedMisses' /\ phase' = "answered"
  BY DEF ProbeFree, PlacingPassedTaken, ProbePassedMisses
<1>6. UNCHANGED <<entries, table, next, at>>
  BY DEF ProbeFree
<1>7. QED
  BY <1>t, <1>b, <1>4, <1>5, <1>6, TableKept DEF TableInv

LEMMA ProbeHitInv ==
  ASSUME TableInv, ProbeHit
  PROVE  TableInv'
<1>t. TableTypeOK /\ TableTypeOK'
  BY TypeStep DEF TableInv, TableNext, Steps, Probe
<1>b. Built /\ Built' /\ slot \in Slots /\ next = Len(entries) + 1
  BY <1>t DEF ProbeHit, Built, TableTypeOK
<1>1. PICK i \in 1 .. next - 1 : at[i] = slot
  BY <1>b DEF ProbeHit, TableInv, EveryTakenSlotHasAnEntry
<1>2. i \in 1 .. Len(entries) /\ i \in Nat
  BY <1>1, <1>b, <1>t DEF TableTypeOK
<1>3. table[slot].hash = Stored(entries[i].hash) /\ table[slot].value = entries[i].value
  BY <1>1, <1>b DEF TableInv, EntriesAreHeld
<1>4. i \in Fitting /\ answer' = {entries[i].value}
  BY <1>2, <1>3 DEF ProbeHit, Hits, Fitting
<1>5. \A g \in Fitting : i <= g
  <2>1. SUFFICES ASSUME NEW g \in Fitting, g < i PROVE FALSE
    BY <1>2 DEF Fitting
  <2>2. g \in 1 .. next - 1 /\ g \in 1 .. Len(entries)
    BY <1>b, <1>t DEF Fitting, TableTypeOK
  <2>3. Stored(entries[g].hash) = Stored(entries[i].hash)
    BY <1>4 DEF Fitting
  <2>4. at[g] \in Span(Home(entries[i].hash), slot, Capacity)
    BY <1>1, <1>b, <2>1, <2>2, <2>3 DEF TableInv, EarlierIsMetFirst
  <2>5. Home(entries[i].hash) = Home(sought.hash)
    BY <1>4 DEF Fitting, Home
  <2>6. Hits(at[g])
    BY <1>b, <2>2 DEF TableInv, EntriesAreHeld, Fitting, Hits
  <2>7. QED
    BY <1>b, <2>4, <2>5, <2>6 DEF TableInv, ProbePassedMisses, ProbeHit
<1>6. {f \in Fitting : \A g \in Fitting : f <= g} = {i}
  <2>1. ASSUME NEW f \in Fitting, \A g \in Fitting : f <= g
        PROVE  f = i
    BY <1>2, <1>4, <1>5, <2>1 DEF Fitting
  <2>2. QED
    BY <1>4, <1>5, <2>1
<1>7. Fitting' = Fitting /\ entries' = entries
  BY DEF ProbeHit, Fitting
<1>8. FindsFirst'
  <2>1. {f \in Fitting' : \A g \in Fitting' : f <= g} = {i}
    BY <1>6, <1>7
  <2>2. QED
    BY <1>4, <1>7, <2>1 DEF FindsFirst
<1>9. PlacingPassedTaken' /\ ProbePassedMisses' /\ phase' = "answered"
  BY DEF ProbeHit, PlacingPassedTaken, ProbePassedMisses
<1>10. UNCHANGED <<entries, table, next, at>>
  BY DEF ProbeHit
<1>11. QED
  BY <1>t, <1>b, <1>8, <1>9, <1>10, TableKept DEF TableInv

LEMMA ProbeOnInv ==
  ASSUME TableInv, ProbeOn
  PROVE  TableInv'
<1>t. TableTypeOK /\ TableTypeOK'
  BY TypeStep DEF TableInv, TableNext, Steps, Probe
<1>b. Built /\ Built' /\ slot \in Slots
  BY <1>t DEF ProbeOn, Built, TableTypeOK
<1>k. UNCHANGED <<entries, table, next, at>> /\ sought' = sought
  BY DEF ProbeOn
<1>e. Capacity' = Capacity /\ Slots' = Slots
  BY <1>b, <1>k, TableKept
<1>c. Capacity \in Nat /\ Capacity > 0
  BY <1>t, <1>b, CapacityPositive DEF Built
<1>h. Home(sought.hash) \in Slots /\ Home(sought.hash)' = Home(sought.hash)
  BY <1>t, <1>b, <1>e, <1>k, HomeInSlots DEF Built, TableTypeOK, Home
<1>1. ASSUME NEW s \in Span(Home(sought.hash), slot', Capacity)
      PROVE  ~IsFree(s) /\ ~Hits(s)
  <2>1. s \in Span(Home(sought.hash), slot, Capacity) \/ s = slot
    BY <1>b, <1>c, <1>h, <1>1, SpanGrows DEF ProbeOn, NextSlot, Slots
  <2>2. QED
    BY <1>b, <2>1 DEF TableInv, ProbePassedMisses, ProbeOn
<1>2. ProbePassedMisses'
  BY <1>1, <1>e, <1>h, <1>k DEF ProbePassedMisses, IsFree, Hits
<1>3. PlacingPassedTaken' /\ FindsFirst' /\ answer' = {}
  BY DEF ProbeOn, PlacingPassedTaken, FindsFirst, TableInv
<1>4. QED
  BY <1>t, <1>b, <1>k, <1>2, <1>3, TableKept DEF TableInv

LEMMA SkipTakenInv ==
  ASSUME TableInv, SkipTaken
  PROVE  TableInv'
<1>t. TableTypeOK /\ TableTypeOK'
  BY TypeStep DEF TableInv, TableNext, Steps
<1>b. Built /\ Built' /\ slot \in Slots /\ next \in 1 .. Len(entries)
  BY <1>t DEF SkipTaken, Built, TableTypeOK
<1>k. UNCHANGED <<entries, table, next, at>>
  BY DEF SkipTaken
<1>e. Capacity' = Capacity /\ Slots' = Slots
  BY <1>b, <1>k, TableKept
<1>c. Capacity \in Nat /\ Capacity > 0
  BY <1>t, <1>b, CapacityPositive DEF Built
<1>h. Home(entries[next].hash) \in Slots
  BY <1>t, <1>b, EntryTyped, HomeInSlots DEF Built
<1>1. ASSUME NEW s \in Span(Home(entries[next].hash), slot', Capacity)
      PROVE  ~IsFree(s)
  <2>1. s \in Span(Home(entries[next].hash), slot, Capacity) \/ s = slot
    BY <1>b, <1>c, <1>h, <1>1, SpanGrows DEF SkipTaken, NextSlot, Slots
  <2>2. QED
    BY <1>b, <2>1 DEF TableInv, PlacingPassedTaken, SkipTaken
<1>2. PlacingPassedTaken'
  BY <1>1, <1>e, <1>k DEF PlacingPassedTaken, IsFree, Home
<1>3. ProbePassedMisses' /\ FindsFirst' /\ answer' = {}
  BY DEF SkipTaken, ProbePassedMisses, FindsFirst, TableInv
<1>4. QED
  BY <1>t, <1>b, <1>k, <1>2, <1>3, TableKept DEF TableInv

LEMMA FinalizeInv ==
  ASSUME TableInv, Finalize
  PROVE  TableInv'
<1>t. TableTypeOK /\ TableTypeOK'
  BY TypeStep DEF TableInv, TableNext
<1>e. UNCHANGED entries /\ Capacity' = Capacity /\ Slots' = Slots /\ next' = 1
  BY <1>t DEF Finalize, Capacity, Slots, TableTypeOK
<1>c. Capacity \in Nat /\ Capacity > 0 /\ 1 \in 1 .. Len(entries)
  BY <1>t, CapacityPositive DEF Finalize
<1>1. \A s \in Slots : table'[s].hash = Zero
  BY DEF Finalize, Free
<1>2. EveryTakenSlotHasAnEntry'
  BY <1>1, <1>e DEF EveryTakenSlotHasAnEntry, IsFree
<1>3. EntriesAreHeld' /\ NoGapBefore' /\ EarlierIsMetFirst'
  BY <1>e DEF EntriesAreHeld, NoGapBefore, EarlierIsMetFirst
<1>4. Home(entries[1].hash) \in Slots
  BY <1>t, <1>c, EntryTyped, HomeInSlots DEF Finalize
<1>5. Span(slot', slot', Capacity') = {}
  BY <1>4, <1>e, <1>c, SpanOfSlots DEF Finalize, Slots
<1>6. Stored(entries'[next'].hash).lo % Capacity' = slot'
  BY <1>e DEF Finalize, Home
<1>7. PlacingPassedTaken'
  BY <1>5, <1>6 DEF PlacingPassedTaken, Home
<1>8. ProbePassedMisses' /\ FindsFirst' /\ answer' = {}
  BY DEF Finalize, ProbePassedMisses, FindsFirst, TableInv
<1>9. QED
  BY <1>t, <1>2, <1>3, <1>7, <1>8 DEF TableInv

LEMMA FindInv ==
  ASSUME TableInv, NEW hash \in Hash, NEW fits \in SUBSET Values,
         FindEmpty(hash, fits) \/ Find(hash, fits)
  PROVE  TableInv'
<1>t. TableTypeOK /\ TableTypeOK'
  BY TypeStep DEF TableInv, TableNext
<1>1. CASE FindEmpty(hash, fits)
  <2>1. entries = <<>>
    BY <1>1, <1>t, CapacityPositive DEF FindEmpty
  <2>2. Fitting' = {}
    BY <1>1, <2>1 DEF FindEmpty, Fitting
  <2>3. answer' = {} /\ FindsFirst'
    BY <1>1, <2>2 DEF FindEmpty, FindsFirst, TableInv
  <2>4. ~Built'
    BY <1>1, <2>1 DEF FindEmpty, Built
  <2>5. QED
    BY <1>t, <2>3, <2>4 DEF TableInv
<1>2. CASE Find(hash, fits)
  <2>1. entries # <<>>
    BY <1>2 DEF Find, Capacity
  <2>2. Built /\ Built' /\ UNCHANGED <<entries, table, next, at>>
    BY <1>2, <2>1 DEF Find, Built
  <2>3. Capacity' = Capacity
    BY <2>2, TableKept
  <2>4. Home(hash) \in Slots
    BY <1>t, <2>1, HomeInSlots
  <2>5. Span(slot', slot', Capacity') = {}
    BY <1>2, <1>t, <2>1, <2>3, <2>4, CapacityPositive, SpanOfSlots DEF Find, Slots
  <2>6. Stored(sought'.hash).lo % Capacity' = slot'
    BY <1>2, <2>3 DEF Find, Home
  <2>7. ProbePassedMisses'
    BY <2>5, <2>6 DEF ProbePassedMisses, Home
  <2>8. PlacingPassedTaken' /\ FindsFirst' /\ answer' = {}
    BY <1>2 DEF Find, PlacingPassedTaken, FindsFirst, TableInv
  <2>9. QED
    BY <1>t, <2>2, <2>7, <2>8, TableKept DEF TableInv
<1>3. QED
  BY <1>1, <1>2

LEMMA InvStep ==
  ASSUME TableInv, [TableNext]_hashTable
  PROVE  TableInv'
<1>t. TableTypeOK /\ TableTypeOK'
  BY TypeStep DEF TableInv
<1>1. ASSUME NEW hash \in Hash, NEW value \in Values, Add(hash, value)
      PROVE  TableInv'
  BY <1>t, <1>1 DEF Add, tableVars, TableInv, Built, FindsFirst
<1>2. CASE FinalizeEmpty
  BY <1>t, <1>2 DEF FinalizeEmpty, TableInv, Built, FindsFirst
<1>3. CASE Return
  <2>1. UNCHANGED <<entries, table, next, at>> /\ (Built' => Built) /\ answer' = {}
    BY <1>3 DEF Return, Built
  <2>2. PlacingPassedTaken' /\ ProbePassedMisses' /\ FindsFirst'
    BY <1>3 DEF Return, PlacingPassedTaken, ProbePassedMisses, FindsFirst
  <2>3. QED
    BY <1>t, <2>1, <2>2, TableKept DEF TableInv
<1>4. CASE UNCHANGED hashTable
  <2>1. UNCHANGED <<entries, phase, table, next, slot, sought, answer, at>>
    BY <1>4 DEF hashTable, tableVars
  <2>2. FindsFirst' /\ Built' = Built
    BY <2>1 DEF TableInv, FindsFirst, Fitting, Built
  <2>3. Built => PlacingPassedTaken' /\ ProbePassedMisses'
    BY <2>1, TableKept
    DEF TableInv, PlacingPassedTaken, ProbePassedMisses, Home, IsFree, Hits
  <2>4. QED
    BY <1>t, <2>1, <2>2, <2>3, TableKept DEF TableInv
<1>5. QED
  BY <1>1, <1>2, <1>3, <1>4, FinalizeInv, SkipTakenInv, PlaceInv, FindInv,
     ProbeFreeInv, ProbeHitInv, ProbeOnInv
  DEF TableNext, Steps, Probe

THEOREM TableInvariant == TableSpec => []TableInv
<1>1. TableInit => TableInv
  BY InvInit
<1>2. TableInv /\ [TableNext]_hashTable => TableInv'
  BY InvStep
<1>3. QED
  BY <1>1, <1>2, PTL DEF TableSpec

(* Whatever hashes collide and wherever probing puts their entries, find   *)
(* returns the value of the entry added first among those that it is for.  *)
THEOREM LookupFindsFirst == TableSpec => []FindsFirst
<1>1. TableInv => FindsFirst
  BY DEF TableInv
<1>2. QED
  BY <1>1, TableInvariant, PTL

(* The entries placed never fill the table.                                *)
LEMMA RoomLeft ==
  ASSUME TableInv
  PROVE  FreeSlot
<1>1. SUFFICES ASSUME Built, \A s \in Slots : ~IsFree(s) PROVE FALSE
  BY DEF FreeSlot, Built
<1>2. Capacity \in Nat /\ Capacity > Len(entries) /\ next - 1 \in Nat /\ next - 1 < Capacity
  BY <1>1, CapacityPositive DEF TableInv, TableTypeOK, Built
<1>3. \A s \in Slots : \E i \in 1 .. next - 1 : at[i] = s
  BY <1>1 DEF TableInv, EveryTakenSlotHasAnEntry
<1> DEFINE holder == [s \in Slots |-> CHOOSE i \in 1 .. next - 1 : at[i] = s]
<1>4. holder \in [Slots -> 1 .. next - 1] /\ \A s \in Slots : at[holder[s]] = s
  BY <1>3
<1> HIDE DEF holder
<1>a. \A a, b \in Int :
          /\ IsFiniteSet(a .. b)
          /\ Cardinality(a .. b) = IF a > b THEN 0 ELSE b - a + 1
  BY FS_Interval
<1>b. Capacity - 1 \in Int /\ next - 1 \in Int /\ 0 \in Int /\ 1 \in Int
  BY <1>2
<1>5. IsFiniteSet(Slots) /\ Cardinality(Slots) = Capacity
  <2>1. /\ IsFiniteSet(0 .. Capacity - 1)
        /\ Cardinality(0 .. Capacity - 1)
              = IF 0 > Capacity - 1 THEN 0 ELSE Capacity - 1 - 0 + 1
    BY <1>a, <1>b
  <2>2. QED
    BY <2>1, <1>2 DEF Slots
<1>6. IsFiniteSet(1 .. next - 1) /\ Cardinality(1 .. next - 1) = next - 1
  <2>1. /\ IsFiniteSet(1 .. next - 1)
        /\ Cardinality(1 .. next - 1) = IF 1 > next - 1 THEN 0 ELSE next - 1 - 1 + 1
    BY <1>a, <1>b
  <2>2. QED
    BY <2>1, <1>2
<1>7. \E x, y \in Slots : x # y /\ holder[x] = holder[y]
  BY <1>2, <1>4, <1>5, <1>6, FS_PigeonHole
<1>8. QED
  BY <1>4, <1>7

(* A table of entries always has a free slot, whatever their number.       *)
THEOREM AlwaysFreeSlot == TableSpec => []FreeSlot
<1>1. TableInv => FreeSlot
  BY RoomLeft
<1>2. QED
  BY <1>1, TableInvariant, PTL

----------------------------------------------------------------------------
(* The fields over it.                                                     *)

(* A row and a bucket exist for an entry at most, and the hash of an entry *)
(* of a pairIndex is the key of its pair.                                  *)
IndexInv ==
    /\ field \in Kinds
    /\ entries \in Seq([hash : Hash, value : Values])
    /\ count \in 0 .. Len(entries)
    /\ columns \in [Columns -> Seq(Nat)]
    /\ ptr \in Seq(Nat) /\ Len(ptr) \in 1 .. Len(entries) + 1
    /\ keys \in Seq(Texts \cup Pairs) /\ Len(keys) = Len(entries)
    /\ field.kind = "pairIndex" =>
           \A i \in 1 .. Len(entries) :
               /\ keys[i] \in Pairs
               /\ entries[i].hash = PairKey(keys[i], field.layout)

----------------------------------------------------------------------------

LEMMA SuccessorInjective ==
  ASSUME NEW v \in Word, NEW w \in Word
  PROVE  /\ Successor(v) \in Word
         /\ Successor(v) = Successor(w) => v = w
BY WordSizeAssumption DEF Successor

LEMMA PairKeyTyped ==
  ASSUME NEW pair \in Pairs, NEW layout \in 1 .. 3
  PROVE  PairKey(pair, layout) \in Hash
<1>1. pair[1] \in Word /\ pair[2] \in Word
  BY PairsAssumption
<1>2. Successor(pair[1]) \in Word
  BY <1>1, SuccessorInjective
<1>3. layout = 1 \/ layout = 2 \/ layout = 3
  OBVIOUS
<1>4. QED
  BY <1>1, <1>2, <1>3, MixAssumption, XorAssumption DEF PairKey, Hash

(* In every placement the two halves of its key determine a pair: the high *)
(* one determines a, and for one a the low one determines b.               *)
LEMMA PairKeyInjective ==
  ASSUME NEW p \in Pairs, NEW q \in Pairs, NEW layout \in 1 .. 3,
         PairKey(p, layout) = PairKey(q, layout)
  PROVE  p = q
<1>1. /\ p[1] \in Word /\ p[2] \in Word /\ q[1] \in Word /\ q[2] \in Word
      /\ p = <<p[1], p[2]>> /\ q = <<q[1], q[2]>>
  BY PairsAssumption
<1> DEFINE x == Successor(p[1])
<1> DEFINE y == Successor(q[1])
<1>2. x \in Word /\ y \in Word /\ (x = y => p[1] = q[1])
  BY <1>1, SuccessorInjective
<1>3. /\ PairKey(p, layout).lo = PairKey(q, layout).lo
      /\ PairKey(p, layout).hi = PairKey(q, layout).hi
  OBVIOUS
<1> HIDE DEF x, y
<1>4. CASE layout = 1
  <2>1. x = y /\ p[2] = q[2]
    BY <1>3, <1>4 DEF PairKey, x, y
  <2>2. QED
    BY <1>1, <1>2, <2>1
<1>5. CASE layout = 2
  <2>1. Mix[x] = Mix[y] /\ Mix[p[2]] = Mix[q[2]]
    BY <1>3, <1>5 DEF PairKey, x, y
  <2>2. QED
    BY <1>1, <1>2, <2>1, MixAssumption
<1>6. CASE layout = 3
  <2>1. /\ Mix[x] = Mix[y]
        /\ Mix[XorOf(p[2], Mix[x])] = Mix[XorOf(q[2], Mix[y])]
    BY <1>3, <1>6 DEF PairKey, x, y
  <2>2. x = y
    BY <1>2, <2>1, MixAssumption
  <2>3. XorOf(p[2], Mix[x]) = XorOf(q[2], Mix[x])
    BY <1>1, <1>2, <2>1, <2>2, MixAssumption, XorAssumption
  <2>4. p[2] = q[2]
    BY <1>1, <1>2, <2>3, MixAssumption, XorAssumption
  <2>5. QED
    BY <1>1, <1>2, <2>2, <2>4
<1>7. QED
  BY <1>4, <1>5, <1>6

----------------------------------------------------------------------------

LEMMA IndexInvInit == Init => IndexInv
BY DEF Init, TableInit, IndexInv

(* What the add of a builder does to the table is an add of its client.    *)
LEMMA EnterInv ==
  ASSUME IndexInv, NEW key \in Texts \cup Pairs, NEW hash \in Hash, NEW value \in Values,
         Enter(key, hash, value),
         field.kind = "pairIndex" => key \in Pairs /\ hash = PairKey(key, field.layout)
  PROVE  /\ TableNext
         /\ field' = field
         /\ entries' \in Seq([hash : Hash, value : Values])
         /\ Len(entries') = Len(entries) + 1 /\ Len(entries) \in Nat
         /\ keys' \in Seq(Texts \cup Pairs) /\ Len(keys') = Len(entries')
         /\ field.kind = "pairIndex" =>
                \A i \in 1 .. Len(entries') :
                    /\ keys'[i] \in Pairs
                    /\ entries'[i].hash = PairKey(keys'[i], field.layout)
<1> DEFINE e == [hash |-> hash, value |-> value]
<1> DEFINE Entry == [hash : Hash, value : Values]
<1>1. entries' = Append(entries, e) /\ keys' = Append(keys, key) /\ field' = field
  BY DEF Enter, Add
<1>2. TableNext
  BY DEF Enter, TableNext
<1>3. e \in Entry /\ entries \in Seq(Entry) /\ keys \in Seq(Texts \cup Pairs)
  BY DEF IndexInv
<1>4. e.hash = hash
  OBVIOUS
<1> HIDE DEF e, Entry
<1>5. /\ entries' \in Seq(Entry) /\ Len(entries') = Len(entries) + 1
      /\ Len(entries) \in Nat
      /\ \A i \in 1 .. Len(entries) : entries'[i] = entries[i]
      /\ entries'[Len(entries) + 1] = e
  BY <1>1, <1>3
<1>6. /\ keys' \in Seq(Texts \cup Pairs) /\ Len(keys') = Len(entries')
      /\ \A i \in 1 .. Len(entries) : keys'[i] = keys[i]
      /\ keys'[Len(entries) + 1] = key
  BY <1>1, <1>3, <1>5 DEF IndexInv
<1>7. ASSUME field.kind = "pairIndex", NEW i \in 1 .. Len(entries')
      PROVE  keys'[i] \in Pairs /\ entries'[i].hash = PairKey(keys'[i], field.layout)
  <2>1. CASE i = Len(entries) + 1
    BY <1>4, <1>5, <1>6, <1>7, <2>1
  <2>2. CASE i # Len(entries) + 1
    <3>1. i \in 1 .. Len(entries)
      BY <1>5, <1>7, <2>2
    <3>2. keys'[i] = keys[i] /\ entries'[i] = entries[i]
      BY <1>5, <1>6, <3>1
    <3>3. QED
      BY <1>7, <3>1, <3>2 DEF IndexInv
  <2>3. QED
    BY <2>1, <2>2
<1>8. QED
  BY <1>1, <1>2, <1>5, <1>6, <1>7 DEF Entry

(* The next row and the next bucket are values of the table.               *)
LEMMA NextIsValue ==
  ASSUME IndexInv, Len(entries) < MaxAdds
  PROVE  count \in Values /\ Len(ptr) - 1 \in Values
<1>1. count \in 0 .. Len(entries) /\ Len(ptr) \in 1 .. Len(entries) + 1
      /\ Len(entries) \in Nat
  BY DEF IndexInv
<1>2. count \in 0 .. MaxAdds - 1 /\ Len(ptr) - 1 \in 0 .. MaxAdds - 1
  BY <1>1, MaxAddsAssumption
<1>3. QED
  BY <1>2, FailsAssumption

LEMMA ColumnGrows ==
  ASSUME IndexInv, NEW c \in Columns, NEW n \in Nat
  PROVE  columns[c] \o Pushed(n) \in Seq(Nat)
<1>1. Len(entries) + 1 \in Nat
  BY DEF IndexInv
<1>2. Pushed(n) \in Seq(Nat)
  BY <1>1 DEF Pushed
<1>3. QED
  BY <1>2 DEF IndexInv

LEMMA FirstColumnGrows ==
  ASSUME IndexInv, NEW n \in Nat, columns' = [columns EXCEPT ![1] = @ \o Pushed(n)]
  PROVE  columns' \in [Columns -> Seq(Nat)]
<1>1. 1 \in Columns
  BY DEF Columns
<1>2. columns[1] \o Pushed(n) \in Seq(Nat)
  BY <1>1, ColumnGrows
<1>3. columns \in [Columns -> Seq(Nat)]
  BY DEF IndexInv
<1>4. QED
  BY <1>1, <1>2, <1>3

(* What an add does to the table and to what belongs to it.                *)
LEMMA AddInv ==
  ASSUME IndexInv, NEW key \in Texts \cup Pairs, NEW hash \in Hash, NEW value \in Values,
         Enter(key, hash, value),
         field.kind = "pairIndex" => key \in Pairs /\ hash = PairKey(key, field.layout),
         columns' \in [Columns -> Seq(Nat)],
         ptr' \in Seq(Nat), Len(ptr') = Len(ptr) \/ Len(ptr') = Len(ptr) + 1,
         count' = count \/ count' = count + 1
  PROVE  IndexInv' /\ TableNext
<1>1. /\ TableNext
      /\ field' = field
      /\ entries' \in Seq([hash : Hash, value : Values])
      /\ Len(entries') = Len(entries) + 1 /\ Len(entries) \in Nat
      /\ keys' \in Seq(Texts \cup Pairs) /\ Len(keys') = Len(entries')
      /\ field.kind = "pairIndex" =>
             \A i \in 1 .. Len(entries') :
                 /\ keys'[i] \in Pairs
                 /\ entries'[i].hash = PairKey(keys'[i], field.layout)
  BY EnterInv
<1>2. /\ field \in Kinds /\ count \in 0 .. Len(entries)
      /\ ptr \in Seq(Nat) /\ Len(ptr) \in 1 .. Len(entries) + 1
  BY DEF IndexInv
<1>3. count' \in 0 .. Len(entries') /\ Len(ptr') \in 1 .. Len(entries') + 1
  <2>1. /\ count \in Nat /\ count <= Len(entries) /\ Len(entries) \in Nat
        /\ Len(ptr) \in Nat /\ 1 <= Len(ptr) /\ Len(ptr) <= Len(entries) + 1
    BY <1>1, <1>2
  <2>2. count' \in 0 .. Len(entries) + 1
    BY <2>1
  <2>3. Len(ptr') \in 1 .. Len(entries) + 2
    BY <2>1
  <2>4. QED
    BY <1>1, <2>1, <2>2, <2>3
<1>4. QED
  BY <1>1, <1>2, <1>3 DEF IndexInv

LEMMA IndexStep ==
  ASSUME IndexInv, [Next]_vars
  PROVE  IndexInv' /\ [TableNext]_hashTable
<1>p. field.kind = "pairIndex" => field.layout \in 1 .. 3
  BY KindsAssumption DEF IndexInv
<1>u. ASSUME UNCHANGED <<entries, field, keys, rows>>
      PROVE  IndexInv'
  BY <1>u DEF IndexInv, rows
<1>1. ASSUME NEW text \in Texts, NEW value \in Values, LookupAdd(text, value)
      PROVE  IndexInv' /\ TableNext
  <2>1. TextHash[text] \in Hash /\ field.kind # "pairIndex"
    BY <1>1, TextsAssumption DEF LookupAdd
  <2>2. /\ columns' \in [Columns -> Seq(Nat)]
        /\ ptr' \in Seq(Nat) /\ Len(ptr') = Len(ptr) /\ count' = count
    BY <1>1 DEF LookupAdd, rows, IndexInv
  <2>3. QED
    BY <1>1, <2>1, <2>2, AddInv DEF LookupAdd
<1>2. ASSUME NEW text \in Texts, NEW n \in 0 .. 2, KeyedAdd(text, n)
      PROVE  IndexInv' /\ TableNext
  <2>1. TextHash[text] \in Hash /\ field.kind # "pairIndex"
    BY <1>2, TextsAssumption DEF KeyedAdd
  <2>2. Len(ptr) - 1 \in Values /\ Enter(text, TextHash[text], Len(ptr) - 1)
    BY <1>2, NextIsValue DEF KeyedAdd, Enter, Add
  <2>3. columns' \in [Columns -> Seq(Nat)]
    <3>1. n \in Nat /\ columns' = [columns EXCEPT ![1] = @ \o Pushed(n)]
      BY <1>2 DEF KeyedAdd
    <3>2. QED
      BY <3>1, FirstColumnGrows
  <2>4. ptr' \in Seq(Nat) /\ Len(ptr') = Len(ptr) + 1
    <3>1. Len(columns'[1]) \in Nat
      BY <2>3 DEF Columns
    <3>2. QED
      BY <1>2, <3>1 DEF KeyedAdd, IndexInv
  <2>5. QED
    BY <1>2, <2>1, <2>2, <2>3, <2>4, AddInv DEF KeyedAdd
<1>3. ASSUME NEW text \in Texts, NEW n \in 0 .. 1, KeyedAddFails(text, n)
      PROVE  IndexInv' /\ TableNext
  <2>1. TextHash[text] \in Hash /\ field.kind # "pairIndex"
    BY <1>3, TextsAssumption DEF KeyedAddFails
  <2>2. Len(ptr) - 1 \in Values /\ Enter(text, TextHash[text], Len(ptr) - 1)
    BY <1>3, NextIsValue DEF KeyedAddFails, Enter, Add
  <2>3. columns' \in [Columns -> Seq(Nat)]
    <3>1. n \in Nat /\ columns' = [columns EXCEPT ![1] = @ \o Pushed(n)]
      BY <1>3 DEF KeyedAddFails
    <3>2. QED
      BY <3>1, FirstColumnGrows
  <2>4. ptr' \in Seq(Nat) /\ Len(ptr') = Len(ptr) /\ (count' = count \/ count' = count + 1)
    BY <1>3 DEF KeyedAddFails, IndexInv
  <2>5. QED
    BY <1>3, <2>1, <2>2, <2>3, <2>4, AddInv DEF KeyedAddFails
<1>4. ASSUME NEW pair \in Pairs, PairAdd(pair)
      PROVE  IndexInv' /\ TableNext
  <2>1. PairKey(pair, field.layout) \in Hash
    BY <1>4, <1>p, PairKeyTyped DEF PairAdd
  <2>2. count \in Values /\ Enter(pair, PairKey(pair, field.layout), count)
    BY <1>4, NextIsValue DEF PairAdd, Enter, Add
  <2>3. columns' \in [Columns -> Seq(Nat)]
    BY <1>4, ColumnGrows DEF PairAdd
  <2>4. ptr' \in Seq(Nat) /\ Len(ptr') = Len(ptr) /\ (count' = count \/ count' = count + 1)
    BY <1>4 DEF PairAdd, IndexInv
  <2>5. QED
    BY <1>4, <2>1, <2>2, <2>3, <2>4, AddInv DEF PairAdd
<1>5. ASSUME NEW pair \in Pairs, NEW column \in Columns, PairAddFails(pair, column)
      PROVE  IndexInv' /\ TableNext
  <2>1. PairKey(pair, field.layout) \in Hash
    BY <1>5, <1>p, PairKeyTyped DEF PairAddFails
  <2>2. count \in Values /\ Enter(pair, PairKey(pair, field.layout), count)
    BY <1>5, NextIsValue DEF PairAddFails, Enter, Add
  <2>3. columns' \in [Columns -> Seq(Nat)]
    BY <1>5, ColumnGrows DEF PairAddFails
  <2>4. ptr' \in Seq(Nat) /\ Len(ptr') = Len(ptr) /\ (count' = count \/ count' = count + 1)
    BY <1>5 DEF PairAddFails, IndexInv
  <2>5. QED
    BY <1>5, <2>1, <2>2, <2>3, <2>4, AddInv DEF PairAddFails
<1>6. CASE Build
  BY <1>6, <1>u DEF Build, FinalizeEmpty, Finalize, TableNext
<1>7. ASSUME NEW key, NEW hash \in Hash, NEW fits \in SUBSET Values, Ask(key, hash, fits)
      PROVE  IndexInv' /\ TableNext
  BY <1>7, <1>u DEF Ask, FindEmpty, Find, TableNext
<1>8. ASSUME NEW text \in Texts, LookupFind(text) \/ KeyedFind(text)
      PROVE  IndexInv' /\ TableNext
  <2>1. TextHash[text] \in Hash
    BY TextsAssumption
  <2>2. (IF field.verified THEN {v \in Values : NameOf[v] = text} ELSE Values)
            \in SUBSET Values
    OBVIOUS
  <2>3. QED
    BY <1>7, <1>8, <2>1, <2>2 DEF LookupFind, KeyedFind
<1>9. ASSUME NEW pair \in Pairs, PairFind(pair)
      PROVE  IndexInv' /\ TableNext
  BY <1>7, <1>9, <1>p, PairKeyTyped DEF PairFind
<1>10. CASE Run
  BY <1>10, <1>u
  DEF Run, Steps, Probe, SkipTaken, Place, ProbeFree, ProbeHit, ProbeOn, TableNext
<1>11. CASE Take
  BY <1>11, <1>u DEF Take, Return, TableNext
<1>12. CASE UNCHANGED vars
  BY <1>12, <1>u DEF vars, hashTable, rows
<1>13. QED
  BY <1>1, <1>2, <1>3, <1>4, <1>5, <1>6, <1>8, <1>9, <1>10, <1>11, <1>12 DEF Next

----------------------------------------------------------------------------

(* Whatever a field's builder and reader do, add that throws included, the *)
(* table sees what any client may do.                                      *)
THEOREM IndexIsClient == Spec => TableSpec
<1>1. Init => TableInit
  BY DEF Init
<1>2. QED
  BY <1>1, IndexInvInit, IndexStep, PTL DEF Spec, TableSpec

(* So every lookup by text or by pair finds the first entry of its hash    *)
(* that its matcher accepts, and always has a free slot to stop at.        *)
THEOREM IndexFindsFirst == Spec => [](FindsFirst /\ FreeSlot)
BY IndexIsClient, LookupFindsFirst, AlwaysFreeSlot, PTL

(* Different pairs have different keys, in every placement and for any     *)
(* mixing that is a permutation.                                           *)
THEOREM PairsDistinct == Spec => []PairsStayDistinct
<1>1. IndexInv => PairsStayDistinct
  <2>1. SUFFICES ASSUME IndexInv, field.kind = "pairIndex",
                        NEW i \in DOMAIN entries, NEW j \in DOMAIN entries,
                        entries[i].hash = entries[j].hash
                 PROVE  keys[i] = keys[j]
    BY DEF PairsStayDistinct
  <2>2. DOMAIN entries = 1 .. Len(entries)
    BY <2>1 DEF IndexInv
  <2>3. field.layout \in 1 .. 3
    BY <2>1, KindsAssumption DEF IndexInv
  <2>4. QED
    BY <2>1, <2>2, <2>3, PairKeyInjective DEF IndexInv
<1>2. QED
  BY <1>1, IndexInvInit, IndexStep, PTL DEF Spec

----------------------------------------------------------------------------
(* What lookups return.  The invariant: the hash of an entry is that of    *)
(* its key, a lookup is for the key that was asked for, and of each entry  *)
(* before the first whose add threw the row or the bucket is its own.      *)

\* The hashes of a hashLookup are those of its texts, and so is the one
\* that is sought.
LookupHolds ==
    field.kind = "hashLookup" =>
        /\ \A i \in 1 .. Len(entries) :
               keys[i] \in Texts /\ entries[i].hash = TextHash[keys[i]]
        /\ phase \in {"probing", "answered"} =>
               /\ asked \in Texts /\ sought.hash = TextHash[asked]
               /\ field.verified => sought.fits = {v \in Values : NameOf[v] = asked}

BeforeFailed(i) == \A f \in failed : i < f

Pushes ==
    /\ failed \subseteq 1 .. Len(entries)
    /\ \A c \in Columns : \A p \in 1 .. Len(columns[c]) : columns[c][p] \in 1 .. Len(entries)

RowsHold ==
    field.kind = "pairIndex" =>
        /\ failed = {} =>
               count = Len(entries) /\ \A c \in Columns : Len(columns[c]) = Len(entries)
        /\ \A i \in 1 .. Len(entries) : BeforeFailed(i) =>
               /\ entries[i].value + 1 = i
               /\ \A c \in Columns : i <= Len(columns[c]) /\ columns[c][i] = i

\* The bucket of an entry holds the values pushed for it.
Bucket(i) ==
    /\ entries[i].value + 1 = i
    /\ i + 1 <= Len(ptr)
    /\ ptr[i] <= ptr[i + 1] /\ ptr[i + 1] <= Len(columns[1])
    /\ \A p \in 1 .. Len(columns[1]) :
           columns[1][p] = i <=> ptr[i] < p /\ p <= ptr[i + 1]

BucketsHold ==
    field.kind = "keyedIndex" =>
        /\ failed = {} =>
               Len(ptr) = Len(entries) + 1 /\ ptr[Len(entries) + 1] = Len(columns[1])
        /\ \A i \in 1 .. Len(entries) : BeforeFailed(i) => Bucket(i)

RowInv == LookupHolds /\ Pushes /\ RowsHold /\ BucketsHold

\* An add pushed n values to a column.
Appended(c, n) ==
    /\ Len(columns'[c]) = Len(columns[c]) + n
    /\ \A p \in 1 .. Len(columns[c]) : columns'[c][p] = columns[c][p]
    /\ \A p \in 1 .. Len(columns'[c]) :
           p \notin 1 .. Len(columns[c]) => columns'[c][p] = Len(entries) + 1

LEMMA ColumnTyped ==
  ASSUME IndexInv, NEW c \in Columns
  PROVE  /\ columns[c] \in Seq(Nat) /\ Len(columns[c]) \in Nat
         /\ \A p \in 1 .. Len(columns[c]) : columns[c][p] \in Nat
         /\ Len(entries) \in Nat /\ Len(entries) + 1 \in Nat
BY DEF IndexInv

LEMMA ConcatFacts ==
  ASSUME NEW S, NEW a \in Seq(S), NEW b \in Seq(S)
  PROVE  /\ Len(a \o b) = Len(a) + Len(b)
         /\ \A p \in 1 .. Len(a) : (a \o b)[p] = a[p]
         /\ \A p \in 1 .. Len(b) : (a \o b)[Len(a) + p] = b[p]
OBVIOUS

LEMMA AppendFacts ==
  ASSUME NEW S, NEW a \in Seq(S), NEW x \in S
  PROVE  /\ Append(a, x) \in Seq(S) /\ Len(Append(a, x)) = Len(a) + 1 /\ Len(a) \in Nat
         /\ \A p \in 1 .. Len(a) : Append(a, x)[p] = a[p]
         /\ Append(a, x)[Len(a) + 1] = x
OBVIOUS

LEMMA PushAppends ==
  ASSUME IndexInv, NEW c \in Columns, NEW n \in Nat, columns'[c] = columns[c] \o Pushed(n)
  PROVE  Appended(c, n)
<1>1. columns[c] \in Seq(Nat) /\ Len(columns[c]) \in Nat /\ Len(entries) + 1 \in Nat
  BY ColumnTyped
<1>2. PICK s, k : s = Pushed(n) /\ k = Len(entries) + 1
  OBVIOUS
<1>3. s \in Seq(Nat) /\ Len(s) = n /\ \A p \in 1 .. n : s[p] = k
  BY <1>1, <1>2 DEF Pushed
<1>4. columns'[c] = columns[c] \o s
  BY <1>2
<1>5. /\ Len(columns'[c]) = Len(columns[c]) + n
      /\ \A p \in 1 .. Len(columns[c]) : columns'[c][p] = columns[c][p]
      /\ \A p \in 1 .. n : columns'[c][Len(columns[c]) + p] = s[p]
  <2>1. PICK a : a = columns[c]
    OBVIOUS
  <2>2. a \in Seq(Nat) /\ s \in Seq(Nat) /\ columns'[c] = a \o s /\ Len(s) = n
    BY <2>1, <1>1, <1>3, <1>4
  <2>3. /\ Len(a \o s) = Len(a) + Len(s)
        /\ \A p \in 1 .. Len(a) : (a \o s)[p] = a[p]
        /\ \A p \in 1 .. Len(s) : (a \o s)[Len(a) + p] = s[p]
    <3>1. a \in Seq(Nat) /\ s \in Seq(Nat)
      BY <2>2
    <3>2. QED
      BY <3>1
  <2>4. QED
    BY <2>1, <2>2, <2>3
<1>6. ASSUME NEW p \in 1 .. Len(columns'[c]), p \notin 1 .. Len(columns[c])
      PROVE  columns'[c][p] = k
  <2>1. PICK q \in 1 .. n : p = Len(columns[c]) + q
    <3>1. p - Len(columns[c]) \in 1 .. n /\ p = Len(columns[c]) + (p - Len(columns[c]))
      BY <1>1, <1>5, <1>6
    <3>2. QED
      BY <3>1
  <2>2. QED
    BY <2>1, <1>3, <1>5
<1>7. QED
  BY <1>2, <1>5, <1>6 DEF Appended

LEMMA NothingAppends ==
  ASSUME IndexInv, NEW c \in Columns, columns'[c] = columns[c]
  PROVE  Appended(c, 0)
BY ColumnTyped DEF Appended

(* What an add leaves of the entries, the columns and the buckets.         *)
LEMMA AddGrows ==
  ASSUME IndexInv, Pushes, NEW k, k = Len(entries) + 1,
         NEW e \in [hash : Hash, value : Values], entries' = Append(entries, e),
         \A c \in Columns : \E n \in Nat : Appended(c, n),
         ptr' = ptr \/ \E x \in Nat : ptr' = Append(ptr, x),
         failed' = failed \/ failed' = failed \cup {Len(entries) + 1}
  PROVE  /\ Pushes'
         /\ Len(entries) \in Nat /\ Len(entries') = Len(entries) + 1
         /\ k \in Nat /\ entries'[k] = e
         /\ \A i \in 1 .. Len(entries) : entries'[i] = entries[i]
         /\ \A i \in 1 .. Len(entries) : BeforeFailed(i)' => BeforeFailed(i)
         /\ BeforeFailed(k)' => failed = {} /\ failed' = {}
         /\ \A i \in 1 .. Len(entries) : Bucket(i) => Bucket(i)'
<1>1. Len(entries) \in Nat /\ entries \in Seq([hash : Hash, value : Values])
  BY DEF IndexInv
<1>2. /\ Len(entries') = Len(entries) + 1 /\ entries'[k] = e
      /\ \A i \in 1 .. Len(entries) : entries'[i] = entries[i]
  <2>1. PICK E : E = [hash : Hash, value : Values]
    OBVIOUS
  <2>2. entries \in Seq(E) /\ e \in E
    BY <2>1, <1>1
  <2>3. /\ Len(Append(entries, e)) = Len(entries) + 1
        /\ \A i \in 1 .. Len(entries) : Append(entries, e)[i] = entries[i]
        /\ Append(entries, e)[Len(entries) + 1] = e
    BY <2>2, AppendFacts
  <2>4. QED
    BY <2>3
<1>3. failed \subseteq 1 .. Len(entries) /\ failed \subseteq failed'
      /\ failed' \subseteq 1 .. Len(entries')
  <2>1. failed \subseteq 1 .. Len(entries) /\ failed' \subseteq failed \cup {k}
    BY DEF Pushes
  <2>2. 1 .. Len(entries) \subseteq 1 .. Len(entries') /\ k \in 1 .. Len(entries')
    BY <1>1, <1>2
  <2>3. QED
    BY <2>1, <2>2
<1>4. ASSUME NEW c \in Columns, NEW p \in 1 .. Len(columns'[c])
      PROVE  columns'[c][p] \in 1 .. Len(entries')
  <2>1. PICK n \in Nat : Appended(c, n)
    BY <1>4
  <2>2. Len(entries) + 1 \in 1 .. Len(entries')
    BY <1>1, <1>2
  <2>3. CASE p \in 1 .. Len(columns[c])
    <3>1. columns'[c][p] = columns[c][p] /\ columns[c][p] \in 1 .. Len(entries)
      BY <2>1, <2>3 DEF Appended, Pushes
    <3>2. QED
      BY <3>1, <1>1, <1>2
  <2>4. CASE p \notin 1 .. Len(columns[c])
    BY <2>1, <2>2, <2>4, <1>4 DEF Appended
  <2>5. QED
    BY <2>3, <2>4
<1>5. Pushes'
  BY <1>3, <1>4 DEF Pushes
<1>6. \A i \in 1 .. Len(entries) : BeforeFailed(i)' => BeforeFailed(i)
  BY <1>3 DEF BeforeFailed
<1>7. BeforeFailed(k)' => failed = {} /\ failed' = {}
  <2>1. SUFFICES ASSUME BeforeFailed(k)', NEW f \in failed'
                 PROVE  FALSE
    BY <1>3
  <2>2. k < f
    BY <2>1 DEF BeforeFailed
  <2>3. f \in 1 .. Len(entries) + 1
    BY <2>1, <1>2, <1>3
  <2>4. QED
    BY <2>2, <2>3, <1>1
<1>8. ASSUME NEW i \in 1 .. Len(entries), Bucket(i) PROVE Bucket(i)'
  <2>1. PICK n \in Nat : Appended(1, n)
    BY DEF Columns
  <2>2. Len(columns[1]) \in Nat /\ ptr \in Seq(Nat) /\ Len(ptr) \in Nat /\ i \in Nat
    BY ColumnTyped, <1>1 DEF Columns, IndexInv
  <2>3. /\ entries[i].value + 1 = i /\ i + 1 <= Len(ptr)
        /\ ptr[i] <= ptr[i + 1] /\ ptr[i + 1] <= Len(columns[1])
        /\ \A p \in 1 .. Len(columns[1]) :
               columns[1][p] = i <=> ptr[i] < p /\ p <= ptr[i + 1]
    BY <1>8 DEF Bucket
  <2>4. i \in 1 .. Len(ptr) /\ i + 1 \in 1 .. Len(ptr)
    BY <2>2, <2>3, <1>8
  <2>5. ptr'[i] = ptr[i] /\ ptr'[i + 1] = ptr[i + 1] /\ i + 1 <= Len(ptr')
    <3>1. CASE ptr' = ptr
      BY <3>1, <2>3
    <3>2. ASSUME NEW x \in Nat, ptr' = Append(ptr, x)
          PROVE  ptr'[i] = ptr[i] /\ ptr'[i + 1] = ptr[i + 1] /\ i + 1 <= Len(ptr')
      BY <3>2, <2>2, <2>3, <2>4
    <3>3. QED
      BY <3>1, <3>2
  <2>6. ptr[i] \in Nat /\ ptr[i + 1] \in Nat
    <3>1. \A j \in 1 .. Len(ptr) : ptr[j] \in Nat
      BY <2>2
    <3>2. QED
      BY <3>1, <2>4
  <2>7. Len(columns'[1]) = Len(columns[1]) + n
    BY <2>1 DEF Appended
  <2>8. ASSUME NEW p \in 1 .. Len(columns'[1])
        PROVE  columns'[1][p] = i <=> ptr[i] < p /\ p <= ptr[i + 1]
    <3>1. CASE p \in 1 .. Len(columns[1])
      BY <3>1, <2>1, <2>3 DEF Appended
    <3>2. CASE p \notin 1 .. Len(columns[1])
      <4>1. columns'[1][p] = Len(entries) + 1
        BY <3>2, <2>1, <2>8 DEF Appended
      <4>2. columns'[1][p] # i
        BY <4>1, <1>1, <1>8
      <4>3. p \in Nat /\ Len(columns[1]) < p
        <5>1. Len(columns'[1]) \in Nat
          BY <2>2, <2>7
        <5>2. p \in Nat /\ 1 <= p
          BY <5>1, <2>8
        <5>3. QED
          BY <5>2, <3>2, <2>2
      <4>4. ~(p <= ptr[i + 1])
        <5>1. ptr[i + 1] \in Nat /\ ptr[i + 1] <= Len(columns[1]) /\ Len(columns[1]) \in Nat
          BY <2>2, <2>3, <2>6
        <5>2. QED
          BY <5>1, <4>3
      <4>5. QED
        BY <4>2, <4>4
    <3>3. QED
      BY <3>1, <3>2
  <2>9. entries'[i] = entries[i] /\ ptr[i + 1] <= Len(columns'[1])
    <3>1. ptr[i + 1] <= Len(columns[1]) + n
      <4>1. ptr[i + 1] \in Nat /\ ptr[i + 1] <= Len(columns[1]) /\ Len(columns[1]) \in Nat
        BY <2>2, <2>3, <2>6
      <4>2. QED
        BY <4>1
    <3>2. QED
      BY <1>2, <1>8, <2>7, <3>1
  <2>10. QED
    BY <2>3, <2>5, <2>8, <2>9 DEF Bucket
<1>9. QED
  BY <1>1, <1>2, <1>5, <1>6, <1>7, <1>8

LEMMA RowInvInit == Init => RowInv
<1> SUFFICES ASSUME Init PROVE RowInv
  OBVIOUS
<1>1. /\ entries = <<>> /\ phase = "adding" /\ failed = {} /\ count = 0 /\ ptr = <<0>>
      /\ \A c \in Columns : columns[c] = <<>>
  BY DEF Init, TableInit
<1>2. Len(entries) = 0 /\ 1 .. Len(entries) = {} /\ \A c \in Columns : Len(columns[c]) = 0
  BY <1>1
<1>3. LookupHolds /\ RowsHold
  BY <1>1, <1>2 DEF LookupHolds, RowsHold
<1>4. Pushes
  BY <1>1, <1>2 DEF Pushes
<1>5. BucketsHold
  <2>1. Len(columns[1]) = 0 /\ Len(ptr) = 1 /\ ptr[1] = 0
    BY <1>1, <1>2 DEF Columns
  <2>2. QED
    BY <1>2, <2>1 DEF BucketsHold
<1>6. QED
  BY <1>3, <1>4, <1>5 DEF RowInv

LEMMA LookupAddKeeps ==
  ASSUME IndexInv, RowInv, NEW text \in Texts, NEW value \in Values, LookupAdd(text, value)
  PROVE  RowInv'
<1> DEFINE e == [hash |-> TextHash[text], value |-> value]
<1>1. /\ field.kind = "hashLookup" /\ field' = field /\ phase' = "adding"
      /\ entries' = Append(entries, e) /\ keys' = Append(keys, text)
      /\ UNCHANGED <<columns, ptr, count, failed>>
  BY DEF LookupAdd, Enter, Add, tableVars, rows
<1>2. e \in [hash : Hash, value : Values] /\ e.hash = TextHash[text]
  BY TextsAssumption
<1> HIDE DEF e
<1>3. PICK k : k = Len(entries) + 1
  OBVIOUS
<1>4. \A c \in Columns : Appended(c, 0)
  BY <1>1, NothingAppends
<1>5. /\ Pushes'
      /\ Len(entries) \in Nat /\ Len(entries') = Len(entries) + 1
      /\ k \in Nat /\ entries'[k] = e
      /\ \A i \in 1 .. Len(entries) : entries'[i] = entries[i]
  BY <1>1, <1>2, <1>3, <1>4, AddGrows DEF RowInv
<1>6. keys \in Seq(Texts \cup Pairs) /\ Len(keys) = Len(entries)
  BY DEF IndexInv
<1>7. keys'[k] = text /\ \A i \in 1 .. Len(entries) : keys'[i] = keys[i]
  BY <1>1, <1>3, <1>6
<1>8. ASSUME NEW i \in 1 .. Len(entries')
      PROVE  keys'[i] \in Texts /\ entries'[i].hash = TextHash[keys'[i]]
  <2>1. CASE i = k
    BY <2>1, <1>2, <1>5, <1>7
  <2>2. CASE i # k
    <3>1. i \in 1 .. Len(entries)
      BY <2>2, <1>3, <1>5, <1>8
    <3>2. QED
      BY <3>1, <1>1, <1>5, <1>7 DEF RowInv, LookupHolds
  <2>3. QED
    BY <2>1, <2>2
<1>9. LookupHolds' /\ RowsHold' /\ BucketsHold'
  BY <1>1, <1>8 DEF LookupHolds, RowsHold, BucketsHold
<1>10. QED
  BY <1>5, <1>9 DEF RowInv

LEMMA KeyedAddKeeps ==
  ASSUME IndexInv, RowInv, NEW text \in Texts, NEW n \in Nat,
         KeyedAdd(text, n) \/ KeyedAddFails(text, n)
  PROVE  RowInv'
<1> DEFINE e == [hash |-> TextHash[text], value |-> Len(ptr) - 1]
<1>1. /\ field.kind = "keyedIndex" /\ field' = field
      /\ entries' = Append(entries, e) /\ Len(entries) < MaxAdds
      /\ columns' = [columns EXCEPT ![1] = @ \o Pushed(n)]
  BY DEF KeyedAdd, KeyedAddFails, Enter, Add
<1>2. e \in [hash : Hash, value : Values] /\ e.value = Len(ptr) - 1
  BY <1>1, TextsAssumption, NextIsValue
<1> HIDE DEF e
<1>3. PICK k : k = Len(entries) + 1
  OBVIOUS
<1>4. columns \in [Columns -> Seq(Nat)] /\ 1 \in Columns
  BY DEF IndexInv, Columns
<1>5. Appended(1, n) /\ \A c \in Columns : \E m \in Nat : Appended(c, m)
  <2>1. Appended(1, n)
    BY <1>1, <1>4, PushAppends
  <2>2. ASSUME NEW c \in Columns, c # 1 PROVE Appended(c, 0)
    BY <2>2, <1>1, <1>4, NothingAppends
  <2>3. QED
    BY <2>1, <2>2
<1>6. ptr \in Seq(Nat) /\ Len(ptr) \in Nat /\ Len(columns[1]) \in Nat
  BY <1>4, ColumnTyped DEF IndexInv
<1>7. Len(columns'[1]) = Len(columns[1]) + n /\ Len(columns'[1]) \in Nat
  BY <1>5, <1>6 DEF Appended
<1>8. \/ failed' = failed /\ ptr' = Append(ptr, Len(columns'[1]))
      \/ failed' = failed \cup {k} /\ ptr' = ptr
  BY <1>3 DEF KeyedAdd, KeyedAddFails, Throws
<1>9. /\ Pushes'
      /\ Len(entries) \in Nat /\ Len(entries') = Len(entries) + 1
      /\ k \in Nat /\ entries'[k] = e
      /\ \A i \in 1 .. Len(entries) : BeforeFailed(i)' => BeforeFailed(i)
      /\ BeforeFailed(k)' => failed = {} /\ failed' = {}
      /\ \A i \in 1 .. Len(entries) : Bucket(i) => Bucket(i)'
  <2>1. ptr' = ptr \/ \E x \in Nat : ptr' = Append(ptr, x)
    BY <1>7, <1>8
  <2>2. failed' = failed \/ failed' = failed \cup {Len(entries) + 1}
    BY <1>3, <1>8
  <2>3. QED
    BY <1>1, <1>2, <1>3, <1>5, <2>1, <2>2, AddGrows DEF RowInv
<1>10. ASSUME failed' = {}
       PROVE  /\ Len(ptr') = Len(entries') + 1 /\ ptr'[Len(entries') + 1] = Len(columns'[1])
              /\ Bucket(k)'
  <2>1. failed = {} /\ ptr' = Append(ptr, Len(columns'[1]))
    BY <1>8, <1>10
  <2>2. Len(ptr) = k /\ ptr[k] = Len(columns[1])
    BY <2>1, <1>1, <1>3 DEF RowInv, BucketsHold
  <2>3. /\ Len(ptr') = k + 1 /\ ptr'[k + 1] = Len(columns'[1])
        /\ ptr'[k] = Len(columns[1])
    <3>1. k \in 1 .. Len(ptr)
      BY <2>2, <1>3, <1>9
    <3>2. QED
      BY <3>1, <2>1, <2>2, <1>6, <1>7
  <2>4. entries'[k].value + 1 = k
    BY <2>2, <1>2, <1>9
  <2>5. ASSUME NEW p \in 1 .. Len(columns'[1])
        PROVE  columns'[1][p] = k <=> Len(columns[1]) < p /\ p <= Len(columns'[1])
    <3>1. CASE p \in 1 .. Len(columns[1])
      <4>1. columns'[1][p] = columns[1][p] /\ columns[1][p] \in 1 .. Len(entries)
        BY <3>1, <1>4, <1>5 DEF Appended, RowInv, Pushes
      <4>2. QED
        BY <4>1, <3>1, <1>3, <1>6, <1>9
    <3>2. CASE p \notin 1 .. Len(columns[1])
      <4>1. columns'[1][p] = k
        BY <3>2, <2>5, <1>3, <1>5 DEF Appended
      <4>2. Len(columns[1]) < p /\ p <= Len(columns'[1])
        BY <3>2, <2>5, <1>6, <1>7
      <4>3. QED
        BY <4>1, <4>2
    <3>3. QED
      BY <3>1, <3>2
  <2>6. Len(columns[1]) <= Len(columns'[1])
    BY <1>6, <1>7
  <2>7. Bucket(k)'
    BY <2>3, <2>4, <2>5, <2>6, <1>7, <1>9 DEF Bucket
  <2>8. QED
    BY <2>3, <2>7, <1>3, <1>9
<1>11. ASSUME NEW i \in 1 .. Len(entries'), BeforeFailed(i)' PROVE Bucket(i)'
  <2>1. CASE i = k
    BY <2>1, <1>9, <1>10, <1>11
  <2>2. CASE i # k
    <3>1. i \in 1 .. Len(entries)
      BY <2>2, <1>3, <1>9, <1>11
    <3>2. BeforeFailed(i)
      BY <3>1, <1>9, <1>11
    <3>3. Bucket(i)
      BY <3>1, <3>2, <1>1 DEF RowInv, BucketsHold
    <3>4. QED
      BY <3>1, <3>3, <1>9
  <2>3. QED
    BY <2>1, <2>2
<1>12. LookupHolds' /\ RowsHold' /\ BucketsHold'
  BY <1>1, <1>10, <1>11 DEF LookupHolds, RowsHold, BucketsHold
<1>13. QED
  BY <1>9, <1>12 DEF RowInv

LEMMA PairAddKeeps ==
  ASSUME IndexInv, RowInv, NEW pair \in Pairs,
         PairAdd(pair) \/ \E column \in Columns : PairAddFails(pair, column)
  PROVE  RowInv'
<1> DEFINE e == [hash |-> PairKey(pair, field.layout), value |-> count]
<1>1. /\ field.kind = "pairIndex" /\ field' = field /\ ptr' = ptr
      /\ entries' = Append(entries, e) /\ Len(entries) < MaxAdds
  BY DEF PairAdd, PairAddFails, Enter, Add
<1>2. e \in [hash : Hash, value : Values] /\ e.value = count
  <2>1. field.layout \in 1 .. 3
    BY <1>1, KindsAssumption DEF IndexInv
  <2>2. QED
    BY <1>1, <2>1, PairKeyTyped, NextIsValue
<1> HIDE DEF e
<1>3. PICK k : k = Len(entries) + 1
  OBVIOUS
<1>4. \/ /\ failed' = failed /\ count' = count + 1
         /\ \A c \in Columns : columns'[c] = columns[c] \o Pushed(1)
      \/ /\ failed' = failed \cup {k}
         /\ \A c \in Columns : \E m \in Nat : columns'[c] = columns[c] \o Pushed(m)
  <2>1. CASE PairAdd(pair)
    BY <2>1 DEF PairAdd
  <2>2. ASSUME NEW column \in Columns, PairAddFails(pair, column)
        PROVE  /\ failed' = failed \cup {k}
               /\ \A c \in Columns : \E m \in Nat : columns'[c] = columns[c] \o Pushed(m)
    <3>1. /\ failed' = failed \cup {k}
          /\ columns' = [c \in Columns |-> columns[c] \o Pushed(IF c < column THEN 1 ELSE 0)]
      BY <2>2, <1>3 DEF PairAddFails, Throws
    <3>2. QED
      BY <3>1
  <2>3. QED
    BY <2>1, <2>2
<1>5. \A c \in Columns : \E m \in Nat : Appended(c, m)
  <2>1. SUFFICES ASSUME NEW c \in Columns PROVE \E m \in Nat : Appended(c, m)
    OBVIOUS
  <2>2. PICK m \in Nat : columns'[c] = columns[c] \o Pushed(m)
    BY <1>4
  <2>3. QED
    BY <2>2, PushAppends
<1>6. /\ Pushes'
      /\ Len(entries) \in Nat /\ Len(entries') = Len(entries) + 1
      /\ k \in Nat /\ entries'[k] = e
      /\ \A i \in 1 .. Len(entries) : entries'[i] = entries[i]
      /\ \A i \in 1 .. Len(entries) : BeforeFailed(i)' => BeforeFailed(i)
      /\ BeforeFailed(k)' => failed = {} /\ failed' = {}
  <2>1. failed' = failed \/ failed' = failed \cup {Len(entries) + 1}
    BY <1>3, <1>4
  <2>2. QED
    BY <1>1, <1>2, <1>3, <1>5, <2>1, AddGrows DEF RowInv
<1>7. ASSUME failed' = {}
      PROVE  /\ count' = Len(entries') /\ \A c \in Columns : Len(columns'[c]) = Len(entries')
             /\ e.value + 1 = k
             /\ \A c \in Columns : k <= Len(columns'[c]) /\ columns'[c][k] = k
  <2>1. /\ failed = {} /\ count' = count + 1
        /\ \A c \in Columns : columns'[c] = columns[c] \o Pushed(1)
    BY <1>4, <1>7
  <2>2. count = Len(entries) /\ \A c \in Columns : Len(columns[c]) = Len(entries)
    BY <2>1, <1>1 DEF RowInv, RowsHold
  <2>3. ASSUME NEW c \in Columns
        PROVE  Len(columns'[c]) = k /\ columns'[c][k] = k
    <3>1. Appended(c, 1)
      BY <2>1, <2>3, PushAppends
    <3>2. Len(columns'[c]) = k
      BY <3>1, <2>2, <1>3 DEF Appended
    <3>3. k \in 1 .. Len(columns'[c]) /\ k \notin 1 .. Len(columns[c])
      BY <3>2, <2>2, <1>3, <1>6
    <3>4. QED
      BY <3>1, <3>2, <3>3, <1>3 DEF Appended
  <2>4. QED
    BY <2>1, <2>2, <2>3, <1>2, <1>3, <1>6
<1>8. ASSUME NEW i \in 1 .. Len(entries'), BeforeFailed(i)'
      PROVE  /\ entries'[i].value + 1 = i
             /\ \A c \in Columns : i <= Len(columns'[c]) /\ columns'[c][i] = i
  <2>1. CASE i = k
    BY <2>1, <1>6, <1>7, <1>8
  <2>2. CASE i # k
    <3>1. i \in 1 .. Len(entries) /\ BeforeFailed(i)
      BY <2>2, <1>3, <1>6, <1>8
    <3>2. /\ entries[i].value + 1 = i
          /\ \A c \in Columns : i <= Len(columns[c]) /\ columns[c][i] = i
      BY <3>1, <1>1 DEF RowInv, RowsHold
    <3>3. ASSUME NEW c \in Columns PROVE i <= Len(columns'[c]) /\ columns'[c][i] = i
      <4>1. PICK m \in Nat : Appended(c, m)
        BY <1>5
      <4>2. Len(columns[c]) \in Nat /\ i \in 1 .. Len(columns[c])
        BY <3>1, <3>2, ColumnTyped
      <4>3. QED
        BY <4>1, <4>2, <3>2 DEF Appended
    <3>4. QED
      BY <3>1, <3>2, <3>3, <1>6
  <2>3. QED
    BY <2>1, <2>2
<1>9. LookupHolds' /\ RowsHold' /\ BucketsHold'
  BY <1>1, <1>7, <1>8 DEF LookupHolds, RowsHold, BucketsHold
<1>10. QED
  BY <1>6, <1>9 DEF RowInv

(* Where nothing is added only the lookup that runs can change.            *)
LEMMA NoAddKeeps ==
  ASSUME RowInv, UNCHANGED <<entries, field, keys, rows>>,
         field.kind = "hashLookup" /\ phase' \in {"probing", "answered"} =>
             /\ asked' \in Texts /\ sought'.hash = TextHash[asked']
             /\ field.verified => sought'.fits = {v \in Values : NameOf[v] = asked'}
  PROVE  RowInv'
<1>1. UNCHANGED <<entries, field, keys, columns, ptr, count, failed>>
  BY DEF rows
<1>2. Pushes'
  BY <1>1 DEF RowInv, Pushes
<1>3. RowsHold'
  BY <1>1 DEF RowInv, RowsHold, BeforeFailed
<1>4. BucketsHold'
  BY <1>1 DEF RowInv, BucketsHold, BeforeFailed, Bucket
<1>5. LookupHolds'
  BY <1>1 DEF RowInv, LookupHolds
<1>6. QED
  BY <1>2, <1>3, <1>4, <1>5 DEF RowInv

LEMMA RowStep ==
  ASSUME IndexInv, RowInv, [Next]_vars
  PROVE  RowInv'
<1>1. ASSUME NEW text \in Texts, NEW value \in Values, LookupAdd(text, value) PROVE RowInv'
  BY <1>1, LookupAddKeeps
<1>2. ASSUME NEW text \in Texts, NEW n \in Nat, KeyedAdd(text, n) \/ KeyedAddFails(text, n)
      PROVE  RowInv'
  BY <1>2, KeyedAddKeeps
<1>3. ASSUME NEW pair \in Pairs,
             PairAdd(pair) \/ \E column \in Columns : PairAddFails(pair, column)
      PROVE  RowInv'
  BY <1>3, PairAddKeeps
<1>4. CASE Build
  BY <1>4, NoAddKeeps DEF Build, FinalizeEmpty, Finalize
<1>5. ASSUME NEW text \in Texts, LookupFind(text) PROVE RowInv'
  <2>1. /\ asked' = text /\ sought'.hash = TextHash[text]
        /\ field.verified => sought'.fits = {v \in Values : NameOf[v] = text}
        /\ UNCHANGED <<entries, field, keys, rows>>
    BY <1>5 DEF LookupFind, Ask, FindEmpty, Find
  <2>2. QED
    BY <1>5, <2>1, NoAddKeeps
<1>6. ASSUME NEW text \in Texts, KeyedFind(text) PROVE RowInv'
  BY <1>6, NoAddKeeps DEF KeyedFind, Ask, FindEmpty, Find
<1>7. ASSUME NEW pair \in Pairs, PairFind(pair) PROVE RowInv'
  BY <1>7, NoAddKeeps DEF PairFind, Ask, FindEmpty, Find
<1>8. CASE Run
  <2>1. /\ UNCHANGED <<entries, field, keys, rows, asked, sought>>
        /\ phase' \in {"probing", "answered"} => phase \in {"probing", "answered"}
    BY <1>8 DEF Run, Steps, Probe, SkipTaken, Place, ProbeFree, ProbeHit, ProbeOn
  <2>2. field.kind = "hashLookup" /\ phase \in {"probing", "answered"} =>
            /\ asked \in Texts /\ sought.hash = TextHash[asked]
            /\ field.verified => sought.fits = {v \in Values : NameOf[v] = asked}
    BY DEF RowInv, LookupHolds
  <2>3. QED
    BY <2>1, <2>2, NoAddKeeps
<1>9. CASE Take
  BY <1>9, NoAddKeeps DEF Take, Return
<1>10. CASE UNCHANGED vars
  <2>1. UNCHANGED <<entries, field, keys, rows, asked, sought, phase>>
    BY <1>10 DEF vars, hashTable, tableVars
  <2>2. field.kind = "hashLookup" /\ phase \in {"probing", "answered"} =>
            /\ asked \in Texts /\ sought.hash = TextHash[asked]
            /\ field.verified => sought.fits = {v \in Values : NameOf[v] = asked}
    BY DEF RowInv, LookupHolds
  <2>3. QED
    BY <2>1, <2>2, NoAddKeeps
<1>11. QED
  BY <1>1, <1>2, <1>3, <1>4, <1>5, <1>6, <1>7, <1>8, <1>9, <1>10 DEF Next

THEOREM RowInvariant == Spec => [](IndexInv /\ RowInv)
BY IndexInvInit, IndexStep, RowInvInit, RowStep, PTL DEF Spec

----------------------------------------------------------------------------

(* A set of numbers that is not empty has a least one.                     *)
LEMMA LeastNumber ==
  ASSUME NEW T, T \subseteq Nat, T # {}
  PROVE  \E d \in T : \A c \in T : d <= c
<1> DEFINE Below == {p \in Nat \X Nat : p[1] < p[2]}
<1>1. Below = OpToRel(<, Nat)
  BY Zenon DEF OpToRel
<1>2. IsWellFoundedOn(Below, Nat)
  BY <1>1, NatLessThanWellFounded, Zenon
<1>3. \E d \in T : \A c \in T : ~(<<c, d>> \in Below)
  <2> HIDE DEF Below
  <2>1. QED
    BY <1>2, WFMin, Zenon
<1>4. \A c, d \in Nat : c < d => <<c, d>> \in Below
  OBVIOUS
<1> HIDE DEF Below
<1>5. PICK d \in T : \A c \in T : ~(<<c, d>> \in Below)
  BY <1>3
<1>6. \A c \in T : ~(c < d)
  BY <1>4, <1>5
<1>7. QED
  BY <1>5, <1>6

(* What a lookup that hit has found.                                       *)
LEMMA EntriesTyped ==
  ASSUME IndexInv
  PROVE  /\ Len(entries) \in Nat /\ DOMAIN entries = 1 .. Len(entries)
         /\ \A i \in 1 .. Len(entries) : entries[i].value \in Values
<1> DEFINE Entry == [hash : Hash, value : Values]
<1>1. entries \in Seq(Entry)
  BY DEF IndexInv
<1>2. \A e \in Entry : e.value \in Values
  OBVIOUS
<1> HIDE DEF Entry
<1>3. /\ Len(entries) \in Nat /\ DOMAIN entries = 1 .. Len(entries)
      /\ \A i \in 1 .. Len(entries) : entries[i] \in Entry
  BY <1>1
<1>4. QED
  BY <1>2, <1>3

LEMMA FoundIsFirst ==
  ASSUME FindsFirst, phase = "answered", Len(entries) \in Nat
  PROVE  /\ answer = {} <=> Fitting = {}
         /\ answer # {} => Found \in Fitting /\ answer = {entries[Found].value}
<1>1. Fitting \subseteq Nat
  BY DEF Fitting
<1>2. answer = {entries[i].value : i \in {f \in Fitting : \A g \in Fitting : f <= g}}
  BY DEF FindsFirst
<1>3. CASE Fitting = {}
  BY <1>2, <1>3
<1>4. CASE Fitting # {}
  <2>1. \E f \in Fitting : \A g \in Fitting : f <= g
    BY <1>1, <1>4, LeastNumber
  <2>2. Found \in Fitting /\ \A g \in Fitting : Found <= g
    BY <2>1 DEF Found
  <2>3. \A f \in Fitting : (\A g \in Fitting : f <= g) => f = Found
    BY <1>1, <2>2
  <2>4. {f \in Fitting : \A g \in Fitting : f <= g} = {Found}
    BY <2>2, <2>3
  <2>5. answer = {entries[Found].value}
    BY <1>2, <2>4
  <2>6. QED
    BY <1>4, <2>2, <2>5
<1>5. QED
  BY <1>3, <1>4

(* With verifyVia, whatever texts share a hash, a hit resolves to the text *)
(* that was sought, and a text that was added is found                     *)
(* (hashLookup.ts:115-128).                                                *)
THEOREM VerifiedLookups == Spec => []VerifiedIsRight
<1>1. ASSUME IndexInv, RowInv, FindsFirst, phase = "answered",
             field.kind = "hashLookup", field.verified
      PROVE  /\ \A v \in answer : NameOf[v] = asked
             /\ (\E i \in DOMAIN entries :
                     keys[i] = asked /\ NameOf[entries[i].value] = asked) => answer # {}
  <2>1. /\ \A i \in 1 .. Len(entries) :
               keys[i] \in Texts /\ entries[i].hash = TextHash[keys[i]]
        /\ sought.hash = TextHash[asked]
        /\ sought.fits = {v \in Values : NameOf[v] = asked}
    BY <1>1 DEF RowInv, LookupHolds
  <2>2. /\ Len(entries) \in Nat /\ DOMAIN entries = 1 .. Len(entries)
        /\ \A i \in 1 .. Len(entries) : entries[i].value \in Values
    BY <1>1, EntriesTyped
  <2>3. /\ answer = {} <=> Fitting = {}
        /\ answer # {} => Found \in Fitting /\ answer = {entries[Found].value}
    BY <1>1, <2>2, FoundIsFirst
  <2>4. ASSUME NEW v \in answer PROVE NameOf[v] = asked
    <3>1. Found \in Fitting /\ v = entries[Found].value
      BY <2>3, <2>4
    <3>2. QED
      BY <3>1, <2>1 DEF Fitting
  <2>5. ASSUME NEW i \in DOMAIN entries, keys[i] = asked, NameOf[entries[i].value] = asked
        PROVE  answer # {}
    <3>1. i \in Fitting
      BY <2>1, <2>2, <2>5 DEF Fitting
    <3>2. QED
      BY <3>1, <2>3
  <2>6. QED
    BY <2>4, <2>5
<1>2. IndexInv /\ RowInv /\ FindsFirst => VerifiedIsRight
  BY <1>1 DEF VerifiedIsRight
<1>3. QED
  BY <1>2, RowInvariant, IndexFindsFirst, PTL

LEMMA SliceOf ==
  ASSUME NEW S, NEW column \in Seq(S), NEW from \in Nat, NEW to \in Nat,
         from <= to, to <= Len(column)
  PROVE  SubSeq(column, from + 1, to) = [n \in 1 .. to - from |-> column[from + n]]
<1>1. /\ from + 1 \in 1 .. Len(column) + 1 /\ to \in from .. Len(column)
  OBVIOUS
<1>2. \A n \in 1 .. to - from : from + 1 + n - 1 = from + n
  OBVIOUS
<1>3. QED
  BY <1>1, <1>2

LEMMA BucketIsSlice ==
  ASSUME IndexInv, NEW i \in 1 .. Len(entries), Bucket(i)
  PROVE  Slice(entries[i].value) = PushedFor(i)
<1>1. /\ columns[1] \in Seq(Nat) /\ Len(columns[1]) \in Nat /\ Len(entries) \in Nat /\ i \in Nat
      /\ ptr \in Seq(Nat) /\ Len(ptr) \in Nat
  BY ColumnTyped DEF Columns, IndexInv
<1>2. PICK column, from, to :
          column = columns[1] /\ from = ptr[i] /\ to = ptr[i + 1]
  OBVIOUS
<1>3. entries[i].value + 1 = i /\ i + 1 <= Len(ptr)
  BY DEF Bucket
<1>4. /\ from \in Nat /\ to \in Nat /\ from <= to /\ to <= Len(column)
      /\ \A p \in 1 .. Len(column) : column[p] = i <=> from < p /\ p <= to
  <2>1. i \in 1 .. Len(ptr) /\ i + 1 \in 1 .. Len(ptr)
    BY <1>1, <1>3
  <2>2. from \in Nat /\ to \in Nat
    <3>1. \A j \in 1 .. Len(ptr) : ptr[j] \in Nat
      BY <1>1
    <3>2. QED
      BY <3>1, <2>1, <1>2
  <2>3. QED
    BY <2>2, <1>2 DEF Bucket
<1>5. entries[i].value \in Nat
  <2>1. entries[i].value \in Values
    BY EntriesTyped
  <2>2. QED
    BY <2>1, ValuesAssumption
<1>6. Slice(entries[i].value) = SubSeq(column, from + 1, to)
  <2>1. /\ ~(entries[i].value + 2 > Len(ptr))
        /\ entries[i].value + 1 = i /\ entries[i].value + 2 = i + 1
    <3>1. Len(ptr) \in Nat /\ i \in Nat
      BY <1>1
    <3>2. \A v \in Nat : v + 1 = i => v + 2 = i + 1
      BY <3>1
    <3>3. QED
      BY <3>1, <3>2, <1>3, <1>5
  <2>2. QED
    BY <2>1, <1>2 DEF Slice
<1>7. {p \in DOMAIN column : column[p] = i} = from + 1 .. to
  <2>1. DOMAIN column = 1 .. Len(column) /\ Len(column) \in Nat
    BY <1>1, <1>2
  <2>2. QED
    BY <2>1, <1>4
<1>8. Cardinality(from + 1 .. to) = to - from
  <2>1. /\ from + 1 \in Int /\ to \in Int
        /\ (IF from + 1 > to THEN 0 ELSE to - (from + 1) + 1) = to - from
    BY <1>4
  <2>2. QED
    BY <2>1, FS_Interval
<1>9. PushedFor(i) = [n \in 1 .. to - from |-> i]
  BY <1>2, <1>7, <1>8 DEF PushedFor
<1>10. SubSeq(column, from + 1, to) = [n \in 1 .. to - from |-> i]
  <2>0. column \in Seq(Nat) /\ Len(column) \in Nat
    BY <1>1, <1>2
  <2>1. SubSeq(column, from + 1, to) = [n \in 1 .. to - from |-> column[from + n]]
    BY <2>0, <1>4, SliceOf
  <2>2. ASSUME NEW n \in 1 .. to - from PROVE column[from + n] = i
    <3>1. from + n \in 1 .. Len(column) /\ from < from + n /\ from + n <= to
      BY <2>0, <1>4
    <3>2. QED
      BY <3>1, <1>4
  <2>3. QED
    BY <2>1, <2>2
<1>11. QED
  BY <1>6, <1>9, <1>10

(* An add that throws spoils nothing that was added before it, for any     *)
(* number of adds, of values and of columns that throw: the key still      *)
(* leads to its own row or bucket (keyedIndex.ts:15-19,                    *)
(* pairIndex.ts:76-81, columns.ts:109-128).                                *)
THEOREM RowsAreKept == Spec => []ReadsOwnRow
<1>1. ASSUME IndexInv, RowInv, FindsFirst, phase = "answered", answer # {},
             \A f \in failed : Found < f
      PROVE  /\ field.kind = "keyedIndex" =>
                    \A b \in answer : Slice(b) = PushedFor(Found)
             /\ field.kind = "pairIndex" =>
                    \A r \in answer, c \in Columns : columns[c][r + 1] = Found
  <2>1. Len(entries) \in Nat
    BY <1>1 DEF IndexInv
  <2>2. Found \in 1 .. Len(entries) /\ answer = {entries[Found].value}
    BY <1>1, <2>1, FoundIsFirst DEF Fitting
  <2>3. BeforeFailed(Found)
    BY <1>1 DEF BeforeFailed
  <2>4. ASSUME field.kind = "keyedIndex", NEW b \in answer PROVE Slice(b) = PushedFor(Found)
    <3>1. Bucket(Found)
      BY <1>1, <2>2, <2>3, <2>4 DEF RowInv, BucketsHold
    <3>2. QED
      BY <3>1, <1>1, <2>2, <2>4, BucketIsSlice
  <2>5. ASSUME field.kind = "pairIndex", NEW r \in answer, NEW c \in Columns
        PROVE  columns[c][r + 1] = Found
    <3>1. entries[Found].value + 1 = Found /\ columns[c][Found] = Found
      BY <1>1, <2>2, <2>3, <2>5 DEF RowInv, RowsHold
    <3>2. QED
      BY <3>1, <2>2, <2>5
  <2>6. QED
    BY <2>4, <2>5
<1>2. IndexInv /\ RowInv /\ FindsFirst => ReadsOwnRow
  BY <1>1 DEF ReadsOwnRow
<1>3. QED
  BY <1>2, RowInvariant, IndexFindsFirst, PTL

----------------------------------------------------------------------------
(* What is added after a throw.  The invariant: the last column has a      *)
(* value for each row that was counted, and the bucket that is open has    *)
(* nothing in it but what adds that threw have left, so that the next add  *)
(* which returns puts its own values behind that and ends the bucket.      *)

LastColumnHolds ==
    field.kind = "pairIndex" =>
        /\ Len(columns[2]) = count
        /\ \A i \in 1 .. Len(entries) : i \notin failed =>
               /\ entries[i].value + 1 <= Len(columns[2])
               /\ columns[2][entries[i].value + 1] = i

\* The bucket of an entry ends with its own values, which begin after mid.
OwnAfter(i, mid) ==
    LET bucket == entries[i].value + 1
    IN  /\ bucket + 1 <= Len(ptr)
        /\ ptr[bucket] <= mid /\ mid <= ptr[bucket + 1] /\ ptr[bucket + 1] <= Len(columns[1])
        /\ \A p \in 1 .. Len(columns[1]) :
               /\ columns[1][p] = i <=> mid < p /\ p <= ptr[bucket + 1]
               /\ ptr[bucket] < p /\ p <= mid => columns[1][p] \in failed

OpenBucketHolds ==
    /\ ptr[Len(ptr)] <= Len(columns[1])
    /\ \A p \in 1 .. Len(columns[1]) : ptr[Len(ptr)] < p => columns[1][p] \in failed

OwnBucketsHold ==
    field.kind = "keyedIndex" =>
        /\ OpenBucketHolds
        /\ \A i \in 1 .. Len(entries) : i \notin failed => \E mid \in Nat : OwnAfter(i, mid)

LaterInv == LastColumnHolds /\ OwnBucketsHold

LEMMA LaterInvInit == Init => LaterInv
<1> SUFFICES ASSUME Init PROVE LaterInv
  OBVIOUS
<1>1. /\ entries = <<>> /\ count = 0 /\ ptr = <<0>>
      /\ \A c \in Columns : columns[c] = <<>>
  BY DEF Init, TableInit
<1>2. /\ 1 .. Len(entries) = {} /\ Len(columns[1]) = 0 /\ Len(columns[2]) = 0
      /\ Len(ptr) = 1 /\ ptr[1] = 0
  BY <1>1 DEF Columns
<1>3. QED
  BY <1>1, <1>2 DEF LaterInv, LastColumnHolds, OwnBucketsHold, OpenBucketHolds

(* What an add leaves of the buckets of the entries before it.             *)
LEMMA OwnAfterKept ==
  ASSUME IndexInv, NEW n \in Nat, Appended(1, n),
         NEW i \in 1 .. Len(entries), NEW mid \in Nat, OwnAfter(i, mid),
         entries'[i] = entries[i], failed \subseteq failed',
         ptr' = ptr \/ \E x \in Nat : ptr' = Append(ptr, x)
  PROVE  OwnAfter(i, mid)'
<1>1. PICK b : b = entries[i].value + 1
  OBVIOUS
<1>2. /\ b + 1 <= Len(ptr)
      /\ ptr[b] <= mid /\ mid <= ptr[b + 1] /\ ptr[b + 1] <= Len(columns[1])
      /\ \A p \in 1 .. Len(columns[1]) :
             /\ columns[1][p] = i <=> mid < p /\ p <= ptr[b + 1]
             /\ ptr[b] < p /\ p <= mid => columns[1][p] \in failed
  BY <1>1 DEF OwnAfter
<1>3. /\ b \in Nat /\ 1 <= b /\ ptr \in Seq(Nat) /\ Len(ptr) \in Nat
      /\ Len(columns[1]) \in Nat /\ Len(entries) \in Nat
  <2>1. entries[i].value \in Nat
    BY EntriesTyped, ValuesAssumption
  <2>2. b \in Nat /\ 1 <= b
    BY <1>1, <2>1
  <2>3. QED
    BY <2>2, ColumnTyped DEF IndexInv, Columns
<1>4. b \in 1 .. Len(ptr) /\ b + 1 \in 1 .. Len(ptr)
  <2>1. b + 1 <= Len(ptr) /\ b \in Nat /\ 1 <= b /\ Len(ptr) \in Nat
    BY <1>2, <1>3
  <2>2. QED
    BY <2>1
<1>5. ptr'[b] = ptr[b] /\ ptr'[b + 1] = ptr[b + 1] /\ b + 1 <= Len(ptr')
  <2>1. CASE ptr' = ptr
    BY <2>1, <1>2
  <2>2. ASSUME NEW x \in Nat, ptr' = Append(ptr, x)
        PROVE  ptr'[b] = ptr[b] /\ ptr'[b + 1] = ptr[b + 1] /\ b + 1 <= Len(ptr')
    BY <2>2, <1>2, <1>3, <1>4
  <2>3. QED
    BY <2>1, <2>2
<1>6. PICK from, to : from = ptr[b] /\ to = ptr[b + 1]
  OBVIOUS
<1>7. from \in Nat /\ to \in Nat
  <2>1. \A j \in 1 .. Len(ptr) : ptr[j] \in Nat
    BY <1>3
  <2>2. QED
    BY <2>1, <1>4, <1>6
<1>8. /\ Len(columns'[1]) = Len(columns[1]) + n
      /\ \A p \in 1 .. Len(columns[1]) : columns'[1][p] = columns[1][p]
      /\ \A p \in 1 .. Len(columns'[1]) :
             p \notin 1 .. Len(columns[1]) => columns'[1][p] = Len(entries) + 1
  BY DEF Appended
<1>9. ASSUME NEW p \in 1 .. Len(columns'[1])
      PROVE  /\ columns'[1][p] = i <=> mid < p /\ p <= to
             /\ from < p /\ p <= mid => columns'[1][p] \in failed'
  <2>1. CASE p \in 1 .. Len(columns[1])
    BY <2>1, <1>2, <1>6, <1>8
  <2>2. CASE p \notin 1 .. Len(columns[1])
    <3>1. columns'[1][p] # i
      <4>1. columns'[1][p] = Len(entries) + 1
        BY <2>2, <1>8, <1>9
      <4>2. QED
        BY <4>1, <1>3
    <3>2. Len(columns[1]) < p /\ p \in Nat
      BY <2>2, <1>3, <1>8, <1>9
    <3>3. ~(p <= to) /\ ~(p <= mid)
      <4>1. mid <= to /\ to <= Len(columns[1]) /\ to \in Nat /\ Len(columns[1]) \in Nat
        BY <1>2, <1>3, <1>6, <1>7
      <4>2. QED
        BY <3>2, <4>1
    <3>4. QED
      BY <3>1, <3>3
  <2>3. QED
    BY <2>1, <2>2
<1>10. from <= mid /\ mid <= to /\ to <= Len(columns'[1])
  BY <1>2, <1>3, <1>6, <1>7, <1>8
<1>11. QED
  BY <1>1, <1>5, <1>6, <1>9, <1>10 DEF OwnAfter

LEMMA KeyedAddLater ==
  ASSUME IndexInv, RowInv, LaterInv, NEW text \in Texts, NEW n \in Nat,
         KeyedAdd(text, n) \/ KeyedAddFails(text, n)
  PROVE  LaterInv'
<1> DEFINE e == [hash |-> TextHash[text], value |-> Len(ptr) - 1]
<1>1. /\ field.kind = "keyedIndex" /\ field' = field
      /\ entries' = Append(entries, e) /\ Len(entries) < MaxAdds
      /\ columns' = [columns EXCEPT ![1] = @ \o Pushed(n)]
  BY DEF KeyedAdd, KeyedAddFails, Enter, Add
<1>2. e \in [hash : Hash, value : Values] /\ e.value = Len(ptr) - 1
  BY <1>1, TextsAssumption, NextIsValue
<1> HIDE DEF e
<1>3. PICK k : k = Len(entries) + 1
  OBVIOUS
<1>4. columns \in [Columns -> Seq(Nat)] /\ 1 \in Columns
  BY DEF IndexInv, Columns
<1>5. Appended(1, n) /\ \A c \in Columns : \E m \in Nat : Appended(c, m)
  <2>1. Appended(1, n)
    BY <1>1, <1>4, PushAppends
  <2>2. ASSUME NEW c \in Columns, c # 1 PROVE Appended(c, 0)
    BY <2>2, <1>1, <1>4, NothingAppends
  <2>3. QED
    BY <2>1, <2>2
<1>6. /\ ptr \in Seq(Nat) /\ Len(ptr) \in Nat /\ Len(ptr) >= 1 /\ Len(columns[1]) \in Nat
      /\ Len(entries) \in Nat /\ k \in Nat
  BY <1>3, <1>4, ColumnTyped DEF IndexInv
<1>7. /\ Len(columns'[1]) = Len(columns[1]) + n /\ Len(columns'[1]) \in Nat
      /\ \A p \in 1 .. Len(columns[1]) : columns'[1][p] = columns[1][p]
      /\ \A p \in 1 .. Len(columns'[1]) : p \notin 1 .. Len(columns[1]) => columns'[1][p] = k
  BY <1>3, <1>5, <1>6 DEF Appended
<1>8. \/ failed' = failed /\ ptr' = Append(ptr, Len(columns'[1]))
      \/ failed' = failed \cup {k} /\ ptr' = ptr
  BY <1>3 DEF KeyedAdd, KeyedAddFails, Throws
<1>9. /\ Len(entries') = Len(entries) + 1
      /\ entries'[k] = e
      /\ \A i \in 1 .. Len(entries) : entries'[i] = entries[i]
  <2>1. ptr' = ptr \/ \E x \in Nat : ptr' = Append(ptr, x)
    BY <1>7, <1>8
  <2>2. failed' = failed \/ failed' = failed \cup {Len(entries) + 1}
    BY <1>3, <1>8
  <2>3. QED
    BY <1>1, <1>2, <1>3, <1>5, <2>1, <2>2, AddGrows DEF RowInv
<1>10. PICK last, end : last = Len(ptr) /\ end = ptr[last]
  OBVIOUS
<1>11. last \in 1 .. Len(ptr) /\ last \in Nat /\ end \in Nat /\ end <= Len(columns[1])
  <2>1. last \in 1 .. Len(ptr) /\ last \in Nat
    BY <1>6, <1>10
  <2>2. \A j \in 1 .. Len(ptr) : ptr[j] \in Nat
    BY <1>6
  <2>3. QED
    BY <2>1, <2>2, <1>1, <1>10 DEF LaterInv, OwnBucketsHold, OpenBucketHolds
<1>12. \A p \in 1 .. Len(columns[1]) : end < p => columns[1][p] \in failed
  BY <1>1, <1>10 DEF LaterInv, OwnBucketsHold, OpenBucketHolds
<1>13. failed \subseteq 1 .. Len(entries)
       /\ \A p \in 1 .. Len(columns[1]) : columns[1][p] \in 1 .. Len(entries)
  BY <1>4 DEF RowInv, Pushes
<1>14. OpenBucketHolds'
  <2>1. CASE failed' = failed /\ ptr' = Append(ptr, Len(columns'[1]))
    <3>1. Len(ptr') = last + 1 /\ ptr'[last + 1] = Len(columns'[1])
      BY <2>1, <1>6, <1>7, <1>10, AppendFacts
    <3>2. \A p \in 1 .. Len(columns'[1]) : ~(Len(columns'[1]) < p)
      BY <1>7
    <3>3. QED
      BY <3>1, <3>2, <1>7 DEF OpenBucketHolds
  <2>2. CASE failed' = failed \cup {k} /\ ptr' = ptr
    <3>1. ASSUME NEW p \in 1 .. Len(columns'[1]), end < p PROVE columns'[1][p] \in failed'
      BY <3>1, <2>2, <1>7, <1>12
    <3>2. end <= Len(columns'[1])
      BY <1>6, <1>7, <1>11
    <3>3. QED
      BY <3>1, <3>2, <2>2, <1>10 DEF OpenBucketHolds
  <2>3. QED
    BY <2>1, <2>2, <1>8
<1>15. ASSUME NEW i \in 1 .. Len(entries'), i \notin failed'
       PROVE  \E mid \in Nat : OwnAfter(i, mid)'
  <2>1. CASE i = k
    <3>1. ptr' = Append(ptr, Len(columns'[1])) /\ failed' = failed
      BY <2>1, <1>8, <1>15
    <3>2. /\ Len(ptr') = last + 1 /\ ptr'[last + 1] = Len(columns'[1])
          /\ ptr'[last] = end
      BY <3>1, <1>6, <1>7, <1>10, <1>11, AppendFacts
    <3>3. entries'[k].value + 1 = last
      BY <1>2, <1>6, <1>9, <1>10
    <3>4. Len(columns[1]) <= Len(columns'[1])
      BY <1>6, <1>7
    <3>5. ASSUME NEW p \in 1 .. Len(columns'[1])
          PROVE  /\ columns'[1][p] = k <=> Len(columns[1]) < p /\ p <= Len(columns'[1])
                 /\ end < p /\ p <= Len(columns[1]) => columns'[1][p] \in failed'
      <4>1. CASE p \in 1 .. Len(columns[1])
        <5>1. columns'[1][p] = columns[1][p] /\ columns[1][p] \in 1 .. Len(entries)
          BY <4>1, <1>7, <1>13
        <5>2. columns'[1][p] # k
          BY <5>1, <1>3, <1>6
        <5>3. ~(Len(columns[1]) < p)
          BY <4>1, <1>6
        <5>4. QED
          BY <4>1, <5>1, <5>2, <5>3, <3>1, <1>12
      <4>2. CASE p \notin 1 .. Len(columns[1])
        <5>1. columns'[1][p] = k
          BY <4>2, <3>5, <1>7
        <5>2. Len(columns[1]) < p /\ p <= Len(columns'[1]) /\ ~(p <= Len(columns[1]))
          BY <4>2, <3>5, <1>6, <1>7
        <5>3. QED
          BY <5>1, <5>2
      <4>3. QED
        BY <4>1, <4>2
    <3>6. PICK mid \in Nat : mid = Len(columns[1])
      BY <1>6
    <3>7. /\ last + 1 <= Len(ptr') /\ ptr'[last] <= mid /\ mid <= ptr'[last + 1]
          /\ ptr'[last + 1] <= Len(columns'[1])
          /\ \A p \in 1 .. Len(columns'[1]) :
                 /\ columns'[1][p] = k <=> mid < p /\ p <= ptr'[last + 1]
                 /\ ptr'[last] < p /\ p <= mid => columns'[1][p] \in failed'
      BY <3>2, <3>4, <3>5, <3>6, <1>7, <1>11
    <3>8. OwnAfter(k, mid)'
      BY <3>3, <3>7 DEF OwnAfter
    <3>9. QED
      BY <3>8, <2>1
  <2>2. CASE i # k
    <3>1. i \in 1 .. Len(entries) /\ i \notin failed
      BY <2>2, <1>3, <1>6, <1>8, <1>9, <1>15
    <3>2. PICK mid \in Nat : OwnAfter(i, mid)
      BY <3>1, <1>1 DEF LaterInv, OwnBucketsHold
    <3>3. /\ entries'[i] = entries[i] /\ failed \subseteq failed'
          /\ ptr' = ptr \/ \E x \in Nat : ptr' = Append(ptr, x)
      BY <3>1, <1>7, <1>8, <1>9
    <3>4. OwnAfter(i, mid)'
      BY <3>1, <3>2, <3>3, <1>5, OwnAfterKept
    <3>5. QED
      BY <3>4
  <2>3. QED
    BY <2>1, <2>2
<1>16. QED
  BY <1>1, <1>14, <1>15 DEF LaterInv, LastColumnHolds, OwnBucketsHold

LEMMA PairAddLater ==
  ASSUME IndexInv, RowInv, LaterInv, NEW pair \in Pairs,
         PairAdd(pair) \/ \E column \in Columns : PairAddFails(pair, column)
  PROVE  LaterInv'
<1> DEFINE e == [hash |-> PairKey(pair, field.layout), value |-> count]
<1>1. /\ field.kind = "pairIndex" /\ field' = field /\ ptr' = ptr
      /\ entries' = Append(entries, e) /\ Len(entries) < MaxAdds
  BY DEF PairAdd, PairAddFails, Enter, Add
<1>2. e \in [hash : Hash, value : Values] /\ e.value = count
  <2>1. field.layout \in 1 .. 3
    BY <1>1, KindsAssumption DEF IndexInv
  <2>2. QED
    BY <1>1, <2>1, PairKeyTyped, NextIsValue
<1> HIDE DEF e
<1>3. PICK k : k = Len(entries) + 1
  OBVIOUS
<1>4. \/ failed' = failed /\ count' = count + 1 /\ columns'[2] = columns[2] \o Pushed(1)
      \/ failed' = failed \cup {k} /\ count' = count /\ columns'[2] = columns[2] \o Pushed(0)
  <2>1. 2 \in Columns
    BY DEF Columns
  <2>2. CASE PairAdd(pair)
    BY <2>1, <2>2 DEF PairAdd
  <2>3. ASSUME NEW column \in Columns, PairAddFails(pair, column)
        PROVE  /\ failed' = failed \cup {k} /\ count' = count
               /\ columns'[2] = columns[2] \o Pushed(0)
    <3>1. ~(2 < column)
      BY <2>3 DEF Columns
    <3>2. QED
      BY <2>1, <2>3, <3>1, <1>3 DEF PairAddFails, Throws
  <2>4. QED
    BY <2>2, <2>3
<1>5. Len(columns[2]) \in Nat /\ Len(entries) \in Nat /\ k \in Nat /\ count \in Nat
  BY <1>3, ColumnTyped DEF IndexInv, Columns
<1>6. /\ Len(columns[2]) = count
      /\ \A i \in 1 .. Len(entries) : i \notin failed =>
             /\ entries[i].value + 1 <= Len(columns[2])
             /\ columns[2][entries[i].value + 1] = i
  BY <1>1 DEF LaterInv, LastColumnHolds
<1>7. /\ entries'[k] = e /\ Len(entries') = Len(entries) + 1
      /\ \A i \in 1 .. Len(entries) : entries'[i] = entries[i]
  <2>1. PICK E : E = [hash : Hash, value : Values]
    OBVIOUS
  <2>2. entries \in Seq(E) /\ e \in E
    BY <2>1, <1>2 DEF IndexInv
  <2>3. QED
    BY <2>2, <1>1, <1>3, AppendFacts
<1>8. PICK n \in {0, 1} :
        /\ n = 1 <=> count' = count + 1
        /\ n = 0 => failed' = failed \cup {k} /\ count' = count
        /\ failed \subseteq failed'
        /\ Appended(2, n)
  <2>1. 2 \in Columns
    BY DEF Columns
  <2>2. CASE failed' = failed /\ count' = count + 1 /\ columns'[2] = columns[2] \o Pushed(1)
    <3>1. Appended(2, 1)
      BY <2>1, <2>2, PushAppends
    <3>2. QED
      BY <2>2, <3>1
  <2>3. CASE failed' = failed \cup {k} /\ count' = count /\ columns'[2] = columns[2] \o Pushed(0)
    <3>1. Appended(2, 0)
      BY <2>1, <2>3, PushAppends
    <3>2. QED
      BY <2>3, <3>1, <1>5
  <2>4. QED
    BY <2>2, <2>3, <1>4
<1>9. /\ Len(columns'[2]) = count + n /\ Len(columns'[2]) = count'
      /\ \A p \in 1 .. count : columns'[2][p] = columns[2][p]
      /\ \A p \in 1 .. count + n : p \notin 1 .. count => columns'[2][p] = k
  BY <1>3, <1>5, <1>6, <1>8 DEF Appended
<1>10. ASSUME NEW i \in 1 .. Len(entries'), i \notin failed'
       PROVE  /\ entries'[i].value + 1 <= Len(columns'[2])
              /\ columns'[2][entries'[i].value + 1] = i
  <2>1. CASE i = k
    <3>1. n = 1
      BY <2>1, <1>8, <1>10
    <3>2. count + 1 \in 1 .. count + n /\ count + 1 \notin 1 .. count
      BY <3>1, <1>5
    <3>3. columns'[2][count + 1] = k /\ count + 1 <= Len(columns'[2])
      BY <3>1, <3>2, <1>5, <1>9
    <3>4. QED
      BY <2>1, <3>3, <1>2, <1>7
  <2>2. CASE i # k
    <3>1. i \in 1 .. Len(entries) /\ i \notin failed
      BY <2>2, <1>3, <1>5, <1>7, <1>8, <1>10
    <3>2. entries[i].value \in Nat
      BY <3>1, EntriesTyped, ValuesAssumption
    <3>3. PICK p : p = entries[i].value + 1
      OBVIOUS
    <3>4. p \in 1 .. count /\ columns[2][p] = i
      BY <3>1, <3>2, <3>3, <1>5, <1>6
    <3>5. columns'[2][p] = i /\ p <= Len(columns'[2])
      BY <3>4, <1>5, <1>9
    <3>6. QED
      BY <3>1, <3>3, <3>5, <1>7
  <2>3. QED
    BY <2>1, <2>2
<1>11. LastColumnHolds'
  BY <1>9, <1>10 DEF LastColumnHolds
<1>12. QED
  BY <1>1, <1>11 DEF LaterInv, OwnBucketsHold

LEMMA LaterStep ==
  ASSUME IndexInv, RowInv, LaterInv, [Next]_vars
  PROVE  LaterInv'
<1>1. ASSUME NEW text \in Texts, NEW value \in Values, LookupAdd(text, value)
      PROVE  LaterInv'
  BY <1>1 DEF LookupAdd, Enter, LaterInv, LastColumnHolds, OwnBucketsHold
<1>2. ASSUME NEW text \in Texts, NEW n \in Nat, KeyedAdd(text, n) \/ KeyedAddFails(text, n)
      PROVE  LaterInv'
  BY <1>2, KeyedAddLater
<1>3. ASSUME NEW pair \in Pairs,
             PairAdd(pair) \/ \E column \in Columns : PairAddFails(pair, column)
      PROVE  LaterInv'
  BY <1>3, PairAddLater
<1>4. ASSUME UNCHANGED <<entries, field, rows>> PROVE LaterInv'
  <2>1. UNCHANGED <<entries, field, columns, ptr, count, failed>>
    BY <1>4 DEF rows
  <2>2. LastColumnHolds'
    BY <2>1 DEF LaterInv, LastColumnHolds
  <2>3. \A i, mid : OwnAfter(i, mid)' = OwnAfter(i, mid)
    BY <2>1 DEF OwnAfter
  <2>4. OwnBucketsHold'
    BY <2>1, <2>3 DEF LaterInv, OwnBucketsHold, OpenBucketHolds
  <2>5. QED
    BY <2>2, <2>4 DEF LaterInv
<1>5. CASE Build
  BY <1>5, <1>4 DEF Build, FinalizeEmpty, Finalize
<1>6. ASSUME NEW text \in Texts, LookupFind(text) \/ KeyedFind(text) PROVE LaterInv'
  BY <1>6, <1>4 DEF LookupFind, KeyedFind, Ask, FindEmpty, Find
<1>7. ASSUME NEW pair \in Pairs, PairFind(pair) PROVE LaterInv'
  BY <1>7, <1>4 DEF PairFind, Ask, FindEmpty, Find
<1>8. CASE Run
  BY <1>8, <1>4
  DEF Run, Steps, Probe, SkipTaken, Place, ProbeFree, ProbeHit, ProbeOn
<1>9. CASE Take
  BY <1>9, <1>4 DEF Take, Return
<1>10. CASE UNCHANGED vars
  BY <1>10, <1>4 DEF vars, hashTable
<1>11. QED
  BY <1>1, <1>2, <1>3, <1>5, <1>6, <1>7, <1>8, <1>9, <1>10 DEF Next

THEOREM LaterInvariant == Spec => [](IndexInv /\ RowInv /\ LaterInv)
BY IndexInvInit, IndexStep, RowInvInit, RowStep, LaterInvInit, LaterStep, PTL DEF Spec

LEMMA OwnBucketEnds ==
  ASSUME IndexInv, NEW i \in 1 .. Len(entries), NEW mid \in Nat, OwnAfter(i, mid)
  PROVE  EndsWithOwn(Slice(entries[i].value), i)
<1>1. PICK v, b, column, from, to :
        /\ v = entries[i].value /\ b = v + 1 /\ column = columns[1]
        /\ from = ptr[b] /\ to = ptr[b + 1]
  OBVIOUS
<1>2. /\ b + 1 <= Len(ptr)
      /\ from <= mid /\ mid <= to /\ to <= Len(column)
      /\ \A p \in 1 .. Len(column) :
             /\ column[p] = i <=> mid < p /\ p <= to
             /\ from < p /\ p <= mid => column[p] \in failed
  BY <1>1 DEF OwnAfter
<1>3. /\ v \in Nat /\ b \in Nat /\ 1 <= b /\ b + 1 = v + 2
      /\ ptr \in Seq(Nat) /\ Len(ptr) \in Nat
      /\ column \in Seq(Nat) /\ Len(column) \in Nat
  <2>1. v \in Nat
    BY <1>1, EntriesTyped, ValuesAssumption
  <2>2. b \in Nat /\ 1 <= b /\ b + 1 = v + 2
    <3>1. b = v + 1
      BY <1>1
    <3>2. QED
      BY <2>1, <3>1
  <2>3. QED
    BY <2>1, <2>2, <1>1, ColumnTyped DEF IndexInv, Columns
<1>4. from \in Nat /\ to \in Nat
  <2>1. b \in 1 .. Len(ptr) /\ b + 1 \in 1 .. Len(ptr)
    BY <1>2, <1>3
  <2>2. \A j \in 1 .. Len(ptr) : ptr[j] \in Nat
    BY <1>3
  <2>3. QED
    BY <2>1, <2>2, <1>1
<1>5. Slice(v) = [n \in 1 .. to - from |-> column[from + n]]
  <2>1. ~(v + 2 > Len(ptr))
    BY <1>2, <1>3
  <2>2. Slice(v) = SubSeq(column, from + 1, to)
    BY <2>1, <1>1, <1>3 DEF Slice
  <2>3. from <= to
    BY <1>2, <1>4
  <2>4. QED
    BY <2>2, <2>3, <1>2, <1>3, <1>4, SliceOf
<1>6. PICK bucket, left : bucket = Slice(v) /\ left = mid - from
  OBVIOUS
<1>7. /\ Len(bucket) = to - from /\ to - from \in Nat
      /\ \A p \in 1 .. to - from : bucket[p] = column[from + p]
      /\ left \in 0 .. to - from
  <2>1. to - from \in Nat /\ mid - from \in 0 .. to - from
    BY <1>2, <1>4
  <2>2. bucket = [n \in 1 .. to - from |-> column[from + n]]
    BY <1>5, <1>6
  <2>3. Len(bucket) = to - from
    BY <2>1, <2>2
  <2>4. QED
    BY <2>1, <2>2, <2>3, <1>6
<1>8. Len(PushedFor(i)) = to - mid
  <2>1. {p \in DOMAIN column : column[p] = i} = mid + 1 .. to
    <3>1. DOMAIN column = 1 .. Len(column)
      BY <1>3
    <3>2. to <= Len(column) /\ to \in Nat /\ Len(column) \in Nat
      BY <1>2, <1>3, <1>4
    <3>3. \A p \in 1 .. Len(column) : column[p] = i <=> mid < p /\ p <= to
      BY <1>2
    <3>4. \A p : p \in mid + 1 .. to <=> p \in 1 .. Len(column) /\ mid < p /\ p <= to
      BY <3>2
    <3>5. QED
      BY <3>1, <3>3, <3>4
  <2>2. Cardinality(mid + 1 .. to) = to - mid
    <3>1. /\ mid + 1 \in Int /\ to \in Int
          /\ (IF mid + 1 > to THEN 0 ELSE to - (mid + 1) + 1) = to - mid
      BY <1>2, <1>4
    <3>2. QED
      BY <3>1, FS_Interval
  <2>3. PushedFor(i) = [n \in 1 .. to - mid |-> i]
    BY <2>1, <2>2, <1>1 DEF PushedFor
  <2>4. to - mid \in Nat
    BY <1>2, <1>4
  <2>5. QED
    BY <2>3, <2>4
<1>9. ASSUME NEW p \in 1 .. to - from
      PROVE  IF p <= left THEN bucket[p] \in failed ELSE bucket[p] = i
  <2>1. /\ from + p \in 1 .. Len(column) /\ from < from + p /\ from + p <= to
        /\ p <= left <=> from + p <= mid
    BY <1>2, <1>3, <1>4, <1>6, <1>9
  <2>2. CASE p <= left
    BY <2>1, <2>2, <1>2, <1>7
  <2>3. CASE ~(p <= left)
    <3>1. mid < from + p
      BY <2>1, <2>3, <1>4
    <3>2. QED
      BY <2>1, <2>3, <3>1, <1>2, <1>7
  <2>4. QED
    BY <2>2, <2>3
<1>10. Len(bucket) = left + Len(PushedFor(i))
  BY <1>2, <1>4, <1>6, <1>7, <1>8
<1>11. EndsWithOwn(bucket, i)
  BY <1>7, <1>9, <1>10 DEF EndsWithOwn
<1>12. QED
  BY <1>1, <1>6, <1>11

(* An add that throws loses nothing that is added after it, for any number *)
(* of adds, of values and of adds that throw: a key whose own add returned *)
(* leads to all its values, behind what was left in an open bucket, and to *)
(* its own row in the last column (keyedIndex.ts:15-19,                    *)
(* pairIndex.ts:76-81, columns.ts:109-128).                                *)
THEOREM NothingIsLost == Spec => []ThrowsLoseNothing
<1>1. ASSUME IndexInv, LaterInv, FindsFirst, phase = "answered", answer # {},
             Found \notin failed
      PROVE  /\ field.kind = "keyedIndex" =>
                    \A b \in answer : EndsWithOwn(Slice(b), Found)
             /\ field.kind = "pairIndex" =>
                    \A r \in answer :
                        r + 1 \in DOMAIN columns[2] /\ columns[2][r + 1] = Found
  <2>1. Len(entries) \in Nat
    BY <1>1 DEF IndexInv
  <2>2. Found \in 1 .. Len(entries) /\ answer = {entries[Found].value}
    BY <1>1, <2>1, FoundIsFirst DEF Fitting
  <2>3. ASSUME field.kind = "keyedIndex", NEW b \in answer
        PROVE  EndsWithOwn(Slice(b), Found)
    <3>1. PICK mid \in Nat : OwnAfter(Found, mid)
      BY <1>1, <2>2, <2>3 DEF LaterInv, OwnBucketsHold
    <3>2. QED
      BY <3>1, <1>1, <2>2, <2>3, OwnBucketEnds
  <2>4. ASSUME field.kind = "pairIndex", NEW r \in answer
        PROVE  r + 1 \in DOMAIN columns[2] /\ columns[2][r + 1] = Found
    <3>1. r = entries[Found].value
      BY <2>2, <2>4
    <3>2. r + 1 <= Len(columns[2]) /\ columns[2][r + 1] = Found
      BY <3>1, <1>1, <2>2, <2>4 DEF LaterInv, LastColumnHolds
    <3>3. r \in Nat
      BY <3>1, <1>1, <2>2, EntriesTyped, ValuesAssumption
    <3>4. DOMAIN columns[2] = 1 .. Len(columns[2]) /\ Len(columns[2]) \in Nat
      <4>1. columns[2] \in Seq(Nat)
        BY <1>1, ColumnTyped DEF Columns
      <4>2. QED
        BY <4>1
    <3>5. QED
      BY <3>2, <3>3, <3>4
  <2>5. QED
    BY <2>3, <2>4
<1>2. IndexInv /\ LaterInv /\ FindsFirst => ThrowsLoseNothing
  BY <1>1 DEF ThrowsLoseNothing
<1>3. QED
  BY <1>2, LaterInvariant, IndexFindsFirst, PTL
=============================================================================

--------------------------- MODULE TrigramProofs ---------------------------
(***************************************************************************)
(* Proofs about Trigram.tla, for any texts, any hashes and homes, any      *)
(* entities, table sizes, ratios and limits: what is posted is what was    *)
(* added, the lists are by first arrival, the scores are the lists an      *)
(* entity was seen in, and the answer is what the scores say.              *)
(***************************************************************************)
EXTENDS Trigram, SectionProofs

----------------------------------------------------------------------------
(* Growth.                                                                 *)

\* The tables on the way to a new one.
OnTheWay(t, entries, homes, capacity, free) ==
    /\ t[0] = [s \in 0 .. capacity - 1 |-> free]
    /\ \A k \in 1 .. Len(entries) :
           t[k] = PutIn(t[k - 1], entries[k], homes[k], capacity, free)

(* The recursion of Rehashed has a solution: the tables on the way.        *)
LEMMA RehashedIs ==
  ASSUME NEW entries, NEW homes, NEW capacity, NEW free, Len(entries) \in Nat
  PROVE  \E t : /\ OnTheWay(t, entries, homes, capacity, free)
                /\ Rehashed(entries, homes, capacity, free) = t[Len(entries)]
<1> DEFINE N == Len(entries)
           empty == [s \in 0 .. capacity - 1 |-> free]
           Next(t, k) == PutIn(t, entries[k], homes[k], capacity, free)
           Solves(n, f) == f = [k \in 0 .. n |-> IF k = 0 THEN empty ELSE Next(f[k - 1], k)]
           Fails == {n \in 0 .. N : ~ \E f : Solves(n, f)}
<1> HIDE DEF empty, Next
<1>1. Solves(0, [k \in 0 .. 0 |-> empty])
  OBVIOUS
<1>2. ASSUME NEW n \in 1 .. N, NEW f, Solves(n - 1, f)
      PROVE  Solves(n, [k \in 0 .. n |-> IF k = n THEN Next(f[n - 1], n) ELSE f[k]])
  <2> DEFINE g == [k \in 0 .. n |-> IF k = n THEN Next(f[n - 1], n) ELSE f[k]]
  <2>1. \A k \in 0 .. n - 1 : f[k] = IF k = 0 THEN empty ELSE Next(f[k - 1], k)
    BY <1>2
  <2>2. \A k \in 0 .. n - 1 : g[k] = f[k]
    OBVIOUS
  <2>3. g[n] = Next(f[n - 1], n)
    OBVIOUS
  <2>4. DOMAIN g = 0 .. n /\ g = [k \in 0 .. n |-> g[k]]
    OBVIOUS
  <2> HIDE DEF g
  <2>5. ASSUME NEW k \in 0 .. n
        PROVE  g[k] = IF k = 0 THEN empty ELSE Next(g[k - 1], k)
    <3>1. CASE k = n
      <4>1. n - 1 \in 0 .. n - 1 /\ k # 0
        BY <3>1
      <4>2. QED
        BY <4>1, <2>2, <2>3, <3>1
    <3>2. CASE k # n
      <4>1. k \in 0 .. n - 1 /\ (k # 0 => k - 1 \in 0 .. n - 1)
        BY <3>2
      <4>2. QED
        BY <4>1, <2>1, <2>2
    <3>3. QED
      BY <3>1, <3>2
  <2>6. QED
    BY <2>4, <2>5 DEF g
<1>3. ASSUME Fails # {} PROVE FALSE
  <2>1. Fails \subseteq Nat
    OBVIOUS
  <2>2. PICK n \in Fails : \A m \in Fails : n <= m
    <3> HIDE DEF Fails
    <3>1. QED
      BY <1>3, <2>1, LeastNumber
  <2>3. n \in 1 .. N
    <3>1. n # 0
      BY <1>1, <2>2
    <3>2. QED
      BY <2>2, <3>1
  <2>4. n - 1 \in 0 .. N /\ n - 1 \notin Fails
    BY <2>2, <2>3
  <2>5. PICK f : Solves(n - 1, f)
    BY <2>4
  <2>6. \E g : Solves(n, g)
    <3> HIDE DEF Solves
    <3>1. QED
      BY <1>2, <2>3, <2>5
  <2>7. QED
    BY <2>6
<1>4. \E f : Solves(N, f)
  BY <1>3
<1> DEFINE table == CHOOSE f : Solves(N, f)
<1>5. Solves(N, table)
  <2> HIDE DEF Solves
  <2>1. QED
    BY <1>4, Zenon
<1>6. Rehashed(entries, homes, capacity, free) = table[N]
  BY Zenon DEF Rehashed, empty, Next
<1> HIDE DEF table
<1>7. table[0] = empty /\ \A k \in 1 .. N : table[k] = Next(table[k - 1], k)
  BY <1>5
<1>8. QED
  BY <1>6, <1>7 DEF empty, Next, OnTheWay

\* A probe from home comes to the slot, past slots that are not free.
Reaches(table, home, slot, capacity, free) ==
    \E d \in 0 .. capacity - 1 :
        /\ slot = ((home % capacity) + d) % capacity
        /\ \A c \in 0 .. d - 1 : table[((home % capacity) + c) % capacity] # free

Used(table, free) == {s \in DOMAIN table : table[s] # free}

(* A probe that also stops at what it looks for ends there or before, but  *)
(* not at a free slot.                                                     *)
LEMMA ProbeFinds ==
  ASSUME NEW capacity \in Nat \ {0}, NEW home \in Nat, NEW table, NEW free,
         NEW stops, stops \subseteq 0 .. capacity - 1, stops # {},
         {s \in 0 .. capacity - 1 : table[s] = free} \subseteq stops
  PROVE  LET stop == FirstStop(home % capacity, capacity, stops)
         IN  /\ stop \in stops
             /\ Reaches(table, home, stop, capacity, free)
             /\ \A slot \in stops :
                    Reaches(table, home, slot, capacity, free)
                    => stop = slot \/ table[stop] # free
<1> DEFINE from == home % capacity
           Turn(d) == (from + d) % capacity
           stop == FirstStop(from, capacity, stops)
<1>1. from \in 0 .. capacity - 1
  OBVIOUS
<1>2. \A d \in Nat : Turn(d) \in 0 .. capacity - 1
  OBVIOUS
<1> HIDE DEF from
<1>3. stop \in stops /\ \E d \in 0 .. capacity - 1 :
          stop = Turn(d) /\ \A c \in 0 .. d - 1 : Turn(c) \notin stops
  <2>1. stops \cap (0 .. capacity - 1) # {}
    OBVIOUS
  <2>2. QED
    BY <1>1, <2>1, ProbeStops
<1> HIDE DEF stop
<1>4. PICK d \in 0 .. capacity - 1 :
          stop = Turn(d) /\ \A c \in 0 .. d - 1 : Turn(c) \notin stops
  BY <1>3
<1>5. \A c \in 0 .. d - 1 : c \in Nat
  OBVIOUS
<1> HIDE DEF Turn
<1>6. \A c \in 0 .. d - 1 : table[Turn(c)] # free
  BY <1>2, <1>4, <1>5
<1>7. Reaches(table, home, stop, capacity, free)
  BY <1>4, <1>6 DEF Reaches, Turn, from
<1>8. ASSUME NEW slot \in stops, Reaches(table, home, slot, capacity, free)
      PROVE  stop = slot \/ table[stop] # free
  <2>1. PICK e \in 0 .. capacity - 1 :
            slot = Turn(e) /\ \A c \in 0 .. e - 1 : table[Turn(c)] # free
    BY <1>8 DEF Reaches, Turn, from
  <2>2. CASE e < d
    <3>1. e \in 0 .. d - 1
      BY <2>2
    <3>2. QED
      BY <1>4, <2>1, <3>1
  <2>3. CASE e = d
    BY <1>4, <2>1, <2>3
  <2>4. CASE d < e
    <3>1. d \in 0 .. e - 1
      BY <2>4
    <3>2. QED
      BY <1>4, <2>1, <3>1
  <2>5. QED
    BY <2>2, <2>3, <2>4
<1>9. QED
  BY <1>3, <1>7, <1>8 DEF stop, from

(* A slot that was reached still is when more slots are taken.             *)
LEMMA StillReached ==
  ASSUME NEW capacity \in Nat \ {0}, NEW home \in Nat, NEW table, NEW new, NEW free,
         \A s \in 0 .. capacity - 1 : table[s] # free => new[s] # free,
         NEW slot, Reaches(table, home, slot, capacity, free)
  PROVE  Reaches(new, home, slot, capacity, free)
<1> DEFINE from == home % capacity
           Turn(d) == (from + d) % capacity
<1>1. \A d \in Nat : Turn(d) \in 0 .. capacity - 1
  OBVIOUS
<1>3. PICK e \in 0 .. capacity - 1 :
          slot = Turn(e) /\ \A c \in 0 .. e - 1 : table[Turn(c)] # free
  BY DEF Reaches
<1>4. \A c \in 0 .. e - 1 : c \in Nat
  OBVIOUS
<1> HIDE DEF Turn
<1>5. \A c \in 0 .. e - 1 : new[Turn(c)] # free
  BY <1>1, <1>3, <1>4
<1>6. QED
  BY <1>3, <1>5 DEF Reaches, Turn

\* The table with an entry in a slot.
Took(new, table, taken, entry) ==
    /\ DOMAIN new = DOMAIN table
    /\ new[taken] = entry
    /\ \A s \in DOMAIN table : s # taken => new[s] = table[s]

LEMMA SomeUsed ==
  ASSUME NEW capacity \in Nat, NEW table, NEW free,
         DOMAIN table = 0 .. capacity - 1
  PROVE  /\ IsFiniteSet(Used(table, free))
         /\ Cardinality(Used(table, free)) \in Nat
<1>1. IsFiniteSet(0 .. capacity - 1)
  BY FS_Interval
<1>2. IsFiniteSet(Used(table, free))
  BY <1>1, FS_Subset DEF Used
<1>3. QED
  BY <1>2, FS_CardinalityType

(* One more slot is used.                                                  *)
LEMMA OneMoreUsed ==
  ASSUME NEW capacity \in Nat \ {0}, NEW table, NEW new, NEW free, NEW entry,
         DOMAIN table = 0 .. capacity - 1,
         NEW taken \in 0 .. capacity - 1, Took(new, table, taken, entry)
  PROVE  Cardinality(Used(new, free)) <= Cardinality(Used(table, free)) + 1
<1> DEFINE U == Used(table, free)
           V == Used(new, free)
<1>1. IsFiniteSet(0 .. capacity - 1)
  BY FS_Interval
<1>2. U \subseteq 0 .. capacity - 1 /\ V \subseteq U \cup {taken}
  BY DEF Used, Took
<1> HIDE DEF U, V
<1>3. IsFiniteSet(U) /\ IsFiniteSet(U \cup {taken})
  <2>1. U \subseteq 0 .. capacity - 1
    BY <1>2
  <2>2. IsFiniteSet(U)
    BY <1>1, <2>1, FS_Subset
  <2>3. QED
    BY <2>2, FS_AddElement
<1>4. Cardinality(U \cup {taken}) <= Cardinality(U) + 1 /\ Cardinality(U) \in Nat
  <2>1. Cardinality(U) \in Nat
    BY <1>3, FS_CardinalityType
  <2>2. Cardinality(U \cup {taken}) = Cardinality(U) \/ Cardinality(U \cup {taken}) = Cardinality(U) + 1
    BY <1>3, FS_AddElement, Zenon
  <2>3. QED
    BY <2>1, <2>2
<1>5. IsFiniteSet(V) /\ Cardinality(V) <= Cardinality(U \cup {taken})
  BY <1>2, <1>3, FS_Subset
<1>6. Cardinality(V) \in Nat /\ Cardinality(U \cup {taken}) \in Nat
  BY <1>3, <1>5, FS_CardinalityType
<1>7. QED
  BY <1>4, <1>5, <1>6 DEF U, V

(* While fewer slots are used than there are, one is free.                 *)
LEMMA SomeFree ==
  ASSUME NEW capacity \in Nat, NEW table, NEW free,
         DOMAIN table = 0 .. capacity - 1,
         Cardinality(Used(table, free)) < capacity
  PROVE  {s \in 0 .. capacity - 1 : table[s] = free} # {}
<1> SUFFICES ASSUME {s \in 0 .. capacity - 1 : table[s] = free} = {} PROVE FALSE
  OBVIOUS
<1>1. Used(table, free) = 0 .. capacity - 1
  BY DEF Used
<1>2. Cardinality(0 .. capacity - 1) = capacity
  BY FS_Interval
<1>3. QED
  BY <1>1, <1>2

(* PutIn takes a free slot that it reaches.                                *)
LEMMA PutsIn ==
  ASSUME NEW capacity \in Nat \ {0}, NEW table, NEW free, NEW entry, entry # free,
         NEW home \in Nat, DOMAIN table = 0 .. capacity - 1,
         Cardinality(Used(table, free)) < capacity
  PROVE  \E taken \in 0 .. capacity - 1 :
             /\ table[taken] = free
             /\ Reaches(table, home, taken, capacity, free)
             /\ Took(PutIn(table, entry, home, capacity, free), table, taken, entry)
<1> DEFINE stops == {s \in 0 .. capacity - 1 : table[s] = free}
           taken == FirstStop(home % capacity, capacity, stops)
<1>1. stops # {} /\ stops \subseteq 0 .. capacity - 1
  BY SomeFree
<1>2. taken \in stops /\ Reaches(table, home, taken, capacity, free)
  <2>1. \A slot : slot \in stops => slot \in 0 .. capacity - 1
    OBVIOUS
  <2>2. {s \in 0 .. capacity - 1 : table[s] = free} \subseteq stops
    OBVIOUS
  <2> HIDE DEF stops
  <2>3. QED
    BY <1>1, <2>2, ProbeFinds
<1>3. PutIn(table, entry, home, capacity, free) = [table EXCEPT ![taken] = entry]
  BY DEF PutIn
<1>4. taken \in 0 .. capacity - 1
  BY <1>2
<1> HIDE DEF taken
<1>5. Took(PutIn(table, entry, home, capacity, free), table, taken, entry)
  BY <1>3, <1>4 DEF Took
<1>6. QED
  BY <1>2, <1>4, <1>5

\* Which entries are put in.
Putting(entries, free) == {k \in 1 .. Len(entries) : entries[k] # free}

(* A new table has the entries that are not free, each reached from its    *)
(* home, and nothing else.                                                 *)
LEMMA RehashedHolds ==
  ASSUME NEW entries, NEW homes, NEW free, NEW capacity \in Nat \ {0},
         Len(entries) \in Nat,
         \A k \in 1 .. Len(entries) : entries[k] # free => homes[k] \in Nat,
         Cardinality(Putting(entries, free)) <= capacity
  PROVE  LET table == Rehashed(entries, homes, capacity, free)
         IN  /\ DOMAIN table = 0 .. capacity - 1
             /\ \A s \in 0 .. capacity - 1 :
                    \/ table[s] = free
                    \/ \E k \in 1 .. Len(entries) : table[s] = entries[k]
             /\ \A k \in 1 .. Len(entries) : entries[k] # free =>
                    \E s \in 0 .. capacity - 1 :
                        /\ table[s] = entries[k]
                        /\ Reaches(table, homes[k], s, capacity, free)
             /\ Cardinality(Used(table, free))
                    <= Cardinality(Putting(entries, free))
<1>0. PICK t : /\ OnTheWay(t, entries, homes, capacity, free)
               /\ Rehashed(entries, homes, capacity, free) = t[Len(entries)]
  BY RehashedIs, Zenon
<1>1. /\ t[0] = [s \in 0 .. capacity - 1 |-> free]
      /\ \A k \in 1 .. Len(entries) :
             t[k] = PutIn(t[k - 1], entries[k], homes[k], capacity, free)
  BY <1>0 DEF OnTheWay
<1> DEFINE N == Len(entries)
           Some(n) == {k \in 1 .. n : entries[k] # free}
           PutSoFar(n, table) ==
               /\ DOMAIN table = 0 .. capacity - 1
               /\ \A s \in 0 .. capacity - 1 :
                      table[s] = free \/ \E k \in 1 .. n : table[s] = entries[k]
               /\ \A k \in 1 .. n : entries[k] # free =>
                      \E s \in 0 .. capacity - 1 :
                          /\ table[s] = entries[k]
                          /\ Reaches(table, homes[k], s, capacity, free)
               /\ Cardinality(Used(table, free)) <= Cardinality(Some(n))
<1>2. PutSoFar(0, t[0])
  <2>1. Some(0) = {} /\ Used(t[0], free) = {}
    BY <1>1 DEF Used
  <2>2. Cardinality(Used(t[0], free)) <= Cardinality(Some(0))
    BY <2>1, FS_EmptySet
  <2>3. QED
    BY <1>1, <2>2
<1>3. ASSUME NEW n \in 1 .. N, PutSoFar(n - 1, t[n - 1]) PROVE PutSoFar(n, t[n])
  <2> DEFINE old == t[n - 1]
  <2>0. t[n] = PutIn(old, entries[n], homes[n], capacity, free)
    BY <1>1
  <2>a. \A k \in 1 .. n : k = n \/ k \in 1 .. n - 1
    OBVIOUS
  <2>b. \A k \in 1 .. n - 1 : k \in 1 .. n
    OBVIOUS
  <2>1. CASE entries[n] = free
    <3>1. t[n] = old
      BY <2>0, <2>1 DEF PutIn
    <3>2. Some(n) = Some(n - 1)
      BY <2>1, <2>a, <2>b
    <3>3. QED
      BY <1>3, <2>1, <2>a, <2>b, <3>1, <3>2
  <2>2. CASE entries[n] # free
    <3>1. Some(n) = Some(n - 1) \cup {n} /\ n \notin Some(n - 1)
      BY <2>2, <2>a, <2>b
    <3>2. IsFiniteSet(Some(n - 1)) /\ IsFiniteSet(Some(N)) /\ Some(n) \subseteq Some(N)
      <4>1. IsFiniteSet(1 .. n - 1) /\ IsFiniteSet(1 .. N)
        BY FS_Interval
      <4>2. Some(n - 1) \subseteq 1 .. n - 1 /\ Some(N) \subseteq 1 .. N
        OBVIOUS
      <4>3. Some(n) \subseteq Some(N)
        OBVIOUS
      <4>4. QED
        BY <4>1, <4>2, <4>3, FS_Subset
    <3>3. Cardinality(Some(n)) = Cardinality(Some(n - 1)) + 1
          /\ Cardinality(Some(n - 1)) \in Nat
      <4> HIDE DEF Some
      <4>1. QED
        BY <3>1, <3>2, FS_AddElement, FS_CardinalityType
    <3>4. Cardinality(Some(n)) <= Cardinality(Some(N)) /\ Cardinality(Some(N)) \in Nat
      <4> HIDE DEF Some
      <4>1. QED
        BY <3>2, FS_Subset, FS_CardinalityType
    <3>5. DOMAIN old = 0 .. capacity - 1 /\ homes[n] \in Nat
      BY <1>3, <2>2
    <3> DEFINE used == Cardinality(Used(old, free))
    <3>6. used \in Nat
      BY <3>5, SomeUsed
    <3>7. used < capacity
      <4>1. used <= Cardinality(Some(n - 1)) /\ Cardinality(Some(N)) <= capacity
        BY <1>3 DEF Putting
      <4> HIDE DEF Some, used
      <4>2. QED
        BY <3>3, <3>4, <3>6, <4>1
    <3>8. PICK taken \in 0 .. capacity - 1 :
              /\ old[taken] = free
              /\ Reaches(old, homes[n], taken, capacity, free)
              /\ Took(t[n], old, taken, entries[n])
      <4> HIDE DEF old
      <4>1. QED
        BY <2>0, <2>2, <3>5, <3>7, PutsIn DEF used
    <3>9. /\ DOMAIN t[n] = 0 .. capacity - 1
          /\ t[n][taken] = entries[n]
          /\ \A s \in 0 .. capacity - 1 : s # taken => t[n][s] = old[s]
      BY <3>5, <3>8 DEF Took
    <3>0. \A s \in 0 .. capacity - 1 : old[s] # free => t[n][s] # free
      BY <2>2, <3>9
    <3>10. \A s \in 0 .. capacity - 1 :
              t[n][s] = free \/ \E k \in 1 .. n : t[n][s] = entries[k]
      <4>1. \A s \in 0 .. capacity - 1 :
                old[s] = free \/ \E k \in 1 .. n - 1 : old[s] = entries[k]
        BY <1>3
      <4> HIDE DEF old
      <4>2. ASSUME NEW s \in 0 .. capacity - 1
            PROVE  t[n][s] = free \/ \E k \in 1 .. n : t[n][s] = entries[k]
        <5>1. n \in 1 .. n
          OBVIOUS
        <5>2. CASE s = taken
          BY <3>9, <5>1, <5>2
        <5>3. CASE s # taken
          BY <2>b, <3>9, <4>1, <5>3
        <5>4. QED
          BY <5>2, <5>3
      <4>3. QED
        BY <4>2
    <3>11. ASSUME NEW k \in 1 .. n, entries[k] # free
           PROVE  \E s \in 0 .. capacity - 1 :
                      t[n][s] = entries[k] /\ Reaches(t[n], homes[k], s, capacity, free)
      <4>1. CASE k = n
        <5>1. Reaches(t[n], homes[n], taken, capacity, free)
          <6> HIDE DEF old
          <6>1. QED
            BY <3>5, <3>8, <3>0, StillReached
        <5>2. QED
          BY <3>9, <4>1, <5>1
      <4>2. CASE k # n
        <5>1. PICK s \in 0 .. capacity - 1 :
                  old[s] = entries[k] /\ Reaches(old, homes[k], s, capacity, free)
          BY <1>3, <2>a, <3>11, <4>2
        <5>2. homes[k] \in Nat
          BY <3>11
        <5>3. Reaches(t[n], homes[k], s, capacity, free)
          <6> HIDE DEF old
          <6>1. QED
            BY <3>0, <5>1, <5>2, StillReached
        <5>4. s # taken
          BY <3>8, <3>11, <5>1
        <5>5. QED
          BY <3>9, <5>1, <5>3, <5>4
      <4>3. QED
        BY <4>1, <4>2
    <3>12. Cardinality(Used(t[n], free)) <= Cardinality(Some(n))
      <4>1. /\ Cardinality(Used(t[n], free)) <= used + 1
            /\ Cardinality(Used(t[n], free)) \in Nat
        BY <3>5, <3>8, <3>9, OneMoreUsed, SomeUsed
      <4>2. used <= Cardinality(Some(n - 1))
        BY <1>3
      <4> HIDE DEF used, Some
      <4>3. QED
        BY <3>3, <3>6, <4>1, <4>2
    <3>13. QED
      BY <3>9, <3>10, <3>11, <3>12
  <2>3. QED
    BY <2>1, <2>2
<1> DEFINE Fails == {n \in 0 .. N : ~PutSoFar(n, t[n])}
<1>4. ASSUME Fails # {} PROVE FALSE
  <2> HIDE DEF PutSoFar
  <2>1. Fails \subseteq Nat
    OBVIOUS
  <2>2. PICK n \in Fails : \A m \in Fails : n <= m
    <3> HIDE DEF Fails
    <3>1. QED
      BY <1>4, <2>1, LeastNumber
  <2>3. n \in 1 .. N
    BY <1>2, <2>2
  <2>4. n - 1 \in 0 .. N /\ n - 1 \notin Fails
    BY <2>2, <2>3
  <2>5. QED
    BY <1>3, <2>2, <2>3, <2>4
<1>5. PutSoFar(N, t[N])
  <2> HIDE DEF PutSoFar
  <2>1. QED
    BY <1>4
<1>6. QED
  BY <1>0, <1>1, <1>5 DEF Putting

----------------------------------------------------------------------------
(* Orders.                                                                 *)

(* Ordered has every element once, each before those after it in the order.*)
LEMMA OrderedSorts ==
  ASSUME NEW S, IsFiniteSet(S), NEW R, IsOrder(S, R)
  PROVE  /\ Cardinality(S) \in Nat
         /\ Ordered(S, R) \in [1 .. Cardinality(S) -> S]
         /\ \A a, b \in 1 .. Cardinality(S) :
                a < b => <<Ordered(S, R)[a], Ordered(S, R)[b]>> \in R
         /\ \A p \in S : \E a \in 1 .. Cardinality(S) : Ordered(S, R)[a] = p
<1> DEFINE n == Cardinality(S)
           f == Rank(S, R)
           put(place) == CHOOSE p \in S : place = f[p]
<1>1. n \in Nat
  BY FS_CardinalityType
<1>2. ASSUME NEW p \in S
      PROVE  f[p] = 1 + Cardinality(Beneath(S, R, p)) /\ f[p] \in 1 .. n
  <2>1. Beneath(S, R, p) \subseteq S \ {p}
    BY DEF Beneath
  <2>2. IsFiniteSet(S \ {p}) /\ Cardinality(S \ {p}) = n - 1
    BY FS_RemoveElement
  <2>3. IsFiniteSet(Beneath(S, R, p)) /\ Cardinality(Beneath(S, R, p)) <= n - 1
    BY <2>1, <2>2, FS_Subset
  <2>4. Cardinality(Beneath(S, R, p)) \in Nat
    BY <2>3, FS_CardinalityType
  <2>5. f[p] = 1 + Cardinality(Beneath(S, R, p))
    BY DEF Rank
  <2>6. QED
    BY <1>1, <2>3, <2>4, <2>5
<1>3. f \in [S -> 1 .. n]
  <2>1. f = [p \in S |-> f[p]]
    BY DEF Rank
  <2> HIDE DEF f, n
  <2>2. QED
    BY <1>2, <2>1
<1>4. ASSUME NEW p \in S, NEW q \in S, <<p, q>> \in R PROVE f[p] < f[q]
  BY <1>4, RankRises
<1>5. ASSUME NEW p \in S, NEW q \in S, f[p] = f[q] PROVE p = q
  <2>1. f[p] \in 1 .. n /\ f[q] \in 1 .. n
    BY <1>2
  <2> HIDE DEF f
  <2>2. SUFFICES ASSUME p # q PROVE FALSE
    OBVIOUS
  <2>3. f[p] < f[q] \/ f[q] < f[p]
    BY <1>4, <2>2 DEF IsOrder
  <2>4. QED
    BY <1>1, <1>5, <2>1, <2>3
<1>6. \A place \in 1 .. n : \E p \in S : f[p] = place
  <2> HIDE DEF f
  <2>1. f \in Injection(S, 1 .. n)
    BY <1>3, <1>5 DEF Injection, IsInjective
  <2>2. IsFiniteSet(1 .. n) /\ Cardinality(1 .. n) = n
    BY <1>1, FS_Interval
  <2>3. f \in Surjection(S, 1 .. n)
    BY <2>1, <2>2, FS_Injection
  <2>4. QED
    BY <2>3 DEF Surjection
<1>7. ASSUME NEW place \in 1 .. n PROVE put(place) \in S /\ f[put(place)] = place
  BY <1>6
<1>8. Ordered(S, R) = [place \in 1 .. n |-> put(place)]
  <2>1. \A p \in S : f[p] = 1 + Cardinality({q \in S : q # p /\ <<q, p>> \in R})
    BY <1>2 DEF Beneath
  <2> HIDE DEF f, n
  <2>2. ASSUME NEW place
        PROVE  (CHOOSE p \in S : place = 1 + Cardinality({q \in S : q # p /\ <<q, p>> \in R}))
               = put(place)
    BY <2>1
  <2> HIDE DEF put
  <2>3. QED
    BY <2>2, SMT DEF Ordered, n
<1> HIDE DEF f, put
<1>9. ASSUME NEW a \in 1 .. n, NEW b \in 1 .. n, a < b
      PROVE  <<put(a), put(b)>> \in R
  <2>1. put(a) # put(b)
    BY <1>7, <1>9
  <2>2. CASE <<put(b), put(a)>> \in R
    <3>1. f[put(b)] < f[put(a)]
      BY <1>4, <1>7, <2>2
    <3>2. QED
      BY <1>1, <1>7, <1>9, <3>1
  <2>3. QED
    BY <1>7, <2>1, <2>2 DEF IsOrder
<1>10. \A p \in S : \E a \in 1 .. n : put(a) = p
  BY <1>3, <1>5, <1>7
<1> HIDE DEF n
<1>11. /\ n \in Nat
       /\ Ordered(S, R) \in [1 .. n -> S]
       /\ \A a, b \in 1 .. n : a < b => <<Ordered(S, R)[a], Ordered(S, R)[b]>> \in R
       /\ \A p \in S : \E a \in 1 .. n : Ordered(S, R)[a] = p
  BY <1>1, <1>7, <1>8, <1>9, <1>10
<1>12. QED
  BY <1>11 DEF n

----------------------------------------------------------------------------
(* Words.                                                                  *)

LEMMA WindowsAreWords ==
  ASSUME NEW name \in Names
  PROVE  Windows(Lower[name]) \in Seq(Words)
<1> DEFINE text == Lower[name]
           w == Windows(text)
           n == Len(text) - 2
<1>1. Len(text) \in Nat
  BY NamesAssumption
<1>2. \A t \in DOMAIN w : w[t] \in Words
  BY DEF Words, Range
<1>3. CASE Len(text) \in 1 .. 2
  <2>1. w = <<text>>
    BY <1>3 DEF Windows, TRIGRAM_LEN
  <2>2. w[1] \in Words
    BY <1>2, <2>1
  <2>3. QED
    BY <2>1, <2>2
<1>4. CASE Len(text) \notin 1 .. 2
  <2> DEFINE cut(t) == SubSeq(text, t, t + TRIGRAM_LEN - 1)
  <2>1. w = [t \in 1 .. n |-> cut(t)]
    BY <1>1, <1>4 DEF Windows, TRIGRAM_LEN
  <2> HIDE DEF cut, w, text
  <2>2. w = [t \in 1 .. n |-> w[t]] /\ DOMAIN w = 1 .. n
    BY <2>1
  <2>3. n \in Nat \/ (1 .. n = {} /\ 1 .. 0 = {})
    BY <1>1, <1>4
  <2>4. \E m \in Nat : w = [t \in 1 .. m |-> w[t]] /\ DOMAIN w = 1 .. m
    <3> HIDE DEF n
    <3>1. 0 \in Nat
      OBVIOUS
    <3>2. CASE n \in Nat
      BY <2>2, <3>2
    <3>3. CASE 1 .. n = {} /\ 1 .. 0 = {}
      BY <2>2, <3>1, <3>3, Zenon
    <3>4. QED
      BY <2>3, <3>2, <3>3
  <2>5. PICK m \in Nat : w = [t \in 1 .. m |-> w[t]] /\ DOMAIN w = 1 .. m
    BY <2>4
  <2>6. w \in [1 .. m -> Words]
    BY <1>2, <2>5
  <2>7. w \in Seq(Words)
    BY <2>6, SeqDef
  <2>8. QED
    BY <2>7 DEF w, text
<1>5. QED
  BY <1>3, <1>4

LEMMA KeysTyped ==
  /\ \A w \in Words : KeyOf(HashOf[w]) \in Nat \X Nat
  /\ \A hash \in Hashes : KeyOf(hash) \in Nat \X Nat
  /\ \A hash : KeyOf(KeyOf(hash)) = KeyOf(hash)
BY WordsAssumption, HashesAssumption DEF KeyOf

----------------------------------------------------------------------------
(* The two tables of the builder.                                          *)

SlotCount(table) == Cardinality(DOMAIN table)

IsTable(table) ==
    SlotCount(table) \in Nat \ {0} /\ DOMAIN table = 0 .. SlotCount(table) - 1

\* The hashes of the buckets.
KeysInv(keys) ==
    /\ keys \in Seq(Nat \X Nat)
    /\ \A b, c \in 1 .. Len(keys) : keys[b] = keys[c] => b = c

\* A table leads to every bucket from the home of its hash on.
SlotsInv(table, keys) ==
    /\ IsTable(table)
    /\ \A s \in DOMAIN table : table[s] \in 0 .. Len(keys)
    /\ \A b \in 1 .. Len(keys) :
           \E s \in DOMAIN table :
               table[s] = b /\ Reaches(table, keys[b][1], s, SlotCount(table), 0)
    /\ Cardinality(Used(table, 0)) <= Len(keys)

\* What a slot of the other table holds.
CharsTo(keys, c) ==
    /\ c.letters \in Words
    /\ c.bucket \in 1 .. Len(keys)
    /\ keys[c.bucket] = KeyOf(HashOf[c.letters])

CharsInv(table, keys) ==
    /\ IsTable(table)
    /\ \A s \in DOMAIN table : table[s] = FreeChar \/ CharsTo(keys, table[s])

LEMMA CountTo ==
  ASSUME NEW n \in Nat
  PROVE  IsFiniteSet(1 .. n) /\ Cardinality(1 .. n) = n
BY FS_Interval

LEMMA TableSize ==
  ASSUME NEW n \in Nat \ {0}, NEW table, DOMAIN table = 0 .. n - 1
  PROVE  IsTable(table) /\ SlotCount(table) = n
<1>1. Cardinality(0 .. n - 1) = n
  BY FS_Interval
<1>2. QED
  BY <1>1 DEF IsTable, SlotCount

(* A hash is found if it has a bucket, and a free slot if not.             *)
LEMMA HashFound ==
  ASSUME NEW table, NEW keys, KeysInv(keys), SlotsInv(table, keys),
         Len(keys) < SlotCount(table), NEW key \in Nat \X Nat
  PROVE  LET slot == HashSlot(key, table, keys)
         IN  /\ slot \in DOMAIN table
             /\ table[slot] # 0 =>
                    table[slot] \in 1 .. Len(keys) /\ keys[table[slot]] = key
             /\ table[slot] = 0 =>
                    /\ \A b \in 1 .. Len(keys) : keys[b] # key
                    /\ Reaches(table, key[1], slot, SlotCount(table), 0)
<1> DEFINE n == SlotCount(table)
           stops == {s \in DOMAIN table : table[s] = 0 \/ keys[table[s]] = key}
           slot == FirstStop(key[1] % n, n, stops)
<1>1. HashSlot(key, table, keys) = slot
  BY DEF HashSlot, SlotCount
<1>2. n \in Nat \ {0} /\ DOMAIN table = 0 .. n - 1 /\ Len(keys) \in Nat
  BY DEF SlotsInv, IsTable, KeysInv
<1>3. key[1] \in Nat
  OBVIOUS
<1>4. {s \in 0 .. n - 1 : table[s] = 0} # {}
  <2>1. Cardinality(Used(table, 0)) <= Len(keys) /\ Cardinality(Used(table, 0)) \in Nat
    BY <1>2, SomeUsed DEF SlotsInv
  <2> HIDE DEF n
  <2>2. Cardinality(Used(table, 0)) < n
    BY <1>2, <2>1 DEF n
  <2>3. QED
    BY <1>2, <2>2, SomeFree
<1>5. /\ stops \subseteq 0 .. n - 1 /\ stops # {}
      /\ {s \in 0 .. n - 1 : table[s] = 0} \subseteq stops
  BY <1>2, <1>4
<1> HIDE DEF n
<1>6. /\ slot \in stops
      /\ Reaches(table, key[1], slot, n, 0)
      /\ \A s \in stops :
             Reaches(table, key[1], s, n, 0) => slot = s \/ table[slot] # 0
  <2> HIDE DEF stops
  <2>1. QED
    BY <1>2, <1>3, <1>5, ProbeFinds
<1> HIDE DEF slot
<1>7. slot \in DOMAIN table /\ (table[slot] # 0 => keys[table[slot]] = key)
  BY <1>6
<1>8. ASSUME table[slot] = 0, NEW b \in 1 .. Len(keys), keys[b] = key PROVE FALSE
  <2>1. PICK s \in DOMAIN table : table[s] = b /\ Reaches(table, key[1], s, n, 0)
    BY <1>8 DEF SlotsInv, n
  <2>2. s \in stops
    BY <1>8, <2>1
  <2>3. slot = s
    BY <1>6, <1>8, <2>1, <2>2
  <2>4. QED
    BY <1>8, <2>1, <2>3
<1>9. table[slot] # 0 => table[slot] \in 1 .. Len(keys)
  BY <1>2, <1>7 DEF SlotsInv
<1>10. QED
  BY <1>1, <1>6, <1>7, <1>8, <1>9 DEF n

LEMMA KeyAppended ==
  ASSUME NEW keys, KeysInv(keys), NEW key \in Nat \X Nat,
         \A b \in 1 .. Len(keys) : keys[b] # key
  PROVE  LET more == Append(keys, key)
         IN  /\ KeysInv(more)
             /\ Len(more) = Len(keys) + 1 /\ Len(keys) \in Nat
             /\ more[Len(keys) + 1] = key
             /\ \A b \in 1 .. Len(keys) : more[b] = keys[b]
<1> DEFINE more == Append(keys, key)
<1>1. /\ more \in Seq(Nat \X Nat)
      /\ Len(more) = Len(keys) + 1 /\ Len(keys) \in Nat
      /\ more[Len(keys) + 1] = key
      /\ \A b \in 1 .. Len(keys) : more[b] = keys[b]
  BY DEF KeysInv
<1> HIDE DEF more
<1>2. \A b \in 1 .. Len(more) : b = Len(keys) + 1 \/ b \in 1 .. Len(keys)
  BY <1>1
<1>3. ASSUME NEW b \in 1 .. Len(more), NEW c \in 1 .. Len(more), more[b] = more[c]
      PROVE  b = c
  <2>1. b \in 1 .. Len(keys) /\ c \in 1 .. Len(keys) => b = c
    BY <1>1, <1>3 DEF KeysInv
  <2>2. QED
    BY <1>1, <1>2, <1>3, <2>1
<1>4. QED
  BY <1>1, <1>3 DEF more, KeysInv

(* A new bucket in the free slot that its hash leads to.                   *)
LEMMA BucketPut ==
  ASSUME NEW table, NEW keys, KeysInv(keys), SlotsInv(table, keys),
         NEW key \in Nat \X Nat, \A b \in 1 .. Len(keys) : keys[b] # key,
         NEW taken \in DOMAIN table, table[taken] = 0,
         Reaches(table, key[1], taken, SlotCount(table), 0)
  PROVE  LET filled == [table EXCEPT ![taken] = Len(keys) + 1]
         IN  /\ SlotsInv(filled, Append(keys, key))
             /\ SlotCount(filled) = SlotCount(table)
<1> DEFINE n == SlotCount(table)
           new == Len(keys) + 1
           filled == [table EXCEPT ![taken] = new]
           more == Append(keys, key)
<1>1. n \in Nat \ {0} /\ DOMAIN table = 0 .. n - 1 /\ Len(keys) \in Nat
  BY DEF SlotsInv, IsTable, KeysInv
<1>2. /\ Len(more) = new
      /\ more[new] = key
      /\ \A b \in 1 .. Len(keys) : more[b] = keys[b]
  BY KeyAppended
<1>3. Took(filled, table, taken, new)
  BY DEF Took
<1> HIDE DEF filled, more
<1>4. DOMAIN filled = 0 .. n - 1
  BY <1>1, <1>3 DEF Took
<1>5. IsTable(filled) /\ SlotCount(filled) = n
  BY <1>1, <1>4, TableSize
<1>6. \A s \in DOMAIN filled : filled[s] \in 0 .. Len(more)
  <2>1. \A s \in DOMAIN table : table[s] \in 0 .. Len(keys)
    BY DEF SlotsInv
  <2> HIDE DEF n
  <2>2. ASSUME NEW s \in DOMAIN table PROVE filled[s] \in 0 .. Len(more)
    <3>1. CASE s = taken
      BY <1>1, <1>2, <1>3, <3>1 DEF Took
    <3>2. CASE s # taken
      BY <1>1, <1>2, <1>3, <2>1, <3>2 DEF Took
    <3>3. QED
      BY <3>1, <3>2
  <2>3. QED
    BY <1>3, <2>2 DEF Took
<1>7. \A s \in 0 .. n - 1 : table[s] # 0 => filled[s] # 0
  BY <1>1, <1>3 DEF Took
<1> HIDE DEF n
<1>8. ASSUME NEW b \in 1 .. Len(more)
      PROVE  \E s \in DOMAIN filled :
                 filled[s] = b /\ Reaches(filled, more[b][1], s, n, 0)
  <2>1. CASE b = new
    <3>1. key[1] \in Nat
      OBVIOUS
    <3>2. Reaches(filled, key[1], taken, n, 0)
      BY <1>1, <1>7, <3>1, StillReached DEF n
    <3>3. QED
      BY <1>2, <1>3, <2>1, <3>2 DEF Took
  <2>2. CASE b # new
    <3>1. b \in 1 .. Len(keys)
      BY <1>1, <1>2, <2>2
    <3>2. PICK s \in DOMAIN table : table[s] = b /\ Reaches(table, keys[b][1], s, n, 0)
      BY <3>1 DEF SlotsInv, n
    <3>3. keys[b][1] \in Nat
      BY <3>1 DEF KeysInv
    <3>4. Reaches(filled, keys[b][1], s, n, 0)
      BY <1>1, <1>7, <3>2, <3>3, StillReached
    <3>5. s # taken
      BY <3>1, <3>2
    <3>6. QED
      BY <1>2, <1>3, <3>1, <3>2, <3>4, <3>5 DEF Took
  <2>3. QED
    BY <2>1, <2>2
<1>9. Cardinality(Used(filled, 0)) <= Len(more)
  <2>1. Cardinality(Used(filled, 0)) <= Cardinality(Used(table, 0)) + 1
    BY <1>1, <1>3, OneMoreUsed
  <2>2. Cardinality(Used(table, 0)) <= Len(keys)
    BY DEF SlotsInv
  <2>3. Cardinality(Used(table, 0)) \in Nat /\ Cardinality(Used(filled, 0)) \in Nat
    BY <1>1, <1>4, SomeUsed
  <2>4. QED
    BY <1>1, <1>2, <2>1, <2>2, <2>3
<1>10. SlotsInv(filled, more)
  BY <1>5, <1>6, <1>8, <1>9 DEF SlotsInv
<1>11. QED
  BY <1>5, <1>10 DEF filled, more, n

(* Growth of the slots loses no bucket.                                    *)
LEMMA GrownHolds ==
  ASSUME NEW table, NEW keys, KeysInv(keys), IsTable(table),
         Len(keys) <= 2 * SlotCount(table)
  PROVE  /\ SlotsInv(Grown(table, keys), keys)
         /\ SlotCount(Grown(table, keys)) = 2 * SlotCount(table)
<1> DEFINE n == 2 * SlotCount(table)
           entries == [b \in 1 .. Len(keys) |-> b]
           homes == [b \in 1 .. Len(keys) |-> keys[b][1]]
           new == Rehashed(entries, homes, n, 0)
           put == Putting(entries, 0)
<1>1. Grown(table, keys) = new
  BY DEF Grown, SlotCount
<1>2. Len(keys) \in Nat /\ n \in Nat \ {0}
  BY DEF KeysInv, IsTable
<1>3. Len(entries) = Len(keys) /\ \A k \in 1 .. Len(keys) : entries[k] = k
  BY <1>2
<1>4. \A k \in 1 .. Len(keys) : homes[k] = keys[k][1] /\ homes[k] \in Nat
  BY DEF KeysInv
<1> HIDE DEF n, entries, homes
<1>5. put = 1 .. Len(keys)
  BY <1>2, <1>3 DEF Putting
<1>6. Cardinality(put) = Len(keys)
  <2>1. Cardinality(1 .. Len(keys)) = Len(keys)
    BY <1>2, CountTo
  <2>2. QED
    BY <1>5, <2>1
<1>7. /\ DOMAIN new = 0 .. n - 1
      /\ \A s \in 0 .. n - 1 :
             new[s] = 0 \/ \E k \in 1 .. Len(entries) : new[s] = entries[k]
      /\ \A k \in 1 .. Len(entries) : entries[k] # 0 =>
             \E s \in 0 .. n - 1 :
                 new[s] = entries[k] /\ Reaches(new, homes[k], s, n, 0)
      /\ Cardinality(Used(new, 0)) <= Cardinality(put)
  <2>1. Len(entries) \in Nat /\ Cardinality(put) <= n
    BY <1>2, <1>3, <1>6 DEF n
  <2>2. \A k \in 1 .. Len(entries) : entries[k] # 0 => homes[k] \in Nat
    BY <1>3, <1>4
  <2> HIDE DEF put
  <2>3. QED
    BY <1>2, <2>1, <2>2, RehashedHolds DEF put
<1> HIDE DEF new, put
<1>8. IsTable(new) /\ SlotCount(new) = n
  BY <1>2, <1>7, TableSize
<1>9. \A s \in DOMAIN new : new[s] \in 0 .. Len(keys)
  BY <1>2, <1>3, <1>7
<1>10. ASSUME NEW b \in 1 .. Len(keys)
       PROVE  \E s \in DOMAIN new : new[s] = b /\ Reaches(new, keys[b][1], s, n, 0)
  <2>1. entries[b] = b /\ b # 0 /\ homes[b] = keys[b][1] /\ b \in 1 .. Len(entries)
    BY <1>2, <1>3, <1>4
  <2>2. QED
    BY <1>7, <2>1
<1>11. SlotsInv(new, keys)
  BY <1>6, <1>7, <1>8, <1>9, <1>10 DEF SlotsInv
<1>12. QED
  BY <1>1, <1>8, <1>11 DEF n

(* Letters are found if they were seen, and a free slot if not.            *)
LEMMA CharsFound ==
  ASSUME NEW table, NEW keys, CharsInv(table, keys),
         Cardinality(Used(table, FreeChar)) < SlotCount(table), NEW letters \in Words
  PROVE  LET slot == CharSlot(letters, table)
         IN  /\ slot \in DOMAIN table
             /\ table[slot].bucket # 0 =>
                    CharsTo(keys, table[slot]) /\ table[slot].letters = letters
             /\ table[slot].bucket = 0 => table[slot] = FreeChar
<1> DEFINE n == SlotCount(table)
           stops == {s \in DOMAIN table :
                         table[s].bucket = 0 \/ table[s].letters = letters}
           slot == FirstStop(CharHome[letters] % n, n, stops)
<1>1. CharSlot(letters, table) = slot
  BY DEF CharSlot, SlotCount
<1>2. n \in Nat \ {0} /\ DOMAIN table = 0 .. n - 1
  BY DEF CharsInv, IsTable
<1>3. CharHome[letters] \in Nat
  BY WordsAssumption
<1>4. \A s \in DOMAIN table : table[s] = FreeChar \/ CharsTo(keys, table[s])
  BY DEF CharsInv
<1>5. {s \in 0 .. n - 1 : table[s] = FreeChar} # {}
  BY <1>2, SomeFree
<1>6. /\ stops \subseteq 0 .. n - 1 /\ stops # {}
      /\ {s \in 0 .. n - 1 : table[s] = FreeChar} \subseteq stops
  BY <1>2, <1>5 DEF FreeChar
<1> HIDE DEF n
<1>7. slot \in stops
  <2> HIDE DEF stops
  <2>1. QED
    BY <1>2, <1>3, <1>6, ProbeFinds
<1> HIDE DEF slot
<1>8. slot \in DOMAIN table /\ (table[slot].bucket = 0 \/ table[slot].letters = letters)
  BY <1>7
<1>9. ASSUME table[slot].bucket # 0 PROVE CharsTo(keys, table[slot])
  BY <1>4, <1>8, <1>9 DEF FreeChar
<1>10. ASSUME table[slot].bucket = 0 PROVE table[slot] = FreeChar
  BY <1>4, <1>8, <1>10 DEF CharsTo
<1>11. QED
  BY <1>1, <1>8, <1>9, <1>10

(* Only the entries that are in use count.                                 *)
LEMMA TakenIsUsed ==
  ASSUME NEW table, NEW keys, CharsInv(table, keys)
  PROVE  Taken(table) = Cardinality(Used(table, FreeChar))
<1>1. \A s \in DOMAIN table : table[s].bucket # 0 <=> table[s] # FreeChar
  BY DEF CharsInv, CharsTo, FreeChar
<1>2. {s \in DOMAIN table : table[s].bucket # 0} = Used(table, FreeChar)
  BY <1>1 DEF Used
<1>3. QED
  BY <1>2 DEF Taken

(* More buckets leave what the letters lead to.                            *)
LEMMA CharsStay ==
  ASSUME NEW table, NEW keys, NEW more, CharsInv(table, keys),
         Len(keys) \in Nat, Len(more) \in Nat, Len(keys) <= Len(more),
         \A b \in 1 .. Len(keys) : more[b] = keys[b]
  PROVE  CharsInv(table, more)
<1>1. ASSUME NEW c, CharsTo(keys, c) PROVE CharsTo(more, c)
  BY <1>1 DEF CharsTo
<1>2. QED
  BY <1>1 DEF CharsInv

LEMMA CharsPut ==
  ASSUME NEW table, NEW keys, CharsInv(table, keys), NEW taken \in DOMAIN table,
         NEW c, CharsTo(keys, c)
  PROVE  LET filled == [table EXCEPT ![taken] = c]
         IN  /\ CharsInv(filled, keys)
             /\ SlotCount(filled) = SlotCount(table)
             /\ Cardinality(Used(filled, FreeChar))
                    <= Cardinality(Used(table, FreeChar)) + 1
<1> DEFINE n == SlotCount(table)
           filled == [table EXCEPT ![taken] = c]
<1>1. n \in Nat \ {0} /\ DOMAIN table = 0 .. n - 1
  BY DEF CharsInv, IsTable
<1>2. Took(filled, table, taken, c)
  BY DEF Took
<1> HIDE DEF filled
<1>3. IsTable(filled) /\ SlotCount(filled) = n
  BY <1>1, <1>2, TableSize DEF Took
<1>4. \A s \in DOMAIN filled : filled[s] = FreeChar \/ CharsTo(keys, filled[s])
  BY <1>2 DEF Took, CharsInv
<1>5. Cardinality(Used(filled, FreeChar)) <= Cardinality(Used(table, FreeChar)) + 1
  BY <1>1, <1>2, OneMoreUsed
<1>6. CharsInv(filled, keys)
  BY <1>3, <1>4 DEF CharsInv
<1>7. QED
  BY <1>3, <1>5, <1>6 DEF filled, n

(* Growth of the other table: the letters lead where they led.             *)
LEMMA GrownCharsHold ==
  ASSUME NEW table, NEW keys, CharsInv(table, keys)
  PROVE  /\ CharsInv(GrownChars(table), keys)
         /\ SlotCount(GrownChars(table)) = 2 * SlotCount(table)
         /\ Cardinality(Used(GrownChars(table), FreeChar))
                <= Cardinality(Used(table, FreeChar))
<1> DEFINE m == SlotCount(table)
           n == 2 * m
           old == [k \in 1 .. m |-> table[k - 1]]
           homes == [k \in 1 .. m |-> IF old[k] = FreeChar THEN 0
                                      ELSE CharHome[old[k].letters]]
           new == Rehashed(old, homes, n, FreeChar)
           put == Putting(old, FreeChar)
           used == Used(table, FreeChar)
<1>1. m \in Nat \ {0} /\ DOMAIN table = 0 .. m - 1
  BY DEF CharsInv, IsTable
<1>2. Len(old) = m /\ DOMAIN old = 1 .. m /\ \A k \in 1 .. m : old[k] = table[k - 1]
  BY <1>1
<1>3. GrownChars(table) = new
  BY <1>2 DEF GrownChars, SlotCount
<1>4. \A k \in 1 .. m : old[k] = FreeChar \/ CharsTo(keys, old[k])
  BY <1>1, <1>2 DEF CharsInv
<1>5. \A k \in 1 .. m : old[k] # FreeChar => homes[k] \in Nat
  BY <1>4, WordsAssumption DEF CharsTo
<1>6. IsFiniteSet(used) /\ Cardinality(put) = Cardinality(used)
  <2> DEFINE f == [s \in used |-> s + 1]
  <2>1. IsFiniteSet(used) /\ used \subseteq 0 .. m - 1
    BY <1>1, SomeUsed DEF Used
  <2>2. \A s \in 0 .. m - 1 : s + 1 \in 1 .. m /\ (s + 1) - 1 = s
    BY <1>1
  <2>3. \A k \in 1 .. m : k - 1 \in 0 .. m - 1 /\ (k - 1) + 1 = k
    BY <1>1
  <2>4. \A s \in used : s + 1 \in put
    BY <1>1, <1>2, <2>1, <2>2 DEF Putting, Used
  <2>5. \A k \in put : k - 1 \in used /\ (k - 1) + 1 = k
    BY <1>1, <1>2, <2>3 DEF Putting, Used
  <2> HIDE DEF used, put
  <2>6. f \in [used -> put] /\ \A s \in used : f[s] = s + 1
    BY <2>4
  <2>7. \A a, b \in used : f[a] = f[b] => a = b
    BY <2>1, <2>2, <2>6
  <2>8. \A k \in put : \E s \in used : f[s] = k
    BY <2>5, <2>6
  <2> HIDE DEF f
  <2>9. f \in Bijection(used, put)
    BY <2>6, <2>7, <2>8 DEF Bijection, Injection, Surjection, IsInjective
  <2>10. ExistsBijection(used, put)
    BY <2>9 DEF ExistsBijection
  <2>11. QED
    BY <2>1, <2>10, FS_Bijection
<1>7. Cardinality(put) \in Nat /\ Cardinality(put) <= n /\ n \in Nat \ {0}
  <2>1. Cardinality(used) \in Nat
    BY <1>6, FS_CardinalityType
  <2>2. used \subseteq 0 .. m - 1 /\ IsFiniteSet(0 .. m - 1)
    BY <1>1, FS_Interval DEF Used
  <2>3. Cardinality(0 .. m - 1) = m
    BY <1>1, FS_Interval
  <2> HIDE DEF used, put, m
  <2>4. Cardinality(used) <= m
    BY <2>2, <2>3, FS_Subset
  <2>5. QED
    BY <1>1, <1>6, <2>1, <2>4
<1> HIDE DEF old, homes, n
<1>8. /\ DOMAIN new = 0 .. n - 1
      /\ \A s \in 0 .. n - 1 :
             new[s] = FreeChar \/ \E k \in 1 .. Len(old) : new[s] = old[k]
      /\ Cardinality(Used(new, FreeChar)) <= Cardinality(put)
  <2> HIDE DEF put
  <2>1. QED
    BY <1>1, <1>2, <1>5, <1>7, RehashedHolds DEF put
<1> HIDE DEF new, put, used
<1>9. IsTable(new) /\ SlotCount(new) = n
  BY <1>7, <1>8, TableSize
<1>10. \A s \in DOMAIN new : new[s] = FreeChar \/ CharsTo(keys, new[s])
  BY <1>2, <1>4, <1>8
<1>11. CharsInv(new, keys)
  BY <1>9, <1>10 DEF CharsInv
<1>12. QED
  BY <1>3, <1>6, <1>8, <1>9, <1>11 DEF n, m, used

----------------------------------------------------------------------------
(* The inductive invariant.                                                *)

\* When an entity was given a hash.
Givers(log, e, key) == {i \in DOMAIN log : log[i].entity = e /\ key \in log[i].hashes}

\* One was given it before the other.
Earlier(log, d, e, key) ==
    \E i \in Givers(log, d, key) : \A j \in Givers(log, e, key) : i < j

Admissions == [entity : Entities, hashes : SUBSET (Nat \X Nat)]
Postings(keys) == [bucket : 1 .. Len(keys), entity : Entities]

\* Both tables lead to what they hold and are at most half full.
BuilderInv ==
    /\ KeysInv(hashes)
    /\ SlotsInv(slots, hashes)
    /\ 2 * Len(hashes) <= SlotCount(slots)
    /\ CharsInv(charSlots, hashes)
    /\ 2 * Cardinality(Used(charSlots, FreeChar)) <= SlotCount(charSlots)

\* bucketLast holds an entity that was posted to the bucket, or nothing.
PostsInv ==
    /\ posts \in Seq(Postings(hashes))
    /\ last \in Seq(Nat)
    /\ Len(last) = Len(hashes)
    /\ \A b \in 1 .. Len(hashes) : last[b] # 0 =>
           \E p \in DOMAIN posts : posts[p].bucket = b /\ posts[p].entity = last[b] - 1

\* What was posted is what was added, but for the keys `left` of the last
\* entry, and an entity that comes to a bucket later was added later.
PostedIs(log, left, ps, keys) ==
    /\ \A p \in DOMAIN ps : Givers(log, ps[p].entity, keys[ps[p].bucket]) # {}
    /\ \A i \in DOMAIN log : \A key \in log[i].hashes :
           \/ \E p \in DOMAIN ps :
                  ps[p].entity = log[i].entity /\ keys[ps[p].bucket] = key
           \/ i = Len(log) /\ key \in left
    /\ \A p, q \in DOMAIN ps :
           /\ p < q
           /\ ps[p].bucket = ps[q].bucket
           /\ ps[p].entity # ps[q].entity
           /\ \A r \in 1 .. q - 1 : ps[r] # ps[q]
           => Earlier(log, ps[p].entity, ps[q].entity, keys[ps[q].bucket])

PendingKeys == {KeyOf(HashOf[w]) : w \in Range(pending)}

\* While the letters of an entry are pending, it is the last one added.
HistoryInv ==
    /\ added \in Seq(Admissions)
    /\ pending \in Seq(Words)
    /\ pending # <<>> =>
           /\ added # <<>>
           /\ entity = added[Len(added)].entity
           /\ PendingKeys \subseteq added[Len(added)].hashes
    /\ PostedIs(added, PendingKeys, posts, hashes)

\* A list of the entities that were given a key, in the order they were.
ListFor(ids, key, log) ==
    /\ ids \in Seq(Entities)
    /\ \A e \in Entities : e \in Range(ids) <=> Givers(log, e, key) # {}
    /\ \A i, j \in DOMAIN ids : i < j => Earlier(log, ids[i], ids[j], key)

\* The lists of a finished index.
ListsInv ==
    mode # "building" =>
        /\ pending = <<>>
        /\ DOMAIN lists = 1 .. Len(hashes)
        /\ \A b \in 1 .. Len(hashes) : ListFor(lists[b], hashes[b], added)
        /\ \A i \in DOMAIN added : \A key \in added[i].hashes :
               \E b \in 1 .. Len(hashes) : hashes[b] = key

\* What the scoring loops have seen of a list, and where they saw an entity.
Seen(t) ==
    {query.lists[t][i] : i \in {j \in DOMAIN query.lists[t] : t < step \/ (t = step /\ j < at)}}
Sightings(e) == {t \in DOMAIN query.lists : e \in Seen(t)}

\* The order of the candidates of one score.
Comes(d, e) ==
    \/ FirstHit(d) < FirstHit(e)
    \/ FirstHit(d) = FirstHit(e) /\ Earlier(added, d, e, asked[FirstHit(e)])

\* What queries leave to those after them.
ScratchInv ==
    /\ scratch \in {"none", "dense", "sparse"}
    /\ generationOf \in 0 .. LastGeneration
    /\ mode = "building" => scratch = "none"
    /\ mode # "scoring" => bits = {}
    /\ mode \in {"building", "ready"} => touched = <<>>
    /\ mode = "scoring" => scratch # "none"
    /\ touched \in Seq(Entities)
    /\ Range(touched) \subseteq DOMAIN marks
    /\ scratch = "dense" =>
           /\ DOMAIN marks = Ids
           /\ \A e \in Ids : marks[e].generation \in 0 .. generationOf

\* The lists a search goes through, and where it is in them.
QueryInv ==
    mode = "scoring" =>
        /\ Len(asked) \in Nat /\ Len(asked) >= 2
        /\ DOMAIN asked = 1 .. Len(asked)
        /\ DOMAIN query.lists = 1 .. Len(asked)
        /\ Len(query.lists) = Len(asked)
        /\ \A t \in 1 .. Len(asked) :
               /\ ListFor(query.lists[t], asked[t], added)
               /\ Range(query.lists[t]) \subseteq Ids
        /\ query.ratio \in Ratios
        /\ query.limit \in Limits
        /\ step \in 1 .. Len(asked) + 1
        /\ at \in Nat \ {0}
        /\ step <= Len(asked) => at <= Len(query.lists[step]) + 1

\* The candidates so far are who the first two lists named, in the order they
\* came, and a score is the number of lists an entity was seen in.
ScoresInv ==
    mode = "scoring" =>
        /\ Range(touched) = Seen(1) \cup Seen(2)
        /\ \A i, j \in DOMAIN touched : i < j => Comes(touched[i], touched[j])
        /\ \A e \in Range(touched) :
               /\ marks[e].generation = generationOf
               /\ marks[e].score = Cardinality(Sightings(e))
               /\ marks[e].score <= maxScore
        /\ maxScore \in Nat
        /\ maxScore = 0 \/ \E e \in Range(touched) : marks[e].score = maxScore
        /\ scratch = "dense" =>
               /\ bits = Range(touched)
               /\ \A e \in Ids \ Range(touched) : marks[e].generation # generationOf
        /\ scratch = "sparse" => bits = {} /\ DOMAIN marks = Range(touched)

TrigramInv ==
    /\ mode \in {"building", "ready", "scoring", "answered"}
    /\ BuilderInv
    /\ PostsInv
    /\ HistoryInv
    /\ ListsInv
    /\ ScratchInv
    /\ QueryInv
    /\ ScoresInv
    /\ SearchIsExact

----------------------------------------------------------------------------
(* Posting.                                                                *)

\* The buckets only become more.
MoreKeys(new, old) ==
    /\ Len(old) \in Nat /\ Len(new) \in Nat
    /\ Len(old) <= Len(new)
    /\ \A b \in 1 .. Len(old) : new[b] = old[b]

Posting(b, e) == [bucket |-> b, entity |-> e]

\* The posting is there, or is put at the end.
Posts(new, old, p) ==
    \/ new = old /\ \E q \in DOMAIN old : old[q] = p
    \/ new = Append(old, p)

LEMMA EntitiesAreNumbers == \A e \in Entities : e \in Nat /\ e < EntityWidth
BY EntitiesAssumption

LEMMA PostingsTyped ==
  ASSUME NEW ps, NEW keys, ps \in Seq(Postings(keys)), NEW p \in DOMAIN ps
  PROVE  /\ ps[p].bucket \in 1 .. Len(keys)
         /\ ps[p].entity \in Entities
         /\ ps[p] = Posting(ps[p].bucket, ps[p].entity)
<1>1. ps[p] \in Postings(keys)
  OBVIOUS
<1>2. QED
  BY <1>1 DEF Postings, Posting

(* A posting is passed over only if it is there: an entity that does not   *)
(* fit a word is posted again and again.                                   *)
LEMMA PostKeepsPosts ==
  ASSUME PostsInv, MoreKeys(hashes', hashes), NEW bucket \in 1 .. Len(hashes'),
         NEW e \in Entities, Post(bucket, e)
  PROVE  PostsInv' /\ Posts(posts', posts, Posting(bucket, e))
<1> DEFINE n == Len(hashes)
           m == Len(hashes')
           grown == [b \in 1 .. m |-> LastOf(b)]
<1>1. n \in Nat /\ m \in Nat /\ n <= m
  BY DEF MoreKeys
<1>2. e \in Nat /\ e < EntityWidth /\ EntityWidth \in Nat \ {0}
  BY EntitiesAreNumbers, EntitiesAssumption
<1>3. posts \in Seq(Postings(hashes')) /\ posts \in Seq(Postings(hashes))
  <2>1. Postings(hashes) \subseteq Postings(hashes')
    BY <1>1 DEF Postings
  <2>2. QED
    BY <2>1 DEF PostsInv
<1>4. last \in Seq(Nat) /\ Len(last) = n /\ DOMAIN last = 1 .. n
  BY DEF PostsInv
<1>5. \A b \in 1 .. m : LastOf(b) \in Nat /\ (LastOf(b) # 0 => b \in 1 .. n)
  BY <1>4 DEF LastOf
<1>6. ASSUME NEW b \in 1 .. m, LastOf(b) # 0
      PROVE  \E p \in DOMAIN posts : posts[p].bucket = b /\ posts[p].entity = LastOf(b) - 1
  BY <1>4, <1>5, <1>6 DEF PostsInv, LastOf
<1>7. grown \in Seq(Nat) /\ Len(grown) = m /\ \A b \in 1 .. m : grown[b] = LastOf(b)
  <2>1. grown \in [1 .. m -> Nat]
    BY <1>5
  <2>2. QED
    BY <1>1, <2>1, SeqDef
<1>8. CASE LastOf(bucket) = e + 1
  <2>1. last' = grown /\ posts' = posts
    BY <1>8 DEF Post
  <2>2. LastOf(bucket) # 0 /\ LastOf(bucket) - 1 = e
    BY <1>2, <1>8
  <2>3. PICK p \in DOMAIN posts : posts[p].bucket = bucket /\ posts[p].entity = e
    BY <1>6, <2>2
  <2>4. posts[p] = Posting(bucket, e)
    BY <1>3, <2>3, PostingsTyped, Zenon
  <2> HIDE DEF grown
  <2>5. PostsInv'
    BY <1>3, <1>6, <1>7, <2>1 DEF PostsInv
  <2>6. QED
    BY <2>1, <2>4, <2>5 DEF Posts
<1>9. CASE LastOf(bucket) # e + 1
  <2> DEFINE stored == (e + 1) % EntityWidth
             p == Posting(bucket, e)
  <2>1. last' = [grown EXCEPT ![bucket] = stored] /\ posts' = Append(posts, p)
    BY <1>9 DEF Post, Posting
  <2>2. stored \in Nat /\ (stored # 0 => stored - 1 = e)
    <3>1. e + 1 < EntityWidth => stored = e + 1
      BY <1>2
    <3>2. e + 1 = EntityWidth => stored = 0
      BY <1>2
    <3>3. e + 1 < EntityWidth \/ e + 1 = EntityWidth
      BY <1>2
    <3> HIDE DEF stored
    <3>4. QED
      BY <1>2, <3>1, <3>2, <3>3
  <2>3. p \in Postings(hashes') /\ p.bucket = bucket /\ p.entity = e
    BY DEF Postings, Posting
  <2> HIDE DEF stored, p, grown
  <2>4. /\ posts' \in Seq(Postings(hashes'))
        /\ DOMAIN posts' = 1 .. Len(posts) + 1 /\ Len(posts) \in Nat
        /\ DOMAIN posts = 1 .. Len(posts)
        /\ posts'[Len(posts) + 1] = p
        /\ \A q \in DOMAIN posts : posts'[q] = posts[q]
    BY <1>3, <2>1, <2>3
  <2>5. /\ last' \in Seq(Nat) /\ Len(last') = m
        /\ last'[bucket] = stored
        /\ \A b \in 1 .. m : b # bucket => last'[b] = LastOf(b)
    BY <1>1, <1>7, <2>1, <2>2
  <2>6. ASSUME NEW b \in 1 .. m, last'[b] # 0
        PROVE  \E q \in DOMAIN posts' :
                   posts'[q].bucket = b /\ posts'[q].entity = last'[b] - 1
    <3>1. CASE b = bucket
      <4>1. Len(posts) + 1 \in DOMAIN posts'
        BY <2>4
      <4>2. QED
        BY <2>2, <2>3, <2>4, <2>5, <2>6, <3>1, <4>1
    <3>2. CASE b # bucket
      <4>1. PICK q \in DOMAIN posts :
                posts[q].bucket = b /\ posts[q].entity = LastOf(b) - 1
        BY <1>6, <2>5, <2>6, <3>2
      <4>2. q \in DOMAIN posts'
        BY <2>4
      <4>3. QED
        BY <2>4, <2>5, <3>2, <4>1, <4>2
    <3>3. QED
      BY <3>1, <3>2
  <2>7. PostsInv'
    BY <2>4, <2>5, <2>6 DEF PostsInv
  <2>8. QED
    BY <2>1, <2>7 DEF Posts, p
<1>10. QED
  BY <1>8, <1>9

----------------------------------------------------------------------------
(* What was posted is what was added.                                      *)

(* One more thing was added: its keys are to be posted.                    *)
LEMMA AddedIsPosted ==
  ASSUME NEW log, log \in Seq(Admissions), NEW ps, NEW keys, PostedIs(log, {}, ps, keys),
         NEW e, NEW K
  PROVE  PostedIs(Append(log, [entity |-> e, hashes |-> K]), K, ps, keys)
<1> DEFINE new == [entity |-> e, hashes |-> K]
           more == Append(log, new)
           n == Len(log)
<1>1. /\ n \in Nat /\ DOMAIN log = 1 .. n /\ DOMAIN more = 1 .. n + 1
      /\ Len(more) = n + 1
      /\ more[n + 1] = new
      /\ \A i \in 1 .. n : more[i] = log[i]
  OBVIOUS
<1>2. new.hashes = K
  OBVIOUS
<1> HIDE DEF n, new, more
<1>3. \A i \in 1 .. n + 1 : i \in 1 .. n \/ i = n + 1
  BY <1>1
<1>4. \A d, key : \A i \in Givers(log, d, key) : i \in Givers(more, d, key) /\ i < n + 1
  BY <1>1 DEF Givers
<1>5. \A d, key : \A i \in Givers(more, d, key) : i \in Givers(log, d, key) \/ i = n + 1
  BY <1>1, <1>3 DEF Givers
<1>6. \A p \in DOMAIN ps : Givers(more, ps[p].entity, keys[ps[p].bucket]) # {}
  BY <1>4 DEF PostedIs
<1>7. ASSUME NEW i \in DOMAIN more, NEW key \in more[i].hashes
      PROVE  \/ \E p \in DOMAIN ps :
                    ps[p].entity = more[i].entity /\ keys[ps[p].bucket] = key
             \/ i = Len(more) /\ key \in K
  <2>1. CASE i \in 1 .. n
    BY <1>1, <1>7, <2>1 DEF PostedIs
  <2>2. CASE i = n + 1
    BY <1>1, <1>2, <1>7, <2>2
  <2>3. QED
    BY <1>1, <1>3, <2>1, <2>2
<1>8. ASSUME NEW d, NEW f, NEW key, Earlier(log, d, f, key) PROVE Earlier(more, d, f, key)
  BY <1>4, <1>5, <1>8 DEF Earlier
<1>9. PostedIs(more, K, ps, keys)
  BY <1>6, <1>7, <1>8 DEF PostedIs
<1>10. QED
  BY <1>9 DEF more, new

(* What is left may be more, and buckets may come that have no posting.    *)
LEMMA StillPosted ==
  ASSUME NEW log, NEW left, NEW ps, NEW keys, PostedIs(log, left, ps, keys),
         ps \in Seq(Postings(keys)), NEW more, MoreKeys(more, keys),
         NEW still, left \subseteq still
  PROVE  PostedIs(log, still, ps, more)
<1>1. \A p \in DOMAIN ps : more[ps[p].bucket] = keys[ps[p].bucket]
  BY PostingsTyped DEF MoreKeys
<1>2. QED
  BY <1>1 DEF PostedIs

(* The last entry is posted to one more of its keys.  Before, nothing else *)
(* had given the entity that key: it is the last to come to the bucket.    *)
LEMMA PostIsPosted ==
  ASSUME NEW log, log \in Seq(Admissions), log # <<>>,
         NEW ps, NEW keys, ps \in Seq(Postings(keys)), KeysInv(keys),
         NEW left, PostedIs(log, left, ps, keys),
         NEW b \in 1 .. Len(keys), NEW new, Posts(new, ps, Posting(b, log[Len(log)].entity)),
         keys[b] \in log[Len(log)].hashes
  PROVE  PostedIs(log, left \ {keys[b]}, new, keys)
<1> DEFINE n == Len(log)
           e == log[n].entity
           key == keys[b]
           m == Len(ps)
<1>1. n \in Nat /\ n \in DOMAIN log /\ DOMAIN log = 1 .. n
  BY EmptySeq
<1>2. n \in Givers(log, e, key)
  BY <1>1 DEF Givers
<1>3. CASE new = ps /\ \E q \in DOMAIN ps : ps[q] = Posting(b, e)
  <2>1. PICK q \in DOMAIN ps : ps[q] = Posting(b, e)
    BY <1>3
  <2>2. ps[q].entity = log[n].entity /\ keys[ps[q].bucket] = keys[b]
    BY <2>1 DEF Posting
  <2> HIDE DEF n, e, key
  <2>3. ASSUME NEW i \in DOMAIN log, NEW k \in log[i].hashes
        PROVE  \/ \E p \in DOMAIN ps :
                      ps[p].entity = log[i].entity /\ keys[ps[p].bucket] = k
               \/ i = Len(log) /\ k \in left \ {keys[b]}
    <3>1. CASE i = n /\ k = keys[b]
      BY <2>2, <3>1
    <3>2. CASE ~(i = n /\ k = keys[b])
      BY <3>2 DEF PostedIs, n
    <3>3. QED
      BY <3>1, <3>2
  <2>4. QED
    BY <1>3, <2>3 DEF PostedIs
<1>4. CASE new = Append(ps, Posting(b, e))
  <2>1. /\ m \in Nat /\ DOMAIN ps = 1 .. m /\ DOMAIN new = 1 .. m + 1
        /\ new[m + 1] = Posting(b, e)
        /\ \A p \in 1 .. m : new[p] = ps[p]
    BY <1>4
  <2>2. new[m + 1].bucket = b /\ new[m + 1].entity = e
    BY <2>1 DEF Posting
  <2>3. \A p \in 1 .. m + 1 : p \in 1 .. m \/ p = m + 1
    BY <2>1
  <2>4. ASSUME \A p \in 1 .. m : ps[p] # Posting(b, e)
        PROVE  Givers(log, e, key) \subseteq {n}
    <3>1. SUFFICES ASSUME NEW i \in Givers(log, e, key), i # n PROVE FALSE
      OBVIOUS
    <3>2. i \in DOMAIN log /\ log[i].entity = e /\ key \in log[i].hashes
      BY DEF Givers
    <3>3. PICK p \in DOMAIN ps : ps[p].entity = e /\ keys[ps[p].bucket] = key
      BY <3>1, <3>2 DEF PostedIs
    <3>4. ps[p].bucket = b
      BY <3>3, PostingsTyped DEF KeysInv
    <3>5. ps[p] = Posting(b, e)
      BY <3>3, <3>4, PostingsTyped
    <3>6. QED
      BY <2>1, <2>4, <3>5
  <2> HIDE DEF n, e, key, m
  <2>5. ASSUME NEW p \in 1 .. m + 1
        PROVE  Givers(log, new[p].entity, keys[new[p].bucket]) # {}
    <3>1. CASE p = m + 1
      BY <1>2, <2>2, <3>1 DEF key
    <3>2. CASE p \in 1 .. m
      BY <2>1, <3>2 DEF PostedIs
    <3>3. QED
      BY <2>3, <3>1, <3>2
  <2>6. ASSUME NEW i \in DOMAIN log, NEW k \in log[i].hashes
        PROVE  \/ \E p \in 1 .. m + 1 :
                      new[p].entity = log[i].entity /\ keys[new[p].bucket] = k
               \/ i = Len(log) /\ k \in left \ {keys[b]}
    <3>1. CASE i = n /\ k = keys[b]
      <4>1. m + 1 \in 1 .. m + 1
        BY <2>1
      <4>2. QED
        BY <2>2, <3>1, <4>1 DEF e
    <3>2. CASE ~(i = n /\ k = keys[b])
      <4>1. \/ \E p \in 1 .. m : ps[p].entity = log[i].entity /\ keys[ps[p].bucket] = k
            \/ i = Len(log) /\ k \in left
        BY <2>1 DEF PostedIs
      <4>2. \A p \in 1 .. m : p \in 1 .. m + 1
        BY <2>1
      <4>3. QED
        BY <2>1, <3>2, <4>1, <4>2 DEF n
    <3>3. QED
      BY <3>1, <3>2
  <2>7. ASSUME NEW p \in 1 .. m + 1, NEW q \in 1 .. m + 1, p < q,
               new[p].bucket = new[q].bucket, new[p].entity # new[q].entity,
               \A r \in 1 .. q - 1 : new[r] # new[q]
        PROVE  Earlier(log, new[p].entity, new[q].entity, keys[new[q].bucket])
    <3>1. p \in 1 .. m /\ new[p] = ps[p]
      BY <2>1, <2>3, <2>7
    <3>2. CASE q = m + 1
      <4>1. keys[ps[p].bucket] = key /\ ps[p].entity # e
        BY <2>2, <2>7, <3>1, <3>2 DEF key
      <4>2. PICK i \in Givers(log, ps[p].entity, key) : TRUE
        BY <2>1, <3>1, <4>1 DEF PostedIs
      <4>3. i \in 1 .. n /\ i # n
        BY <1>1, <4>1, <4>2 DEF Givers, e
      <4>4. \A r \in 1 .. m : ps[r] # Posting(b, e)
        BY <2>1, <2>7, <3>2
      <4>5. \A j \in Givers(log, e, key) : i < j
        BY <1>1, <2>4, <4>3, <4>4
      <4>6. QED
        BY <2>2, <3>1, <3>2, <4>2, <4>5 DEF Earlier, key
    <3>3. CASE q \in 1 .. m
      <4>1. \A r \in 1 .. q - 1 : r \in 1 .. m
        BY <2>1, <3>3
      <4>2. \A r \in 1 .. q - 1 : ps[r] # ps[q]
        BY <2>1, <2>7, <3>3, <4>1
      <4>3. QED
        BY <2>1, <2>7, <3>1, <3>3, <4>2 DEF PostedIs
    <3>4. QED
      BY <2>3, <3>2, <3>3
  <2>8. QED
    BY <2>1, <2>5, <2>6, <2>7 DEF PostedIs
<1>5. QED
  BY <1>3, <1>4 DEF Posts

(* A posting keeps what is known of postings, whatever became of the       *)
(* tables.                                                                 *)
LEMMA PostKeeps ==
  ASSUME PostsInv, KeysInv(hashes'), MoreKeys(hashes', hashes),
         NEW log, log \in Seq(Admissions), log # <<>>,
         NEW left, PostedIs(log, left, posts, hashes),
         NEW bucket \in 1 .. Len(hashes'), Post(bucket, log[Len(log)].entity),
         hashes'[bucket] \in log[Len(log)].hashes,
         NEW still, left \subseteq still \cup {hashes'[bucket]}
  PROVE  PostsInv' /\ PostedIs(log, still, posts', hashes')
<1> DEFINE e == log[Len(log)].entity
           key == hashes'[bucket]
<1>1. e \in Entities
  <2>1. Len(log) \in DOMAIN log
    BY EmptySeq
  <2>2. log[Len(log)] \in Admissions
    BY <2>1
  <2>3. QED
    BY <2>2 DEF Admissions
<1>2. PostsInv' /\ Posts(posts', posts, Posting(bucket, e))
  BY <1>1, PostKeepsPosts
<1>3. posts \in Seq(Postings(hashes)) /\ posts \in Seq(Postings(hashes'))
  <2>1. Postings(hashes) \subseteq Postings(hashes')
    BY DEF Postings, MoreKeys
  <2>2. QED
    BY <2>1 DEF PostsInv
<1>4. PostedIs(log, left, posts, hashes')
  BY <1>3, StillPosted
<1>5. PostedIs(log, left \ {key}, posts', hashes')
  BY <1>2, <1>3, <1>4, PostIsPosted
<1>6. posts' \in Seq(Postings(hashes')) /\ MoreKeys(hashes', hashes')
  BY <1>2 DEF PostsInv, MoreKeys
<1>7. left \ {key} \subseteq still
  OBVIOUS
<1> HIDE DEF key
<1>8. PostedIs(log, still, posts', hashes')
  BY <1>5, <1>6, <1>7, StillPosted
<1>9. QED
  BY <1>2, <1>8

\* The bucket that bucketOfHash answers.
BucketOf(key) ==
    IF KnowsHash(key) THEN slots[HashSlot(key, slots, hashes)] ELSE Len(hashes) + 1

(* bucketOfHash: one bucket for the hash, and tables that find it.         *)
LEMMA PostsToBucket ==
  ASSUME BuilderInv, NEW key \in Nat \X Nat, NEW e, PostToHash(key, e)
  PROVE  /\ KeysInv(hashes') /\ SlotsInv(slots', hashes')
         /\ 2 * Len(hashes') <= SlotCount(slots')
         /\ MoreKeys(hashes', hashes)
         /\ BucketOf(key) \in 1 .. Len(hashes')
         /\ hashes'[BucketOf(key)] = key
         /\ Post(BucketOf(key), e)
<1> DEFINE n == SlotCount(slots)
           slot == HashSlot(key, slots, hashes)
<1>1. /\ KeysInv(hashes) /\ SlotsInv(slots, hashes)
      /\ Len(hashes) \in Nat /\ n \in Nat \ {0} /\ 2 * Len(hashes) <= n
  BY DEF BuilderInv, KeysInv, SlotsInv, IsTable
<1>2. Len(hashes) < n
  BY <1>1
<1>3. /\ slot \in DOMAIN slots
      /\ slots[slot] # 0 =>
             slots[slot] \in 1 .. Len(hashes) /\ hashes[slots[slot]] = key
      /\ slots[slot] = 0 =>
             /\ \A b \in 1 .. Len(hashes) : hashes[b] # key
             /\ Reaches(slots, key[1], slot, n, 0)
  BY <1>1, <1>2, HashFound, Zenon
<1> HIDE DEF slot
<1>4. CASE KnowsHash(key)
  <2>1. UNCHANGED <<hashes, slots>> /\ Post(slots[slot], e)
    BY <1>4 DEF PostToHash, slot
  <2>2. BucketOf(key) = slots[slot] /\ slots[slot] # 0
    BY <1>4 DEF BucketOf, KnowsHash, slot
  <2>3. MoreKeys(hashes', hashes)
    BY <1>1, <2>1 DEF MoreKeys
  <2>4. QED
    BY <1>1, <1>3, <2>1, <2>2, <2>3
<1>5. CASE ~KnowsHash(key)
  <2> DEFINE keys == Append(hashes, key)
             bucket == Len(hashes) + 1
             filled == [slots EXCEPT ![slot] = bucket]
  <2>1. slots[slot] = 0 /\ BucketOf(key) = bucket
    BY <1>5 DEF BucketOf, KnowsHash, slot
  <2>2. /\ hashes' = keys
        /\ slots' = IF bucket * 2 > n THEN Grown(filled, keys) ELSE filled
        /\ Post(bucket, e)
    BY <1>5 DEF PostToHash, NewBucket, slot, SlotCount
  <2>3. /\ KeysInv(keys)
        /\ Len(keys) = bucket
        /\ keys[bucket] = key
        /\ \A b \in 1 .. Len(hashes) : keys[b] = hashes[b]
    BY <1>1, <1>3, <2>1, KeyAppended
  <2>4. SlotsInv(filled, keys) /\ SlotCount(filled) = n
    BY <1>1, <1>3, <2>1, BucketPut
  <2> HIDE DEF keys, filled
  <2>5. IsTable(filled) /\ Len(keys) <= 2 * SlotCount(filled) /\ bucket <= n
    <3>1. bucket <= n /\ bucket <= 2 * n
      BY <1>1, <1>2
    <3>2. QED
      BY <2>3, <2>4, <3>1 DEF SlotsInv
  <2>6. SlotsInv(Grown(filled, keys), keys) /\ SlotCount(Grown(filled, keys)) = 2 * n
    BY <2>3, <2>4, <2>5, GrownHolds
  <2>7. SlotsInv(slots', keys) /\ 2 * Len(keys) <= SlotCount(slots')
    <3>1. CASE bucket * 2 > n
      <4>1. slots' = Grown(filled, keys)
        BY <2>2, <3>1
      <4>2. 2 * bucket <= 2 * n
        BY <1>1, <2>5
      <4>3. QED
        BY <2>3, <2>6, <4>1, <4>2
    <3>2. CASE ~(bucket * 2 > n)
      <4>1. slots' = filled
        BY <2>2, <3>2
      <4>2. 2 * bucket <= n
        BY <1>1, <3>2
      <4>3. QED
        BY <2>3, <2>4, <4>1, <4>2
    <3>3. QED
      BY <3>1, <3>2
  <2>8. MoreKeys(hashes', hashes)
    BY <1>1, <2>2, <2>3 DEF MoreKeys
  <2>9. bucket \in 1 .. Len(keys)
    BY <1>1, <2>3
  <2>10. QED
    BY <2>1, <2>2, <2>3, <2>7, <2>8, <2>9
<1>6. QED
  BY <1>4, <1>5

(* While the index is built, nothing is read.                              *)
LEMMA BuildingIsQuiet ==
  ASSUME TrigramInv, mode = "building", mode' = mode, UNCHANGED <<lists, searcher, search>>
  PROVE  ListsInv' /\ ScratchInv' /\ QueryInv' /\ ScoresInv' /\ SearchIsExact'
<1>1. ListsInv' /\ QueryInv' /\ ScoresInv' /\ SearchIsExact'
  BY DEF ListsInv, QueryInv, ScoresInv, SearchIsExact
<1>2. ScratchInv'
  BY DEF TrigramInv, ScratchInv, searcher
<1>3. QED
  BY <1>1, <1>2

LEMMA LastAdded ==
  ASSUME added \in Seq(Admissions), NEW e, NEW K, e \in Entities, K \subseteq Nat \X Nat,
         added' = Append(added, [entity |-> e, hashes |-> K])
  PROVE  /\ added' \in Seq(Admissions)
         /\ added' # <<>>
         /\ added'[Len(added')].entity = e
         /\ added'[Len(added')].hashes = K
<1> DEFINE new == [entity |-> e, hashes |-> K]
<1>1. new \in Admissions /\ new.entity = e /\ new.hashes = K
  BY DEF Admissions
<1> HIDE DEF new
<1>2. /\ added' \in Seq(Admissions) /\ added' # <<>>
      /\ added'[Len(added')] = new
  BY <1>1 DEF new
<1>3. QED
  BY <1>1, <1>2

LEMMA NothingPends ==
  ASSUME pending = <<>>
  PROVE  PendingKeys = {}
BY DEF PendingKeys, Range

LEMMA AddEntryKeeps ==
  ASSUME TrigramInv, NEW e \in Entities, NEW name \in Names, AddEntry(e, name)
  PROVE  TrigramInv'
<1> DEFINE K == HashesOf(Lower[name])
<1>1. /\ mode = "building" /\ pending = <<>>
      /\ pending' = Windows(Lower[name])
      /\ entity' = e
      /\ added' = Append(added, [entity |-> e, hashes |-> K])
      /\ UNCHANGED <<mode, charSlots, slots, hashes, last, posts, lists, searcher, search>>
  BY DEF AddEntry
<1>2. pending' \in Seq(Words)
  BY <1>1, WindowsAreWords
<1>3. PendingKeys' = K
  BY <1>1 DEF PendingKeys, HashesOf
<1>4. K \subseteq Nat \X Nat
  <2>1. \A w \in Range(pending') : w \in Words
    BY <1>2 DEF Range
  <2>2. QED
    BY <1>1, <2>1, KeysTyped DEF HashesOf
<1> HIDE DEF K
<1>5. /\ added' \in Seq(Admissions) /\ added' # <<>>
      /\ added'[Len(added')].entity = e
      /\ added'[Len(added')].hashes = K
  BY <1>1, <1>4, LastAdded DEF TrigramInv, HistoryInv
<1>6. PostedIs(added', K, posts, hashes)
  <2>1. PostedIs(added, {}, posts, hashes) /\ added \in Seq(Admissions)
    BY <1>1, NothingPends DEF TrigramInv, HistoryInv
  <2>2. QED
    BY <1>1, <2>1, AddedIsPosted
<1>7. HistoryInv'
  BY <1>1, <1>2, <1>3, <1>5, <1>6 DEF HistoryInv
<1>8. BuilderInv' /\ PostsInv'
  BY <1>1 DEF TrigramInv, BuilderInv, PostsInv
<1>9. QED
  BY <1>1, <1>7, <1>8, BuildingIsQuiet DEF TrigramInv

LEMMA PendingAfter ==
  ASSUME pending \in Seq(Words), pending # <<>>, pending' = Tail(pending)
  PROVE  /\ pending' \in Seq(Words)
         /\ Head(pending) \in Words
         /\ PendingKeys = PendingKeys' \cup {KeyOf(HashOf[Head(pending)])}
<1>1. /\ pending' \in Seq(Words) /\ Head(pending) \in Words
      /\ Head(pending) = pending[1]
      /\ Len(pending) \in Nat \ {0}
      /\ DOMAIN pending = 1 .. Len(pending)
      /\ DOMAIN pending' = 1 .. Len(pending) - 1
      /\ \A i \in 1 .. Len(pending) - 1 : pending'[i] = pending[i + 1]
  OBVIOUS
<1>2. Range(pending) = Range(pending') \cup {Head(pending)}
  <2>1. ASSUME NEW i \in DOMAIN pending PROVE pending[i] \in Range(pending') \cup {Head(pending)}
    <3>1. CASE i = 1
      BY <1>1, <3>1
    <3>2. CASE i # 1
      <4>1. i - 1 \in DOMAIN pending' /\ pending'[i - 1] = pending[i]
        BY <1>1, <3>2
      <4>2. QED
        BY <4>1 DEF Range
    <3>3. QED
      BY <3>1, <3>2
  <2>2. ASSUME NEW i \in DOMAIN pending' PROVE pending'[i] \in Range(pending)
    <3>1. i + 1 \in DOMAIN pending /\ pending'[i] = pending[i + 1]
      BY <1>1
    <3>2. QED
      BY <3>1 DEF Range
  <2>3. Head(pending) \in Range(pending)
    <3>1. 1 \in DOMAIN pending
      BY <1>1
    <3>2. QED
      BY <1>1, <3>1 DEF Range
  <2>4. QED
    BY <2>1, <2>2, <2>3 DEF Range
<1>3. QED
  BY <1>1, <1>2 DEF PendingKeys

(* addHash posts what it adds at once.                                     *)
LEMMA AddHashKeeps ==
  ASSUME TrigramInv, NEW e \in Entities, NEW hash \in Hashes, AddHash(e, hash)
  PROVE  TrigramInv'
<1> DEFINE key == KeyOf(hash)
           bucket == BucketOf(key)
<1>1. /\ mode = "building" /\ pending = <<>>
      /\ PostToHash(key, e)
      /\ added' = Append(added, [entity |-> e, hashes |-> {key}])
      /\ UNCHANGED <<mode, charSlots, pending, entity, lists, searcher, search>>
  BY DEF AddHash
<1>2. key \in Nat \X Nat
  BY KeysTyped
<1> HIDE DEF key
<1>3. /\ KeysInv(hashes') /\ SlotsInv(slots', hashes')
      /\ 2 * Len(hashes') <= SlotCount(slots')
      /\ MoreKeys(hashes', hashes)
      /\ bucket \in 1 .. Len(hashes')
      /\ hashes'[bucket] = key
      /\ Post(bucket, e)
  BY <1>1, <1>2, PostsToBucket DEF TrigramInv
<1> HIDE DEF bucket
<1>4. added \in Seq(Admissions) /\ PostedIs(added, {}, posts, hashes)
  BY <1>1, NothingPends DEF TrigramInv, HistoryInv
<1>5. /\ added' \in Seq(Admissions) /\ added' # <<>>
      /\ added'[Len(added')].entity = e
      /\ added'[Len(added')].hashes = {key}
  <2> DEFINE K == {key}
  <2>1. K \subseteq Nat \X Nat
    BY <1>2
  <2>2. added' = Append(added, [entity |-> e, hashes |-> K])
    BY <1>1
  <2> HIDE DEF K
  <2>3. /\ added' \in Seq(Admissions) /\ added' # <<>>
        /\ added'[Len(added')].entity = e
        /\ added'[Len(added')].hashes = K
    BY <1>4, <2>1, <2>2, LastAdded
  <2>4. QED
    BY <2>3 DEF K
<1>6. PostedIs(added', {key}, posts, hashes)
  BY <1>1, <1>4, AddedIsPosted
<1>7. PostsInv' /\ PostedIs(added', {}, posts', hashes')
  <2>1. hashes'[bucket] \in added'[Len(added')].hashes /\ {key} \subseteq {} \cup {hashes'[bucket]}
    BY <1>3, <1>5
  <2>2. Post(bucket, added'[Len(added')].entity)
    BY <1>3, <1>5
  <2>3. PostsInv
    BY DEF TrigramInv
  <2>4. QED
    BY <1>3, <1>5, <1>6, <2>1, <2>2, <2>3, PostKeeps
<1>8. HistoryInv'
  <2>1. PendingKeys' = {}
    BY <1>1 DEF PendingKeys, Range
  <2>2. QED
    BY <1>1, <1>5, <1>7, <2>1 DEF TrigramInv, HistoryInv
<1>9. BuilderInv'
  <2>1. CharsInv(charSlots, hashes')
    BY <1>3, CharsStay DEF TrigramInv, BuilderInv, MoreKeys
  <2>2. QED
    BY <1>1, <1>3, <2>1 DEF TrigramInv, BuilderInv
<1>10. QED
  BY <1>1, <1>7, <1>8, <1>9, BuildingIsQuiet DEF TrigramInv

LEMMA PostSeenKeeps ==
  ASSUME TrigramInv, mode = "building", PostSeen
  PROVE  TrigramInv'
<1> DEFINE letters == Head(pending)
           c == charSlots[CharSlot(letters, charSlots)]
<1>1. /\ pending # <<>> /\ c.bucket # 0
      /\ UNCHANGED <<hashes, slots>>
      /\ Post(c.bucket, entity)
      /\ pending' = Tail(pending)
      /\ UNCHANGED <<mode, charSlots, entity, lists, searcher, search, added>>
  BY DEF PostSeen
<1>2. /\ pending' \in Seq(Words) /\ letters \in Words
      /\ PendingKeys = PendingKeys' \cup {KeyOf(HashOf[letters])}
  BY <1>1, PendingAfter DEF TrigramInv, HistoryInv
<1>3. CharsTo(hashes, c) /\ c.letters = letters
  <2>1. CharsInv(charSlots, hashes)
    BY DEF TrigramInv, BuilderInv
  <2>2. Cardinality(Used(charSlots, FreeChar)) < SlotCount(charSlots)
    <3>1. IsTable(charSlots)
      BY <2>1 DEF CharsInv
    <3>2. Cardinality(Used(charSlots, FreeChar)) \in Nat
      BY <3>1, SomeUsed DEF IsTable
    <3>3. QED
      BY <3>1, <3>2 DEF TrigramInv, BuilderInv, IsTable
  <2>3. QED
    BY <1>1, <1>2, <2>1, <2>2, CharsFound
<1> HIDE DEF c, letters
<1>4. c.bucket \in 1 .. Len(hashes) /\ hashes[c.bucket] = KeyOf(HashOf[letters])
  BY <1>3 DEF CharsTo
<1>5. /\ added \in Seq(Admissions) /\ added # <<>>
      /\ entity = added[Len(added)].entity
      /\ PendingKeys \subseteq added[Len(added)].hashes
      /\ PostedIs(added, PendingKeys, posts, hashes)
  BY <1>1 DEF TrigramInv, HistoryInv
<1>6. KeysInv(hashes') /\ MoreKeys(hashes', hashes) /\ hashes' = hashes /\ PostsInv
  BY <1>1 DEF TrigramInv, BuilderInv, KeysInv, MoreKeys
<1>7. PostsInv' /\ PostedIs(added, PendingKeys', posts', hashes')
  <2>1. /\ hashes'[c.bucket] \in added[Len(added)].hashes
        /\ PendingKeys \subseteq PendingKeys' \cup {hashes'[c.bucket]}
    BY <1>2, <1>4, <1>5, <1>6
  <2>2. Post(c.bucket, added[Len(added)].entity) /\ c.bucket \in 1 .. Len(hashes')
    BY <1>1, <1>4, <1>5, <1>6
  <2>3. QED
    BY <1>5, <1>6, <2>1, <2>2, PostKeeps
<1>8. HistoryInv'
  BY <1>1, <1>2, <1>5, <1>7 DEF HistoryInv
<1>9. BuilderInv'
  BY <1>1 DEF TrigramInv, BuilderInv
<1>10. QED
  BY <1>1, <1>7, <1>8, <1>9, BuildingIsQuiet DEF TrigramInv

(* The letters get the bucket of their hash, and both tables stay half     *)
(* empty.                                                                  *)
LEMMA PostFirstKeeps ==
  ASSUME TrigramInv, mode = "building", PostFirst
  PROVE  TrigramInv'
<1> DEFINE letters == Head(pending)
           key == KeyOf(HashOf[letters])
           bucket == BucketOf(key)
           slot == CharSlot(letters, charSlots)
           entry == [letters |-> letters, bucket |-> bucket]
           filled == [charSlots EXCEPT ![slot] = entry]
           n == SlotCount(charSlots)
           used == Cardinality(Used(charSlots, FreeChar))
<1>1. /\ pending # <<>>
      /\ charSlots[slot].bucket = 0
      /\ charSlots' = IF 2 * Taken(filled) > n THEN GrownChars(filled) ELSE filled
      /\ PostToHash(key, entity)
      /\ pending' = Tail(pending)
      /\ UNCHANGED <<mode, entity, lists, searcher, search, added>>
  BY DEF PostFirst, BucketOf, SlotCount
<1>2. /\ pending' \in Seq(Words) /\ letters \in Words
      /\ PendingKeys = PendingKeys' \cup {key}
  BY <1>1, PendingAfter DEF TrigramInv, HistoryInv
<1>3. key \in Nat \X Nat
  BY <1>2, KeysTyped
<1>4. /\ KeysInv(hashes') /\ SlotsInv(slots', hashes')
      /\ 2 * Len(hashes') <= SlotCount(slots')
      /\ MoreKeys(hashes', hashes)
      /\ bucket \in 1 .. Len(hashes')
      /\ hashes'[bucket] = key
      /\ Post(bucket, entity)
  <2> HIDE DEF key
  <2>1. QED
    BY <1>1, <1>3, PostsToBucket DEF TrigramInv
<1>5. CharsInv(charSlots, hashes) /\ CharsInv(charSlots, hashes')
  <2>1. CharsInv(charSlots, hashes)
    BY DEF TrigramInv, BuilderInv
  <2>2. QED
    BY <1>4, <2>1, CharsStay DEF MoreKeys
<1>6. n \in Nat \ {0} /\ used \in Nat /\ 2 * used <= n /\ used < n
  <2>1. IsTable(charSlots)
    BY <1>5 DEF CharsInv
  <2>2. Cardinality(Used(charSlots, FreeChar)) \in Nat
    BY <2>1, SomeUsed DEF IsTable
  <2>3. QED
    BY <2>1, <2>2 DEF TrigramInv, BuilderInv, IsTable
<1>7. slot \in DOMAIN charSlots
  BY <1>2, <1>5, <1>6, CharsFound
<1> HIDE DEF slot, n, used
<1>8. CharsTo(hashes', entry)
  BY <1>2, <1>4 DEF CharsTo
<1> HIDE DEF bucket, key, letters, entry
<1>9. /\ CharsInv(filled, hashes')
      /\ SlotCount(filled) = n
      /\ Cardinality(Used(filled, FreeChar)) <= used + 1
  BY <1>5, <1>7, <1>8, CharsPut DEF n, used
<1> HIDE DEF filled
<1> DEFINE more == Cardinality(Used(filled, FreeChar))
           grown == GrownChars(filled)
<1>10. Taken(filled) = more /\ more \in Nat
  <2>1. IsTable(filled)
    BY <1>9 DEF CharsInv
  <2>2. more \in Nat
    BY <2>1, SomeUsed DEF IsTable
  <2>3. QED
    BY <1>9, <2>2, TakenIsUsed
<1>11. CharsInv(charSlots', hashes')
       /\ 2 * Cardinality(Used(charSlots', FreeChar)) <= SlotCount(charSlots')
  <2>1. CASE 2 * Taken(filled) > n
    <3>1. charSlots' = grown
      BY <1>1, <2>1
    <3>2. /\ CharsInv(grown, hashes')
          /\ SlotCount(grown) = 2 * n
          /\ Cardinality(Used(grown, FreeChar)) <= more
      BY <1>9, GrownCharsHold
    <3>3. Cardinality(Used(grown, FreeChar)) \in Nat
      BY <3>2, SomeUsed DEF CharsInv, IsTable
    <3>4. 2 * Cardinality(Used(grown, FreeChar)) <= 2 * n
      <4> HIDE DEF grown, more
      <4>1. QED
        BY <1>6, <1>9, <1>10, <3>2, <3>3 DEF more
    <3>5. QED
      BY <3>1, <3>2, <3>4
  <2>2. CASE ~(2 * Taken(filled) > n)
    <3>1. charSlots' = filled
      BY <1>1, <2>2
    <3>2. 2 * more <= n
      BY <1>6, <1>10, <2>2
    <3>3. QED
      BY <1>9, <3>1, <3>2
  <2>3. QED
    BY <2>1, <2>2
<1>12. BuilderInv'
  BY <1>4, <1>11 DEF BuilderInv
<1>13. /\ added \in Seq(Admissions) /\ added # <<>>
       /\ entity = added[Len(added)].entity
       /\ PendingKeys \subseteq added[Len(added)].hashes
       /\ PostedIs(added, PendingKeys, posts, hashes)
  BY <1>1 DEF TrigramInv, HistoryInv
<1>14. PostsInv' /\ PostedIs(added, PendingKeys', posts', hashes')
  <2>1. /\ hashes'[bucket] \in added[Len(added)].hashes
        /\ PendingKeys \subseteq PendingKeys' \cup {hashes'[bucket]}
    BY <1>2, <1>4, <1>13
  <2>2. Post(bucket, added[Len(added)].entity)
    BY <1>4, <1>13
  <2>3. PostsInv
    BY DEF TrigramInv
  <2>4. QED
    BY <1>4, <1>13, <2>1, <2>2, <2>3, PostKeeps
<1>15. HistoryInv'
  BY <1>1, <1>2, <1>13, <1>14 DEF HistoryInv
<1>16. QED
  BY <1>1, <1>12, <1>14, <1>15, BuildingIsQuiet DEF TrigramInv

----------------------------------------------------------------------------
(* The lists.                                                              *)

(* finalize: of the postings of a bucket the first of each entity, as they *)
(* arrived, are the entities that were given its hash.                     *)
LEMMA ListHolds ==
  ASSUME posts \in Seq(Postings(hashes)), KeysInv(hashes),
         PostedIs(added, {}, posts, hashes), NEW b \in 1 .. Len(hashes)
  PROVE  ListFor(ListOf(b), hashes[b], added)
<1> DEFINE m == Len(posts)
           S == FirstPosts(b)
           n == Cardinality(S)
           places == Ordered(S, Arrival)
           ids == ListOf(b)
           key == hashes[b]
<1>1. m \in Nat /\ DOMAIN posts = 1 .. m
  OBVIOUS
<1>2. /\ S \subseteq 1 .. m
      /\ \A p \in S : posts[p].bucket = b /\ \A q \in 1 .. p - 1 : posts[q] # posts[p]
  BY <1>1 DEF FirstPosts
<1>3. \A p \in S : p \in Nat /\ posts[p].entity \in Entities
  BY <1>1, <1>2, PostingsTyped
<1>4. \A p \in 1 .. m : posts[p] = Posting(posts[p].bucket, posts[p].entity)
  BY <1>1, PostingsTyped
<1>5. IsFiniteSet(S)
  <2>1. IsFiniteSet(1 .. m)
    BY <1>1, FS_Interval
  <2> HIDE DEF S, m
  <2>2. QED
    BY <1>2, <2>1, FS_Subset
<1>6. \A p, q \in S : <<p, q>> \in Arrival <=> p < q
  BY <1>1, <1>2 DEF Arrival
<1> HIDE DEF S
<1>7. IsOrder(S, Arrival)
  BY <1>3, <1>6 DEF IsOrder
<1>8. /\ n \in Nat
      /\ places \in [1 .. n -> S]
      /\ \A i, j \in 1 .. n : i < j => <<places[i], places[j]>> \in Arrival
      /\ \A p \in S : \E i \in 1 .. n : places[i] = p
  BY <1>5, <1>7, OrderedSorts
<1>9. ids = [i \in 1 .. n |-> posts[places[i]].entity]
  BY <1>8 DEF ListOf, S
<1> HIDE DEF n, places, ids, key
<1>10. ids \in Seq(Entities)
  <2>1. ids \in [1 .. n -> Entities]
    BY <1>3, <1>8, <1>9
  <2>2. QED
    BY <1>8, <2>1, SeqDef
<1>11. ASSUME NEW e \in Range(ids) PROVE Givers(added, e, key) # {}
  <2>1. PICK i \in 1 .. n : e = posts[places[i]].entity
    BY <1>9 DEF Range
  <2>2. places[i] \in DOMAIN posts /\ posts[places[i]].bucket = b
    BY <1>1, <1>2, <1>8
  <2>3. QED
    BY <2>1, <2>2 DEF PostedIs, key
<1>12. ASSUME NEW e \in Entities, Givers(added, e, key) # {} PROVE e \in Range(ids)
  <2> DEFINE T == {p \in 1 .. m : posts[p] = Posting(b, e)}
  <2>1. PICK i \in Givers(added, e, key) : TRUE
    BY <1>12
  <2>2. i \in DOMAIN added /\ added[i].entity = e /\ key \in added[i].hashes
    BY DEF Givers
  <2>3. PICK p \in DOMAIN posts : posts[p].entity = e /\ hashes[posts[p].bucket] = key
    BY <2>2 DEF PostedIs
  <2>4. posts[p].bucket = b
    BY <2>3, PostingsTyped DEF KeysInv, key
  <2>5. posts[p] = Posting(b, e)
    BY <1>1, <1>4, <2>3, <2>4
  <2>6. T \subseteq Nat /\ T # {}
    BY <1>1, <2>5
  <2>7. PICK first \in T : \A q \in T : first <= q
    <3> HIDE DEF T
    <3>1. QED
      BY <2>6, LeastNumber
  <2>8. \A q \in 1 .. first - 1 : q \in 1 .. m /\ q \notin T
    BY <1>1, <2>7
  <2>9. first \in S
    <3>1. first \in DOMAIN posts /\ posts[first] = Posting(b, e)
      BY <1>1, <2>7
    <3>2. \A q \in 1 .. first - 1 : posts[q] # posts[first]
      BY <2>8, <3>1
    <3>3. posts[first].bucket = b
      BY <3>1 DEF Posting
    <3>4. QED
      BY <3>1, <3>2, <3>3 DEF S, FirstPosts
  <2>10. PICK j \in 1 .. n : places[j] = first
    BY <1>8, <2>9
  <2>11. ids[j] = e /\ j \in DOMAIN ids
    BY <1>9, <2>7, <2>10 DEF Posting
  <2>12. QED
    BY <2>11 DEF Range
<1>13. ASSUME NEW i \in DOMAIN ids, NEW j \in DOMAIN ids, i < j
       PROVE  Earlier(added, ids[i], ids[j], key)
  <2> DEFINE p == places[i]
             q == places[j]
  <2>1. i \in 1 .. n /\ j \in 1 .. n /\ ids[i] = posts[p].entity /\ ids[j] = posts[q].entity
    BY <1>9
  <2>2. p \in S /\ q \in S /\ <<p, q>> \in Arrival
    BY <1>8, <1>13, <2>1
  <2>3. p < q /\ p \in 1 .. m /\ q \in 1 .. m
    BY <1>2, <1>6, <2>2
  <2> HIDE DEF p, q
  <2>4. /\ posts[p].bucket = b /\ posts[q].bucket = b
        /\ \A r \in 1 .. q - 1 : posts[r] # posts[q]
    BY <1>2, <2>2
  <2>5. posts[p].entity # posts[q].entity
    <3>1. p \in 1 .. q - 1
      BY <1>1, <2>3
    <3>2. posts[p] # posts[q]
      BY <2>4, <3>1
    <3>3. QED
      BY <1>4, <2>3, <2>4, <3>2
  <2>6. /\ p \in DOMAIN posts /\ q \in DOMAIN posts
        /\ posts[p].bucket = posts[q].bucket /\ hashes[posts[q].bucket] = key
    BY <1>1, <2>3, <2>4 DEF key
  <2>7. Earlier(added, posts[p].entity, posts[q].entity, hashes[posts[q].bucket])
    BY <2>3, <2>4, <2>5, <2>6 DEF PostedIs
  <2>8. QED
    BY <2>1, <2>6, <2>7
<1>14. ListFor(ids, key, added)
  BY <1>10, <1>11, <1>12, <1>13 DEF ListFor
<1>15. QED
  BY <1>14 DEF ids, key

LEMMA FinalizeKeeps ==
  ASSUME TrigramInv, FinalizeIndex
  PROVE  TrigramInv'
<1>1. /\ mode = "building" /\ pending = <<>>
      /\ lists' = [b \in DOMAIN hashes |-> ListOf(b)]
      /\ mode' = "ready"
      /\ UNCHANGED <<indexer, searcher, search, added>>
  BY DEF FinalizeIndex
<1>2. UNCHANGED <<charSlots, slots, hashes, last, posts, pending, entity>>
  BY <1>1 DEF indexer
<1>3. UNCHANGED <<scratch, marks, generationOf, bits, touched>>
  BY <1>1 DEF searcher
<1>4. /\ posts \in Seq(Postings(hashes)) /\ KeysInv(hashes)
      /\ PostedIs(added, {}, posts, hashes)
  BY <1>1, NothingPends DEF TrigramInv, PostsInv, BuilderInv, HistoryInv
<1>5. DOMAIN hashes = 1 .. Len(hashes)
  BY <1>4 DEF KeysInv
<1>6. \A b \in 1 .. Len(hashes) : ListFor(lists'[b], hashes[b], added)
  BY <1>1, <1>4, <1>5, ListHolds
<1>7. \A i \in DOMAIN added : \A key \in added[i].hashes :
          \E b \in 1 .. Len(hashes) : hashes[b] = key
  <2>1. ASSUME NEW i \in DOMAIN added, NEW key \in added[i].hashes
        PROVE  \E b \in 1 .. Len(hashes) : hashes[b] = key
    <3>1. PICK p \in DOMAIN posts : hashes[posts[p].bucket] = key
      BY <1>4 DEF PostedIs
    <3>2. QED
      BY <1>4, <3>1, PostingsTyped
  <2>2. QED
    BY <2>1
<1>8. ListsInv'
  BY <1>1, <1>2, <1>5, <1>6, <1>7 DEF ListsInv
<1>9. QueryInv' /\ ScoresInv' /\ SearchIsExact'
  BY <1>1 DEF QueryInv, ScoresInv, SearchIsExact
<1>10. ScratchInv'
  BY <1>1, <1>3 DEF TrigramInv, ScratchInv
<1>11. BuilderInv' /\ PostsInv' /\ HistoryInv'
  BY <1>1, <1>2 DEF TrigramInv, BuilderInv, PostsInv, HistoryInv, PendingKeys
<1>12. QED
  BY <1>1, <1>8, <1>9, <1>10, <1>11 DEF TrigramInv

----------------------------------------------------------------------------
(* A search begins.                                                        *)

(* findBucket: a hash without a bucket was given to nothing.               *)
LEMMA FoundHolds ==
  ASSUME TrigramInv, mode # "building", NEW hash
  PROVE  /\ ListFor(Found(hash), KeyOf(hash), added)
         /\ Range(Found(hash)) \subseteq Ids
         /\ Missing(hash) => \A e : Givers(added, e, KeyOf(hash)) = {}
<1> DEFINE key == KeyOf(hash)
           buckets == {b \in DOMAIN hashes : hashes[b] = key}
<1>1. DOMAIN hashes = 1 .. Len(hashes) /\ DOMAIN lists = 1 .. Len(hashes)
  BY DEF TrigramInv, BuilderInv, KeysInv, ListsInv
<1>2. /\ \A b \in 1 .. Len(hashes) : ListFor(lists[b], hashes[b], added)
      /\ \A i \in DOMAIN added : \A k \in added[i].hashes :
             \E b \in 1 .. Len(hashes) : hashes[b] = k
  BY DEF TrigramInv, ListsInv
<1>3. Missing(hash) <=> buckets = {}
  BY DEF Missing
<1>4. Found(hash) = IF buckets = {} THEN <<>> ELSE lists[CHOOSE b \in buckets : TRUE]
  BY DEF Found
<1> HIDE DEF key
<1>5. ASSUME buckets = {}, NEW e PROVE Givers(added, e, key) = {}
  BY <1>1, <1>2, <1>5 DEF Givers
<1>6. CASE buckets = {}
  <2>1. Found(hash) = <<>> /\ Range(<<>>) = {}
    BY <1>4, <1>6 DEF Range
  <2>2. <<>> \in Seq(Entities) /\ DOMAIN <<>> = {}
    OBVIOUS
  <2> HIDE DEF buckets
  <2>3. ListFor(<<>>, key, added)
    BY <1>5, <1>6, <2>1, <2>2 DEF ListFor
  <2>4. QED
    BY <1>5, <1>6, <2>1, <2>3 DEF key
<1>7. CASE buckets # {}
  <2>1. PICK b \in DOMAIN hashes : hashes[b] = key /\ Found(hash) = lists[b]
    BY <1>4, <1>7
  <2>2. ListFor(lists[b], key, added)
    BY <1>1, <1>2, <2>1
  <2>3. Range(lists[b]) \subseteq Ids
    BY <1>1, <2>1 DEF Ids
  <2>4. QED
    BY <1>3, <1>7, <2>1, <2>2, <2>3 DEF key
<1>8. QED
  BY <1>6, <1>7

\* What a query finds.
FoundFor(name) ==
    LET windows == Windows(Lower[name])
    IN  [t \in DOMAIN windows |-> Found(HashOf[windows[t]])]

AskedFor(name) ==
    LET windows == Windows(Lower[name])
    IN  [t \in DOMAIN windows |-> KeyOf(HashOf[windows[t]])]

LEMMA FoundForHolds ==
  ASSUME TrigramInv, mode # "building", NEW name \in Names
  PROVE  LET n == Len(Windows(Lower[name]))
         IN  /\ n \in Nat
             /\ DOMAIN AskedFor(name) = 1 .. n /\ Len(AskedFor(name)) = n
             /\ DOMAIN FoundFor(name) = 1 .. n /\ Len(FoundFor(name)) = n
             /\ \A t \in 1 .. n :
                    /\ ListFor(FoundFor(name)[t], AskedFor(name)[t], added)
                    /\ Range(FoundFor(name)[t]) \subseteq Ids
                    /\ Missing(HashOf[Windows(Lower[name])[t]]) =>
                           \A e : Givers(added, e, AskedFor(name)[t]) = {}
<1> DEFINE windows == Windows(Lower[name])
           n == Len(windows)
<1>1. windows \in Seq(Words)
  BY WindowsAreWords
<1> HIDE DEF windows
<1>2. n \in Nat /\ DOMAIN windows = 1 .. n
  BY <1>1
<1>3. /\ AskedFor(name) = [t \in 1 .. n |-> KeyOf(HashOf[windows[t]])]
      /\ FoundFor(name) = [t \in 1 .. n |-> Found(HashOf[windows[t]])]
  BY <1>2 DEF AskedFor, FoundFor, windows
<1> HIDE DEF n
<1>4. ASSUME NEW t \in 1 .. n
      PROVE  /\ ListFor(FoundFor(name)[t], AskedFor(name)[t], added)
             /\ Range(FoundFor(name)[t]) \subseteq Ids
             /\ Missing(HashOf[windows[t]]) =>
                    \A e : Givers(added, e, AskedFor(name)[t]) = {}
  <2>1. /\ FoundFor(name)[t] = Found(HashOf[windows[t]])
        /\ AskedFor(name)[t] = KeyOf(HashOf[windows[t]])
    BY <1>3
  <2>2. QED
    BY <2>1, FoundHolds
<1>5. /\ DOMAIN AskedFor(name) = 1 .. n /\ Len(AskedFor(name)) = n
      /\ DOMAIN FoundFor(name) = 1 .. n /\ Len(FoundFor(name)) = n
  BY <1>2, <1>3
<1>6. QED
  BY <1>2, <1>4, <1>5 DEF n, windows

LEMMA GenerationsBefore ==
  ASSUME NEW g \in Nat \ {0}
  PROVE  0 \in 0 .. g - 1 /\ \A h \in 0 .. g - 1 : h \in 0 .. g /\ h # g
OBVIOUS

(* Whatever is in the scratch, no mark is of the generation that begins.   *)
LEMMA StartsFresh ==
  ASSUME TrigramInv, NEW name \in Names, NEW ratio, NEW limit,
         SearchStart(name, ratio, limit)
  PROVE  /\ scratch' \in {"dense", "sparse"}
         /\ generationOf' \in 1 .. LastGeneration
         /\ bits' = {}
         /\ touched' = <<>>
         /\ scratch' = "sparse" => DOMAIN marks' = {}
         /\ scratch' = "dense" =>
                /\ DOMAIN marks' = Ids
                /\ \A e \in Ids : marks'[e].generation \in 0 .. generationOf' - 1
<1>1. /\ mode = "ready"
      /\ scratch' = Prepared
      /\ marks' = IF Prepared = "dense" THEN FreshMarks ELSE NoMarks
      /\ generationOf' = IF generationOf = LastGeneration THEN 1 ELSE generationOf + 1
      /\ touched' = <<>> /\ bits' = bits
  BY DEF SearchStart
<1>2. /\ scratch \in {"none", "dense", "sparse"}
      /\ generationOf \in 0 .. LastGeneration
      /\ bits = {}
      /\ scratch = "dense" =>
             /\ DOMAIN marks = Ids
             /\ \A e \in Ids : marks[e].generation \in 0 .. generationOf
  BY <1>1 DEF TrigramInv, ScratchInv
<1>3. /\ Prepared \in {"dense", "sparse"}
      /\ scratch # "none" => Prepared = scratch
  BY <1>2 DEF Prepared
<1>4. generationOf' \in 1 .. LastGeneration
  BY <1>1, <1>2, GenerationAssumption
<1>5. ASSUME Prepared = "dense"
      PROVE  /\ DOMAIN FreshMarks = Ids
             /\ \A e \in Ids : FreshMarks[e].generation \in 0 .. generationOf' - 1
  <2>1. CASE scratch = "none" \/ generationOf = LastGeneration
    <3>1. FreshMarks = [e \in Ids |-> [generation |-> 0, score |-> 0]]
      BY <2>1 DEF FreshMarks, Unmarked
    <3>2. 0 \in 0 .. generationOf' - 1
      <4>1. generationOf' \in Nat \ {0}
        BY <1>4, GenerationAssumption
      <4>2. QED
        BY <4>1, GenerationsBefore
    <3>3. QED
      BY <3>1, <3>2
  <2>2. CASE ~(scratch = "none" \/ generationOf = LastGeneration)
    <3>1. FreshMarks = marks /\ scratch = "dense" /\ generationOf' - 1 = generationOf
      BY <1>1, <1>2, <1>3, <1>5, <2>2 DEF FreshMarks
    <3>2. QED
      BY <1>2, <3>1
  <2>3. QED
    BY <2>1, <2>2
<1>6. DOMAIN NoMarks = {}
  BY DEF NoMarks
<1>7. QED
  BY <1>1, <1>2, <1>3, <1>4, <1>5, <1>6

LEMMA SearchStartKeeps ==
  ASSUME TrigramInv, NEW name \in Names, NEW ratio \in Ratios, NEW limit \in Limits,
         SearchStart(name, ratio, limit)
  PROVE  /\ BuilderInv' /\ PostsInv' /\ HistoryInv' /\ ListsInv'
         /\ ScratchInv' /\ QueryInv' /\ ScoresInv'
<1> DEFINE n == Len(Windows(Lower[name]))
<1>1. /\ mode = "ready"
      /\ n > 1
      /\ asked' = AskedFor(name)
      /\ query' = [lists |-> FoundFor(name), ratio |-> ratio, limit |-> limit]
      /\ step' = 1 /\ at' = 1 /\ maxScore' = 0
      /\ mode' \in {"scoring", "answered"}
      /\ UNCHANGED <<indexer, lists, added>>
  BY DEF SearchStart, Asks, AskedFor, FoundFor, Answer
<1>2. UNCHANGED <<charSlots, slots, hashes, last, posts, pending, entity>>
  BY <1>1 DEF indexer
<1>3. BuilderInv' /\ PostsInv' /\ HistoryInv' /\ ListsInv'
  BY <1>1, <1>2 DEF TrigramInv, BuilderInv, PostsInv, HistoryInv, PendingKeys, ListsInv
<1>4. Ids' = Ids
  BY <1>1 DEF Ids
<1>5. /\ scratch' \in {"dense", "sparse"}
      /\ generationOf' \in 1 .. LastGeneration
      /\ bits' = {}
      /\ touched' = <<>>
      /\ scratch' = "sparse" => DOMAIN marks' = {}
      /\ scratch' = "dense" =>
             /\ DOMAIN marks' = Ids
             /\ \A e \in Ids : marks'[e].generation \in 0 .. generationOf' - 1
  BY StartsFresh
<1>6. touched' \in Seq(Entities) /\ Range(touched') = {} /\ DOMAIN touched' = {}
  BY <1>5 DEF Range
<1>7. ScratchInv'
  <2>1. generationOf' \in 0 .. LastGeneration
    BY <1>5, GenerationAssumption
  <2>2. \A g \in 0 .. generationOf' - 1 : g \in 0 .. generationOf'
    <3>1. generationOf' \in Nat \ {0}
      BY <1>5, GenerationAssumption
    <3>2. QED
      BY <3>1, GenerationsBefore
  <2>3. QED
    BY <1>1, <1>4, <1>5, <1>6, <2>1, <2>2 DEF ScratchInv
<1>8. /\ n \in Nat
      /\ DOMAIN asked' = 1 .. n /\ Len(asked') = n
      /\ DOMAIN query'.lists = 1 .. n /\ Len(query'.lists) = n
      /\ \A t \in 1 .. n :
             /\ ListFor(query'.lists[t], asked'[t], added)
             /\ Range(query'.lists[t]) \subseteq Ids
  BY <1>1, FoundForHolds DEF TrigramInv
<1>9. query'.ratio \in Ratios /\ query'.limit \in Limits
  BY <1>1
<1> HIDE DEF n
<1>10. QueryInv'
  <2>1. step' \in 1 .. n + 1 /\ at' \in Nat \ {0} /\ n >= 2
    BY <1>1, <1>8
  <2>2. at' <= Len(query'.lists[1]) + 1
    <3>1. Len(query'.lists[1]) \in Nat
      BY <1>8, <2>1 DEF ListFor
    <3>2. QED
      BY <1>1, <3>1
  <2>3. QED
    BY <1>1, <1>4, <1>8, <1>9, <2>1, <2>2 DEF QueryInv
<1>11. ScoresInv'
  <2>1. ASSUME NEW t \in 1 .. 2 PROVE Seen(t)' = {}
    <3>1. t \in 1 .. n
      BY <1>1, <1>8
    <3>2. DOMAIN query'.lists[t] \subseteq Nat \ {0}
      BY <1>8, <3>1 DEF ListFor
    <3>3. QED
      BY <1>1, <3>2 DEF Seen
  <2>2. Range(touched') = (Seen(1) \cup Seen(2))'
    BY <1>6, <2>1
  <2>3. \A g \in 0 .. generationOf' - 1 : g # generationOf'
    BY <1>5, GenerationAssumption
  <2>4. QED
    BY <1>1, <1>4, <1>5, <1>6, <2>2, <2>3 DEF ScoresInv
<1>12. QED
  BY <1>3, <1>7, <1>10, <1>11

----------------------------------------------------------------------------
(* Scoring.                                                                *)

LEMMA NotEarlierThanItself ==
  ASSUME NEW log, NEW e, NEW key, log \in Seq(Admissions)
  PROVE  ~Earlier(log, e, e, key)
<1>1. \A i \in Givers(log, e, key) : i \in Nat
  BY DEF Givers
<1>2. QED
  BY <1>1 DEF Earlier

(* An entity is in a list once.                                            *)
LEMMA ListedOnce ==
  ASSUME NEW ids, NEW key, NEW log, log \in Seq(Admissions), ListFor(ids, key, log),
         NEW i \in DOMAIN ids, NEW j \in DOMAIN ids, ids[i] = ids[j]
  PROVE  i = j
<1>1. i \in Nat /\ j \in Nat
  BY DEF ListFor
<1>2. ~(i < j) /\ ~(j < i)
  BY NotEarlierThanItself DEF ListFor
<1>3. QED
  BY <1>1, <1>2

\* What is known of the lists while they are scored.
ListsScored(n) ==
    /\ n \in Nat /\ n >= 2
    /\ Len(asked) = n /\ DOMAIN asked = 1 .. n
    /\ DOMAIN query.lists = 1 .. n /\ Len(query.lists) = n
    /\ step \in 1 .. n + 1 /\ at \in Nat \ {0}
    /\ added \in Seq(Admissions)
    /\ \A t \in 1 .. n :
           /\ query.lists[t] \in Seq(Entities)
           /\ Len(query.lists[t]) \in Nat
           /\ DOMAIN query.lists[t] = 1 .. Len(query.lists[t])
           /\ ListFor(query.lists[t], asked[t], added)
           /\ Range(query.lists[t]) \subseteq Ids

LEMMA ListsAreScored ==
  ASSUME TrigramInv, mode = "scoring"
  PROVE  ListsScored(Len(asked))
<1>1. QueryInv /\ added \in Seq(Admissions)
  BY DEF TrigramInv, HistoryInv
<1>2. \A t \in 1 .. Len(asked) : query.lists[t] \in Seq(Entities)
  BY <1>1 DEF QueryInv, ListFor
<1>3. QED
  BY <1>1, <1>2 DEF QueryInv, ListsScored

(* A posting is scored: it is seen, and was not before.                    *)
LEMMA SeenAfter ==
  ASSUME NEW n, ListsScored(n), step <= n, at <= Len(query.lists[step]),
         UNCHANGED <<query, step>>, at' = at + 1,
         NEW e, e = query.lists[step][at]
  PROVE  /\ e \in Entities /\ e \in Ids
         /\ \A t \in 1 .. n :
                IF t = step THEN e \notin Seen(t) /\ Seen(t)' = Seen(t) \cup {e}
                            ELSE Seen(t)' = Seen(t)
<1>1. PICK l \in 1 .. n : l = step
  BY DEF ListsScored
<1> DEFINE ids == query.lists[l]
<1>2. /\ at \in DOMAIN ids /\ at \in Nat /\ e = ids[at]
      /\ ids \in Seq(Entities) /\ DOMAIN ids \subseteq Nat
      /\ ListFor(ids, asked[l], added)
      /\ Range(ids) \subseteq Ids
      /\ added \in Seq(Admissions)
      /\ l \in Nat
  BY <1>1 DEF ListsScored
<1>3. e \in Entities /\ e \in Ids
  BY <1>2 DEF Range
<1>4. Seen(l) = {ids[i] : i \in {j \in DOMAIN ids : j < at}}
  <2>1. \A j \in DOMAIN ids : (l < step \/ (l = step /\ j < at)) <=> j < at
    BY <1>1, <1>2
  <2>2. QED
    BY <2>1 DEF Seen
<1>5. Seen(l)' = {ids[i] : i \in {j \in DOMAIN ids : j < at + 1}}
  <2>1. \A j \in DOMAIN ids : (l < step \/ (l = step /\ j < at + 1)) <=> j < at + 1
    BY <1>1, <1>2
  <2>2. QED
    BY <2>1 DEF Seen
<1>6. e \notin Seen(l)
  <2> HIDE DEF ids
  <2>1. SUFFICES ASSUME NEW j \in DOMAIN ids, j < at, ids[j] = e PROVE FALSE
    BY <1>4
  <2>2. j = at
    BY <1>2, <2>1, ListedOnce
  <2>3. QED
    BY <1>2, <2>1, <2>2
<1>7. Seen(l)' = Seen(l) \cup {e}
  <2> HIDE DEF ids
  <2>1. \A j \in DOMAIN ids : j < at + 1 <=> (j < at \/ j = at)
    BY <1>2
  <2>2. QED
    BY <1>2, <1>4, <1>5, <2>1
<1>8. ASSUME NEW t \in 1 .. n, t # step PROVE Seen(t)' = Seen(t)
  BY <1>8 DEF Seen
<1>9. QED
  BY <1>1, <1>3, <1>6, <1>7, <1>8

LEMMA SightingsFinite ==
  ASSUME NEW n, ListsScored(n), NEW e
  PROVE  /\ IsFiniteSet(Sightings(e)) /\ Sightings(e) \subseteq 1 .. n
         /\ Cardinality(Sightings(e)) \in Nat
<1>1. Sightings(e) \subseteq 1 .. n /\ n \in Nat
  BY DEF Sightings, ListsScored
<1>2. IsFiniteSet(1 .. n)
  BY <1>1, FS_Interval
<1>3. QED
  BY <1>1, <1>2, FS_Subset, FS_CardinalityType

LEMMA SightingsAfter ==
  ASSUME NEW n, ListsScored(n), step <= n, at <= Len(query.lists[step]),
         UNCHANGED <<query, step>>, at' = at + 1,
         NEW e, e = query.lists[step][at]
  PROVE  /\ Cardinality(Sightings(e))' = Cardinality(Sightings(e)) + 1
         /\ \A d : d # e => Sightings(d)' = Sightings(d)
<1>1. \A t \in 1 .. n :
          IF t = step THEN e \notin Seen(t) /\ Seen(t)' = Seen(t) \cup {e}
                      ELSE Seen(t)' = Seen(t)
  BY SeenAfter
<1>2. DOMAIN query.lists = 1 .. n /\ query' = query /\ step \in 1 .. n /\ step' = step
  BY DEF ListsScored
<1>3. ASSUME NEW d, d # e PROVE Sightings(d)' = Sightings(d)
  <2>1. \A t \in 1 .. n : d \in Seen(t)' <=> d \in Seen(t)
    BY <1>1, <1>2, <1>3
  <2>2. QED
    BY <1>2, <2>1 DEF Sightings
<1>4. Sightings(e)' = Sightings(e) \cup {step} /\ step \notin Sightings(e)
  <2>1. \A t \in 1 .. n : e \in Seen(t)' <=> e \in Seen(t) \/ t = step
    BY <1>1, <1>2
  <2>2. QED
    BY <1>1, <1>2, <2>1 DEF Sightings
<1>5. IsFiniteSet(Sightings(e))
  BY SightingsFinite
<1>6. Cardinality(Sightings(e) \cup {step}) = Cardinality(Sightings(e)) + 1
  BY <1>4, <1>5, FS_AddElement
<1>7. QED
  BY <1>3, <1>4, <1>6

(* Lists that were not begun have not been seen.                           *)
LEMMA NotYetSeen ==
  ASSUME NEW n, ListsScored(n), NEW t \in 1 .. n, step < t
  PROVE  Seen(t) = {}
<1>1. \A j : ~(t < step \/ (t = step /\ j < at))
  BY DEF ListsScored
<1>2. QED
  BY <1>1 DEF Seen

LEMMA AllSeen ==
  ASSUME NEW n, ListsScored(n), NEW t \in 1 .. n, t < step
  PROVE  Seen(t) = Range(query.lists[t])
BY DEF Seen, Range

(* What dense and sparse come to: an entity touched before has its score   *)
(* raised, a new one is touched if the list admits, and else is ignored.   *)
LEMMA ScoringDoes ==
  ASSUME TrigramInv, mode = "scoring", NEW e \in Ids, step \in Nat, Scoring(e)
  PROVE  \/ /\ e \in Range(touched)
            /\ Mark(e, marks[e].score + 1)
            /\ UNCHANGED <<bits, touched>>
         \/ /\ e \notin Range(touched)
            /\ step <= 2
            /\ Mark(e, 1)
            /\ touched' = Append(touched, e)
            /\ bits' = IF scratch = "dense" THEN bits \cup {e} ELSE bits
         \/ /\ e \notin Range(touched)
            /\ step > 2
            /\ UNCHANGED <<marks, maxScore, bits, touched>>
<1>1. /\ \A d \in Range(touched) : marks[d].generation = generationOf
      /\ scratch = "dense" =>
             /\ bits = Range(touched)
             /\ \A d \in Ids \ Range(touched) : marks[d].generation # generationOf
      /\ scratch = "sparse" => DOMAIN marks = Range(touched)
  BY DEF TrigramInv, ScoresInv
<1>2. Admits <=> ~(step > 2)
  BY DEF Admits
<1>3. CASE AdmitDense(e)
  BY <1>1, <1>2, <1>3 DEF AdmitDense, Admits, Touch
<1>4. CASE ScoreDense(e)
  BY <1>1, <1>2, <1>4 DEF ScoreDense, Admits
<1>5. CASE ScoreSparse(e)
  BY <1>1, <1>2, <1>5 DEF ScoreSparse, Admits, Touch
<1>6. QED
  BY <1>3, <1>4, <1>5 DEF Scoring

LEMMA HitFirst ==
  ASSUME NEW e
  PROVE  FirstHit(e) = IF Givers(added, e, asked[1]) # {} THEN 1 ELSE 2
BY DEF FirstHit, AddedWith, Givers

(* What is in a list was given its hash, and what comes later in it later. *)
LEMMA SeenBefore ==
  ASSUME NEW n, ListsScored(n), step <= n, at <= Len(query.lists[step]),
         NEW e, e = query.lists[step][at], NEW d \in Seen(step)
  PROVE  Earlier(added, d, e, asked[step])
<1> DEFINE ids == query.lists[step]
<1>1. /\ step \in 1 .. n /\ at \in DOMAIN ids /\ ListFor(ids, asked[step], added)
      /\ ids[at] = e
  BY DEF ListsScored
<1>2. PICK j \in DOMAIN ids : j < at /\ ids[j] = d
  <2>1. ~(step < step)
    BY <1>1
  <2>2. QED
    BY <2>1 DEF Seen
<1> HIDE DEF ids
<1>3. QED
  BY <1>1, <1>2 DEF ListFor

LEMMA SeenGiven ==
  ASSUME NEW n, ListsScored(n), NEW t \in 1 .. n, NEW d \in Seen(t)
  PROVE  d \in Entities /\ d \in Range(query.lists[t]) /\ Givers(added, d, asked[t]) # {}
<1>1. d \in Range(query.lists[t])
  BY DEF Seen, Range
<1>2. d \in Entities
  BY <1>1 DEF ListsScored, Range
<1>3. QED
  BY <1>1, <1>2 DEF ListsScored, ListFor

(* What is touched last comes last.                                        *)
LEMMA ComesLast ==
  ASSUME NEW n, ListsScored(n), step <= n, step <= 2, at <= Len(query.lists[step]),
         NEW e, e = query.lists[step][at], e \in Entities, e \notin Seen(1) \cup Seen(2),
         NEW d \in Seen(1) \cup Seen(2)
  PROVE  Comes(d, e)
<1>1. /\ n \in Nat /\ n >= 2 /\ step \in {1, 2} /\ 1 \in 1 .. n /\ 2 \in 1 .. n
      /\ step \in 1 .. n
  BY DEF ListsScored
<1>2. e \in Range(query.lists[step])
  <2>1. at \in DOMAIN query.lists[step]
    BY <1>1 DEF ListsScored
  <2>2. QED
    BY <2>1 DEF Range
<1>3. Givers(added, e, asked[step]) # {}
  BY <1>1, <1>2 DEF ListsScored, ListFor
<1>4. CASE step = 1
  <2>1. d \in Seen(1)
    BY <1>1, <1>4, NotYetSeen
  <2>2. Givers(added, d, asked[1]) # {}
    BY <1>1, <2>1, SeenGiven
  <2>3. FirstHit(d) = 1 /\ FirstHit(e) = 1
    BY <1>3, <1>4, <2>2, HitFirst
  <2>4. QED
    BY <1>4, <2>1, <2>3, SeenBefore DEF Comes
<1>5. CASE step = 2
  <2>1. Seen(1) = Range(query.lists[1])
    BY <1>1, <1>5, AllSeen
  <2>2. FirstHit(e) = 2
    <3>1. e \notin Range(query.lists[1])
      BY <2>1
    <3>2. Givers(added, e, asked[1]) = {}
      BY <1>1, <3>1 DEF ListsScored, ListFor
    <3>3. QED
      BY <3>2, HitFirst
  <2>3. CASE d \in Seen(1)
    <3>1. Givers(added, d, asked[1]) # {}
      BY <1>1, <2>3, SeenGiven
    <3>2. FirstHit(d) = 1
      BY <3>1, HitFirst
    <3>3. QED
      BY <2>2, <3>2 DEF Comes
  <2>4. CASE d \notin Seen(1)
    <3>1. d \in Seen(2)
      BY <2>4
    <3>2. d \in Entities
      BY <1>1, <3>1, SeenGiven
    <3>3. Givers(added, d, asked[1]) = {}
      BY <1>1, <2>1, <2>4, <3>2 DEF ListsScored, ListFor
    <3>4. FirstHit(d) = 2
      BY <3>3, HitFirst
    <3>5. Earlier(added, d, e, asked[2])
      BY <1>5, <3>1, SeenBefore
    <3>6. QED
      BY <2>2, <3>4, <3>5 DEF Comes
  <2>5. QED
    BY <2>3, <2>4
<1>6. QED
  BY <1>1, <1>4, <1>5

(* What a mark leaves.                                                     *)
LEMMA MarkDoes ==
  ASSUME NEW e, NEW score, Mark(e, score)
  PROVE  /\ DOMAIN marks' = DOMAIN marks \cup {e}
         /\ marks'[e].generation = generationOf /\ marks'[e].score = score
         /\ \A d \in DOMAIN marks : d # e => marks'[d] = marks[d]
         /\ maxScore' = Larger(maxScore, score)
BY DEF Mark

LEMMA LargerIs ==
  ASSUME NEW m \in Nat, NEW k \in Nat
  PROVE  /\ Larger(m, k) \in Nat /\ Larger(m, k) >= m /\ Larger(m, k) >= k
         /\ Larger(m, k) = m \/ Larger(m, k) = k
         /\ k > m => Larger(m, k) = k
BY DEF Larger

LEMMA BuilderRests ==
  ASSUME TrigramInv, mode # "building", mode' # "building", UNCHANGED <<indexer, lists, added>>
  PROVE  BuilderInv' /\ PostsInv' /\ HistoryInv' /\ ListsInv' /\ Ids' = Ids
BY DEF indexer, TrigramInv, BuilderInv, PostsInv, HistoryInv, PendingKeys, ListsInv, Ids

\* The state of a search, of which a turn has marked an entity.
ScoresAfter(e, s) ==
    /\ DOMAIN marks' = DOMAIN marks \cup {e}
    /\ marks'[e].generation = generationOf
    /\ marks'[e].score = s
    /\ \A d \in DOMAIN marks : d # e => marks'[d] = marks[d]
    /\ maxScore' \in Nat /\ maxScore' >= maxScore /\ maxScore' >= s
    /\ maxScore' = maxScore \/ maxScore' = s
    /\ s > maxScore => maxScore' = s

LEMMA MarkScores ==
  ASSUME NEW e, NEW s \in Nat, maxScore \in Nat, Mark(e, s)
  PROVE  ScoresAfter(e, s)
<1>1. /\ DOMAIN marks' = DOMAIN marks \cup {e}
      /\ marks'[e].generation = generationOf /\ marks'[e].score = s
      /\ \A d \in DOMAIN marks : d # e => marks'[d] = marks[d]
      /\ maxScore' = Larger(maxScore, s)
  BY MarkDoes
<1>2. QED
  BY <1>1, LargerIs DEF ScoresAfter

(* A turn of the scoring loops: every touched entity has the number of the *)
(* lists that it was seen in.                                              *)
LEMMA ScorePostingKeeps ==
  ASSUME TrigramInv, ScorePosting
  PROVE  TrigramInv'
<1> DEFINE n == Len(asked)
<1>1. /\ mode = "scoring" /\ mode' = "scoring"
      /\ step <= n /\ at <= Len(query.lists[step])
      /\ Scoring(query.lists[step][at])
      /\ at' = at + 1
      /\ UNCHANGED <<mode, indexer, lists, scratch, generationOf, query, step, result,
                     asked, added>>
  BY DEF ScorePosting, TrigramInv, QueryInv
<1>2. ListsScored(n)
  BY <1>1, ListsAreScored
<1> HIDE DEF n
<1>3. /\ n \in Nat /\ n >= 2 /\ step \in Nat /\ step \in 1 .. n
      /\ 1 \in 1 .. n /\ 2 \in 1 .. n
  BY <1>1, <1>2 DEF ListsScored
<1>4. PICK e : e = query.lists[step][at]
  OBVIOUS
<1>5. /\ e \in Entities /\ e \in Ids
      /\ \A t \in 1 .. n :
             IF t = step THEN e \notin Seen(t) /\ Seen(t)' = Seen(t) \cup {e}
                         ELSE Seen(t)' = Seen(t)
  BY <1>1, <1>2, <1>4, SeenAfter
<1>6. /\ Cardinality(Sightings(e))' = Cardinality(Sightings(e)) + 1
      /\ \A d : d # e => Sightings(d)' = Sightings(d)
      /\ Cardinality(Sightings(e)) \in Nat
  BY <1>1, <1>2, <1>4, SightingsAfter, SightingsFinite
<1>7. ScoresInv /\ ScratchInv /\ QueryInv
  BY DEF TrigramInv
<1>8. BuilderInv' /\ PostsInv' /\ HistoryInv' /\ ListsInv' /\ Ids' = Ids
  BY <1>1, BuilderRests
<1>9. QueryInv'
  <2>1. at' \in Nat \ {0} /\ at' <= Len(query.lists[step]) + 1
    BY <1>1, <1>2 DEF ListsScored
  <2>2. QED
    BY <1>1, <1>7, <1>8, <2>1 DEF QueryInv
<1>10. SearchIsExact'
  BY <1>1 DEF SearchIsExact
<1>11. \A d, f : Comes(d, f)' <=> Comes(d, f)
  BY <1>1 DEF Comes, FirstHit, AddedWith
<1> DEFINE T == Range(touched)
           U == Seen(1) \cup Seen(2)
<1>12. T = U
  BY <1>1, <1>7 DEF ScoresInv
<1>13. /\ e \in T => marks[e].score = Cardinality(Sightings(e))
       /\ maxScore \in Nat
       /\ \A d \in T : marks[d].generation = generationOf
       /\ \A d \in T : marks[d].score = Cardinality(Sightings(d))
       /\ \A d \in T : marks[d].score <= maxScore /\ marks[d].score \in Nat
       /\ maxScore = 0 \/ \E d \in T : marks[d].score = maxScore
  BY <1>1, <1>2, <1>7, SightingsFinite DEF ScoresInv
<1>14. /\ T \subseteq DOMAIN marks /\ touched \in Seq(Entities)
       /\ DOMAIN touched = 1 .. Len(touched) /\ Len(touched) \in Nat
       /\ scratch \in {"dense", "sparse"}
       /\ generationOf \in 0 .. LastGeneration
       /\ scratch = "dense" =>
              DOMAIN marks = Ids /\ \A d \in Ids : marks[d].generation \in 0 .. generationOf
  BY <1>1, <1>7 DEF ScratchInv
<1>15. /\ scratch = "dense" =>
              /\ bits = T
              /\ \A d \in Ids \ T : marks[d].generation # generationOf
       /\ scratch = "sparse" => bits = {} /\ DOMAIN marks = T
       /\ \A i, j \in DOMAIN touched : i < j => Comes(touched[i], touched[j])
  BY <1>1, <1>7 DEF ScoresInv
<1>16. generationOf \in 0 .. generationOf
  BY <1>14, GenerationAssumption
<1>17. CASE e \in T /\ Mark(e, marks[e].score + 1) /\ UNCHANGED <<bits, touched>>
  <2> DEFINE s == marks[e].score + 1
  <2>1. s \in Nat /\ ScoresAfter(e, s)
    BY <1>13, <1>17, MarkScores
  <2>2. DOMAIN marks' = DOMAIN marks /\ marks'[e].score = Cardinality(Sightings(e))'
    BY <1>6, <1>13, <1>14, <1>17, <2>1 DEF ScoresAfter
  <2>3. Range(touched)' = T
    BY <1>17
  <2>4. (Seen(1) \cup Seen(2))' = U
    <3>1. step \in {1, 2} => e \in U
      BY <1>12, <1>17
    <3>2. CASE step = 1
      BY <1>3, <1>5, <3>1, <3>2
    <3>3. CASE step = 2
      BY <1>3, <1>5, <3>1, <3>3
    <3>4. CASE step \notin {1, 2}
      BY <1>3, <1>5, <3>4
    <3>5. QED
      BY <3>2, <3>3, <3>4
  <2> HIDE DEF T, U, s
  <2>5. ASSUME NEW d \in T
        PROVE  /\ marks'[d].generation = generationOf
               /\ marks'[d].score = Cardinality(Sightings(d))'
               /\ marks'[d].score <= maxScore'
    <3>1. CASE d = e
      BY <2>1, <2>2, <3>1 DEF ScoresAfter
    <3>2. CASE d # e
      <4>1. marks'[d] = marks[d] /\ maxScore' \in Nat /\ maxScore' >= maxScore
        BY <1>14, <2>1, <3>2 DEF ScoresAfter
      <4>2. Cardinality(Sightings(d))' = Cardinality(Sightings(d))
        BY <1>6, <3>2
      <4>3. QED
        BY <1>13, <4>1, <4>2
    <3>3. QED
      BY <3>1, <3>2
  <2>6. maxScore' \in Nat /\ \E d \in T : marks'[d].score = maxScore'
    <3>1. CASE maxScore' = s
      BY <1>17, <2>1, <3>1 DEF ScoresAfter
    <3>2. CASE maxScore' # s
      <4>1. maxScore' = maxScore /\ maxScore' > 0 /\ s <= maxScore
        BY <1>13, <2>1, <3>2 DEF ScoresAfter
      <4>2. PICK d \in T : marks[d].score = maxScore
        BY <1>13, <4>1
      <4>3. d # e
        BY <1>13, <1>17, <4>1, <4>2 DEF s
      <4>4. marks'[d] = marks[d]
        BY <1>14, <2>1, <4>3 DEF ScoresAfter
      <4>5. QED
        BY <2>1, <4>1, <4>2, <4>4 DEF ScoresAfter
    <3>3. QED
      BY <3>1, <3>2
  <2>7. /\ scratch = "dense" =>
               \A d \in Ids \ T : d # e /\ marks'[d].generation # generationOf
        /\ scratch = "dense" => \A d \in Ids : marks'[d].generation \in 0 .. generationOf
    BY <1>14, <1>15, <1>16, <1>17, <2>1 DEF ScoresAfter
  <2>8. ScratchInv'
    BY <1>1, <1>8, <1>14, <1>17, <2>2, <2>3, <2>7 DEF ScratchInv
  <2>9. ScoresInv'
    BY <1>1, <1>8, <1>11, <1>12, <1>15, <1>17, <2>2, <2>3, <2>4, <2>5, <2>6, <2>7
       DEF ScoresInv
  <2>10. QED
    BY <1>1, <1>8, <1>9, <1>10, <2>8, <2>9 DEF TrigramInv
<1>18. CASE /\ e \notin T /\ step <= 2
            /\ Mark(e, 1)
            /\ touched' = Append(touched, e)
            /\ bits' = IF scratch = "dense" THEN bits \cup {e} ELSE bits
  <2> DEFINE m == Len(touched)
  <2>1. ScoresAfter(e, 1)
    BY <1>13, <1>18, MarkScores
  <2>2. /\ touched' \in Seq(Entities)
        /\ DOMAIN touched' = 1 .. m + 1
        /\ touched'[m + 1] = e
        /\ \A i \in 1 .. m : touched'[i] = touched[i]
    BY <1>5, <1>14, <1>18
  <2>3. Range(touched') = T \cup {e}
    <3>1. \A i \in 1 .. m + 1 : i \in 1 .. m \/ i = m + 1
      BY <1>14
    <3>2. \A i \in 1 .. m : i \in 1 .. m + 1
      BY <1>14
    <3>3. m + 1 \in 1 .. m + 1
      BY <1>14
    <3>4. QED
      BY <1>14, <2>2, <3>1, <3>2, <3>3 DEF Range
  <2>4. (Seen(1) \cup Seen(2))' = U \cup {e}
    <3>1. CASE step = 1
      BY <1>3, <1>5, <3>1
    <3>2. CASE step = 2
      BY <1>3, <1>5, <3>2
    <3>3. QED
      BY <1>3, <1>18, <3>1, <3>2
  <2>5. Cardinality(Sightings(e)) = 0
    <3>1. ASSUME NEW t \in 1 .. n PROVE e \notin Seen(t)
      <4>1. CASE t \in {1, 2}
        BY <1>12, <1>18, <4>1
      <4>2. CASE t \notin {1, 2}
        <5>1. step < t
          BY <1>3, <1>18, <4>2
        <5>2. QED
          BY <1>2, <5>1, NotYetSeen
      <4>3. QED
        BY <4>1, <4>2
    <3>2. Sightings(e) = {}
      BY <1>2, <3>1 DEF Sightings, ListsScored
    <3>3. QED
      BY <3>2, FS_EmptySet
  <2>6. \A i, j \in DOMAIN touched' : i < j => Comes(touched'[i], touched'[j])
    <3>1. SUFFICES ASSUME NEW i \in 1 .. m + 1, NEW j \in 1 .. m + 1, i < j
                   PROVE  Comes(touched'[i], touched'[j])
      BY <2>2
    <3>2. i \in 1 .. m /\ touched'[i] = touched[i]
      BY <1>14, <2>2, <3>1
    <3>3. CASE j = m + 1
      <4>1. touched[i] \in U
        BY <1>12, <1>14, <3>2 DEF Range
      <4>2. Comes(touched[i], e)
        BY <1>1, <1>2, <1>4, <1>5, <1>12, <1>18, <4>1, ComesLast
      <4>3. QED
        BY <2>2, <3>2, <3>3, <4>2
    <3>4. CASE j # m + 1
      <4>1. j \in 1 .. m /\ touched'[j] = touched[j]
        BY <1>14, <2>2, <3>4
      <4>2. QED
        BY <1>14, <1>15, <3>1, <3>2, <4>1
    <3>5. QED
      BY <3>3, <3>4
  <2> HIDE DEF T, U, m
  <2>7. ASSUME NEW d \in T \cup {e}
        PROVE  /\ marks'[d].generation = generationOf
               /\ marks'[d].score = Cardinality(Sightings(d))'
               /\ marks'[d].score <= maxScore'
    <3>1. CASE d = e
      <4>1. Cardinality(Sightings(e))' = 1
        BY <1>6, <2>5
      <4>2. QED
        BY <2>1, <3>1, <4>1 DEF ScoresAfter
    <3>2. CASE d # e
      <4>1. marks'[d] = marks[d] /\ maxScore' \in Nat /\ maxScore' >= maxScore
        BY <1>14, <2>1, <3>2 DEF ScoresAfter
      <4>2. Cardinality(Sightings(d))' = Cardinality(Sightings(d))
        BY <1>6, <3>2
      <4>3. QED
        BY <1>13, <3>2, <4>1, <4>2
    <3>3. QED
      BY <3>1, <3>2
  <2>8. maxScore' \in Nat /\ \E d \in T \cup {e} : marks'[d].score = maxScore'
    <3>1. CASE maxScore' = 1
      BY <2>1, <3>1 DEF ScoresAfter
    <3>2. CASE maxScore' # 1
      <4>1. maxScore' = maxScore /\ maxScore' > 0
        BY <1>13, <2>1, <3>2 DEF ScoresAfter
      <4>2. PICK d \in T : marks[d].score = maxScore
        BY <1>13, <4>1
      <4>3. marks'[d] = marks[d]
        BY <1>14, <1>18, <2>1 DEF ScoresAfter
      <4>4. QED
        BY <2>1, <4>1, <4>2, <4>3 DEF ScoresAfter
    <3>3. QED
      BY <3>1, <3>2
  <2>9. /\ scratch = "dense" =>
               /\ DOMAIN marks' = Ids
               /\ \A d \in Ids \ (T \cup {e}) : marks'[d].generation # generationOf
               /\ \A d \in Ids : marks'[d].generation \in 0 .. generationOf
        /\ scratch = "sparse" => DOMAIN marks' = T \cup {e}
        /\ T \cup {e} \subseteq DOMAIN marks'
    BY <1>5, <1>14, <1>15, <1>16, <2>1 DEF ScoresAfter
  <2>10. /\ scratch = "dense" => bits' = T \cup {e}
         /\ scratch = "sparse" => bits' = {}
    BY <1>15, <1>18
  <2>11. ScratchInv'
    BY <1>1, <1>8, <1>14, <2>2, <2>3, <2>9 DEF ScratchInv
  <2>12. ScoresInv'
    BY <1>1, <1>8, <1>11, <1>12, <2>3, <2>4, <2>6, <2>7, <2>8, <2>9, <2>10
       DEF ScoresInv
  <2>13. QED
    BY <1>1, <1>8, <1>9, <1>10, <2>11, <2>12 DEF TrigramInv
<1>19. CASE /\ e \notin T /\ step > 2
            /\ UNCHANGED <<marks, maxScore, bits, touched>>
  <2>1. (Seen(1) \cup Seen(2))' = U
    BY <1>3, <1>5, <1>19
  <2>2. \A d \in T : Sightings(d)' = Sightings(d)
    BY <1>6, <1>19
  <2>3. ScratchInv'
    BY <1>1, <1>7, <1>8, <1>19 DEF ScratchInv
  <2> HIDE DEF U
  <2>4. ScoresInv'
    BY <1>1, <1>8, <1>11, <1>12, <1>13, <1>15, <1>19, <2>1, <2>2 DEF ScoresInv
  <2>5. QED
    BY <1>1, <1>8, <1>9, <1>10, <2>3, <2>4 DEF TrigramInv
<1>20. QED
  <2>1. Scoring(e)
    BY <1>1, <1>4
  <2>2. QED
    BY <1>1, <1>3, <1>5, <1>17, <1>18, <1>19, <2>1, ScoringDoes

(* At the end of a list nothing changes but the place.                     *)
LEMMA NextListKeeps ==
  ASSUME TrigramInv, NextList
  PROVE  TrigramInv'
<1> DEFINE n == Len(asked)
<1>1. /\ mode = "scoring" /\ mode' = "scoring"
      /\ step <= n /\ at > Len(query.lists[step])
      /\ step' = step + 1 /\ at' = 1
      /\ UNCHANGED <<indexer, lists, searcher, query, maxScore, result, asked, added>>
  BY DEF NextList, TrigramInv, QueryInv
<1>2. ListsScored(n) /\ ScoresInv /\ ScratchInv /\ QueryInv
  BY <1>1, ListsAreScored DEF TrigramInv
<1> HIDE DEF n
<1>3. /\ n \in Nat /\ n >= 2 /\ step \in 1 .. n /\ step \in Nat
      /\ at = Len(query.lists[step]) + 1
  <2>1. n \in Nat /\ n >= 2 /\ step \in 1 .. n + 1 /\ at \in Nat /\ Len(asked) = n
    BY <1>2 DEF ListsScored
  <2>2. step \in 1 .. n /\ step \in Nat
    BY <1>1, <2>1
  <2>3. Len(query.lists[step]) \in Nat
    BY <1>2, <2>2 DEF ListsScored
  <2>4. at <= Len(query.lists[step]) + 1
    BY <1>1, <1>2, <2>1 DEF QueryInv
  <2>5. at = Len(query.lists[step]) + 1
    BY <1>1, <2>1, <2>3, <2>4
  <2>6. QED
    BY <2>1, <2>2, <2>5
<1>4. UNCHANGED <<scratch, marks, generationOf, bits, touched>>
  BY <1>1 DEF searcher
<1>5. BuilderInv' /\ PostsInv' /\ HistoryInv' /\ ListsInv' /\ Ids' = Ids
  BY <1>1, BuilderRests
<1>6. ASSUME NEW t \in 1 .. n PROVE Seen(t)' = Seen(t)
  <2>1. \A j \in DOMAIN query.lists[t] : j \in Nat \ {0} /\ j <= Len(query.lists[t])
    BY <1>2 DEF ListsScored
  <2>2. \A j \in DOMAIN query.lists[t] :
            (t < step + 1 \/ (t = step + 1 /\ j < 1)) <=> (t < step \/ (t = step /\ j < at))
    BY <1>3, <2>1
  <2>3. QED
    BY <1>1, <2>2 DEF Seen
<1>7. ASSUME NEW d PROVE Sightings(d)' = Sightings(d)
  <2>1. DOMAIN query.lists = 1 .. n
    BY <1>2 DEF ListsScored
  <2>2. QED
    BY <1>1, <1>6, <2>1 DEF Sightings
<1>8. QueryInv'
  <2>1. step' \in 1 .. n + 1 /\ at' \in Nat \ {0}
    BY <1>1, <1>3
  <2>2. step' <= n => at' <= Len(query.lists[step']) + 1
    <3>1. \A t \in 1 .. n : Len(query.lists[t]) \in Nat
      BY <1>2 DEF ListsScored
    <3>2. step' <= n => step' \in 1 .. n
      BY <1>3, <2>1
    <3>3. QED
      BY <1>1, <3>1, <3>2
  <2>3. QED
    BY <1>1, <1>2, <1>5, <2>1, <2>2 DEF QueryInv, n
<1>9. ScratchInv'
  BY <1>1, <1>2, <1>4, <1>5 DEF ScratchInv
<1>10. ScoresInv'
  <2>1. (Seen(1) \cup Seen(2))' = Seen(1) \cup Seen(2)
    BY <1>3, <1>6
  <2>2. \A d, f : Comes(d, f)' <=> Comes(d, f)
    BY <1>1 DEF Comes, FirstHit, AddedWith
  <2>3. QED
    BY <1>1, <1>2, <1>4, <1>5, <1>7, <2>1, <2>2 DEF ScoresInv
<1>11. SearchIsExact'
  BY <1>1 DEF SearchIsExact
<1>12. QED
  BY <1>1, <1>5, <1>8, <1>9, <1>10, <1>11 DEF TrigramInv

----------------------------------------------------------------------------
(* What a search is to answer, of a log of what was added and of the keys  *)
(* asked for: the definitions of SearchIsExact, not of the state.          *)

Hits(log, ask, e) == {t \in DOMAIN ask : Givers(log, e, ask[t]) # {}}

ScoreIn(log, ask, e) == Cardinality(Hits(log, ask, e))

BestIn(log, ask) ==
    CHOOSE m \in 0 .. Len(ask) :
        /\ \A e \in Entities : ScoreIn(log, ask, e) <= m
        /\ m = 0 \/ \E e \in Entities : ScoreIn(log, ask, e) = m

Enough(log, ask, ratio, e) ==
    /\ ScoreIn(log, ask, e) >= 1
    /\ ScoreIn(log, ask, e) >= Len(ask) - 1
    /\ ScoreIn(log, ask, e) * ratio.den >= BestIn(log, ask) * ratio.num

HitIn(log, ask, e) == IF Givers(log, e, ask[1]) # {} THEN 1 ELSE 2

FirstIn(log, ask, e) ==
    CHOOSE i \in Givers(log, e, ask[HitIn(log, ask, e)]) :
        \A j \in Givers(log, e, ask[HitIn(log, ask, e)]) : i <= j

Precedes(log, ask, d, e) ==
    \/ ScoreIn(log, ask, d) > ScoreIn(log, ask, e)
    \/ /\ ScoreIn(log, ask, d) = ScoreIn(log, ask, e)
       /\ HitIn(log, ask, d) < HitIn(log, ask, e)
    \/ /\ ScoreIn(log, ask, d) = ScoreIn(log, ask, e)
       /\ HitIn(log, ask, d) = HitIn(log, ask, e)
       /\ FirstIn(log, ask, d) < FirstIn(log, ask, e)

Qualified(log, ask, ratio) == {e \in Entities : Enough(log, ask, ratio, e)}

IsExact(log, ask, ratio, limit, answer) ==
    LET given == {answer[i].idx : i \in DOMAIN answer}
    IN  /\ Len(answer) = Least(limit, Cardinality(Qualified(log, ask, ratio)))
        /\ \A i \in DOMAIN answer :
               /\ answer[i].idx \in Qualified(log, ask, ratio)
               /\ answer[i].score = ScoreIn(log, ask, answer[i].idx)
               /\ \A j \in 1 .. i - 1 : Precedes(log, ask, answer[j].idx, answer[i].idx)
               /\ \A e \in Qualified(log, ask, ratio) \ given :
                      Precedes(log, ask, answer[i].idx, e)

LEMMA ExactIs ==
  SearchIsExact <=>
      (mode = "answered" => IsExact(added, asked, query.ratio, query.limit, result))
<1>1. \A e : Score(e) = ScoreIn(added, asked, e)
  BY DEF Score, AddedWith, ScoreIn, Hits, Givers
<1>2. Best = BestIn(added, asked)
  BY DEF Best, BestIn, Score, AddedWith, ScoreIn, Hits, Givers
<1>3. \A e : FirstHit(e) = HitIn(added, asked, e)
  BY DEF FirstHit, HitIn, AddedWith, Givers
<1>4. \A e : FirstAdded(e) = FirstIn(added, asked, e)
  BY DEF FirstAdded, FirstIn, FirstHit, HitIn, AddedWith, Givers
<1>5. \A e : Qualifies(e) <=> Enough(added, asked, query.ratio, e)
  BY <1>1, <1>2 DEF Qualifies, Enough
<1>6. \A d, e : Before(d, e) <=> Precedes(added, asked, d, e)
  BY <1>1, <1>3, <1>4 DEF Before, Precedes
<1>7. {e \in Entities : Qualifies(e)} = Qualified(added, asked, query.ratio)
  BY <1>5 DEF Qualified
<1>8. QED
  BY <1>1, <1>6, <1>7 DEF SearchIsExact, IsExact

LEMMA ExactNext ==
  ASSUME IsExact(added', asked', query'.ratio, query'.limit, result')
  PROVE  SearchIsExact'
<1>1. (SearchIsExact <=>
          (mode = "answered" => IsExact(added, asked, query.ratio, query.limit, result)))'
  BY ExactIs, PTL
<1>2. QED
  BY <1>1

LEMMA CeilingIs ==
  ASSUME NEW num \in Nat, NEW den \in Nat \ {0}, NEW s \in Nat
  PROVE  Ceiling(num, den) \in Nat /\ (s >= Ceiling(num, den) <=> s * den >= num)
<1> DEFINE a == num + den - 1
           q == a \div den
           r == a % den
<1>1. q \in Nat /\ r \in Nat /\ r < den /\ a = den * q + r
  <2>1. a \in Nat /\ den > 0
    OBVIOUS
  <2> HIDE DEF a
  <2>2. QED
    BY <2>1, Quotient
<1>2. Ceiling(num, den) = q
  BY DEF Ceiling
<1>3. a = num + den - 1
  OBVIOUS
<1> HIDE DEF a, q, r
<1>4. den * q \in Nat /\ den * s \in Nat /\ s * den = den * s
  <2>1. den * q \in Nat /\ den * s \in Nat
    BY <1>1, Product
  <2>2. QED
    BY <2>1
<1>5. CASE s < q
  <2>1. den * s + den <= den * q
    BY <1>1, <1>5, ProductRises
  <2>2. den * s < num
    BY <1>1, <1>3, <1>4, <2>1
  <2>3. QED
    BY <1>1, <1>2, <1>4, <1>5, <2>2
<1>6. CASE s = q
  <2>1. den * s >= num
    BY <1>1, <1>3, <1>4, <1>6
  <2>2. QED
    BY <1>1, <1>2, <1>4, <1>6, <2>1
<1>7. CASE s > q
  <2>1. den * q + den <= den * s
    BY <1>1, <1>7, ProductRises
  <2>2. den * s >= num
    BY <1>1, <1>3, <1>4, <2>1
  <2>3. QED
    BY <1>1, <1>2, <1>4, <1>7, <2>2
<1>8. QED
  BY <1>1, <1>5, <1>6, <1>7

LEMMA ScoreBounds ==
  ASSUME NEW log, NEW ask, NEW n \in Nat, DOMAIN ask = 1 .. n, NEW e
  PROVE  /\ IsFiniteSet(Hits(log, ask, e)) /\ Hits(log, ask, e) \subseteq 1 .. n
         /\ ScoreIn(log, ask, e) \in 0 .. n
<1>1. IsFiniteSet(1 .. n) /\ Cardinality(1 .. n) = n
  BY CountTo
<1>2. Hits(log, ask, e) \subseteq 1 .. n
  BY DEF Hits
<1>3. /\ IsFiniteSet(Hits(log, ask, e))
      /\ Cardinality(Hits(log, ask, e)) <= n
      /\ Cardinality(Hits(log, ask, e)) \in Nat
  BY <1>1, <1>2, FS_Subset, FS_CardinalityType
<1>4. QED
  BY <1>2, <1>3 DEF ScoreIn

LEMMA BestIs ==
  ASSUME NEW log, NEW ask, NEW n \in Nat, DOMAIN ask = 1 .. n, Len(ask) = n
  PROVE  /\ BestIn(log, ask) \in 0 .. n
         /\ \A e \in Entities : ScoreIn(log, ask, e) <= BestIn(log, ask)
         /\ BestIn(log, ask) = 0 \/ \E e \in Entities : ScoreIn(log, ask, e) = BestIn(log, ask)
<1> DEFINE S(e) == ScoreIn(log, ask, e)
           Is(m) == /\ \A e \in Entities : S(e) <= m
                    /\ m = 0 \/ \E e \in Entities : S(e) = m
           T == {m \in 0 .. n : \A e \in Entities : S(e) <= m}
<1>1. \A e : S(e) \in 0 .. n
  BY ScoreBounds
<1> HIDE DEF S
<1>2. n \in T /\ T \subseteq Nat
  BY <1>1
<1>3. PICK m \in T : \A k \in T : m <= k
  <2>1. T # {} /\ T \subseteq Nat
    BY <1>2
  <2> HIDE DEF T
  <2>2. QED
    BY <2>1, LeastNumber
<1>4. m \in 0 .. n /\ \A e \in Entities : S(e) <= m
  BY <1>3
<1>5. m = 0 \/ \E e \in Entities : S(e) = m
  <2>1. SUFFICES ASSUME m # 0, \A e \in Entities : S(e) # m PROVE FALSE
    OBVIOUS
  <2>2. m - 1 \in 0 .. n
    BY <1>4, <2>1
  <2>3. \A e \in Entities : S(e) <= m - 1
    BY <1>1, <1>4, <2>1
  <2>4. m - 1 \in T
    BY <2>2, <2>3
  <2>5. QED
    BY <1>3, <1>4, <2>4
<1>6. \E k \in 0 .. n : Is(k)
  BY <1>4, <1>5
<1>7. BestIn(log, ask) = CHOOSE k \in 0 .. n : Is(k)
  BY DEF BestIn, S
<1> HIDE DEF Is
<1>8. BestIn(log, ask) \in 0 .. n /\ Is(BestIn(log, ask))
  BY <1>6, <1>7
<1>9. QED
  BY <1>8 DEF Is, S

(* Of one score, an entity comes first by the list that it is first in and *)
(* by when it was added.                                                   *)
LEMMA EarlierPrecedes ==
  ASSUME NEW log, log \in Seq(Admissions), NEW ask, NEW d, NEW e,
         ScoreIn(log, ask, d) = ScoreIn(log, ask, e),
         \/ HitIn(log, ask, d) < HitIn(log, ask, e)
         \/ /\ HitIn(log, ask, d) = HitIn(log, ask, e)
            /\ Earlier(log, d, e, ask[HitIn(log, ask, e)]),
         Givers(log, e, ask[HitIn(log, ask, e)]) # {}
  PROVE  Precedes(log, ask, d, e)
<1> DEFINE key == ask[HitIn(log, ask, e)]
           D == Givers(log, d, key)
           E == Givers(log, e, key)
<1>1. CASE HitIn(log, ask, d) < HitIn(log, ask, e)
  BY <1>1 DEF Precedes
<1>2. CASE HitIn(log, ask, d) = HitIn(log, ask, e) /\ Earlier(log, d, e, key)
  <2>1. PICK i \in D : \A j \in E : i < j
    BY <1>2 DEF Earlier
  <2>2. D \subseteq Nat /\ E \subseteq Nat /\ D # {} /\ E # {}
    BY <2>1 DEF Givers
  <2>3. /\ FirstIn(log, ask, d) = CHOOSE k \in D : \A j \in D : k <= j
        /\ FirstIn(log, ask, e) = CHOOSE k \in E : \A j \in E : k <= j
    BY <1>2 DEF FirstIn
  <2> HIDE DEF D, E
  <2>4. /\ \E k \in D : \A j \in D : k <= j
        /\ \E k \in E : \A j \in E : k <= j
    BY <2>2, LeastNumber
  <2>5. FirstIn(log, ask, d) <= i /\ FirstIn(log, ask, d) \in Nat
    BY <2>1, <2>2, <2>3, <2>4
  <2>6. FirstIn(log, ask, e) > i /\ FirstIn(log, ask, e) \in Nat
    BY <2>1, <2>2, <2>3, <2>4
  <2>7. FirstIn(log, ask, d) < FirstIn(log, ask, e)
    BY <2>1, <2>2, <2>5, <2>6
  <2>8. QED
    BY <1>2, <2>7 DEF Precedes
<1>3. QED
  BY <1>1, <1>2

\* An answer of the entities f, in order.
AnswerOf(f, n, log, ask) == [i \in 1 .. n |-> [idx |-> f[i], score |-> ScoreIn(log, ask, f[i])]]

(* Who gives the best of those that qualify, in order, is exact.           *)
LEMMA ExactRanking ==
  ASSUME NEW log, NEW ask, NEW ratio, NEW limit \in Nat, NEW n \in Nat,
         NEW f \in [1 .. n -> Entities],
         \A i, j \in 1 .. n : f[i] = f[j] => i = j,
         \A e \in Entities : Enough(log, ask, ratio, e) <=> \E i \in 1 .. n : f[i] = e,
         \A i, j \in 1 .. n : i < j => Precedes(log, ask, f[i], f[j])
  PROVE  IsExact(log, ask, ratio, limit, SubSeq(AnswerOf(f, n, log, ask), 1, Least(limit, n)))
<1> DEFINE Q == Qualified(log, ask, ratio)
           take == Least(limit, n)
           all == AnswerOf(f, n, log, ask)
           answer == SubSeq(all, 1, take)
           given == {answer[i].idx : i \in DOMAIN answer}
           Beats(d, e) == Precedes(log, ask, d, e)
<1>1. \A e : e \in Q <=> \E i \in 1 .. n : f[i] = e
  BY DEF Qualified
<1>2. Cardinality(Q) = n
  <2> HIDE DEF Q
  <2>1. f \in [1 .. n -> Q] /\ \A e \in Q : \E i \in 1 .. n : f[i] = e
    BY <1>1
  <2>2. f \in Bijection(1 .. n, Q)
    BY <2>1 DEF Bijection, Injection, Surjection, IsInjective
  <2>3. IsFiniteSet(1 .. n) /\ Cardinality(1 .. n) = n
    BY CountTo
  <2>4. QED
    BY <2>2, <2>3, FS_Bijection DEF ExistsBijection
<1>3. take \in 0 .. n
  BY DEF Least
<1>4. /\ Len(answer) = take /\ DOMAIN answer = 1 .. take
      /\ \A i \in 1 .. take : answer[i].idx = f[i] /\ answer[i].score = ScoreIn(log, ask, f[i])
  <2>1. all = [i \in 1 .. n |-> all[i]]
        /\ \A i \in 1 .. n : all[i].idx = f[i] /\ all[i].score = ScoreIn(log, ask, f[i])
    BY DEF AnswerOf
  <2> DEFINE V == {all[i] : i \in 1 .. n}
  <2>2. all \in Seq(V) /\ Len(all) = n
    <3> HIDE DEF all
    <3>1. all \in [1 .. n -> V]
      BY <2>1
    <3>2. QED
      BY <2>1, <3>1, SeqDef
  <2> HIDE DEF all, take, V
  <2>3. Len(answer) = take /\ DOMAIN answer = 1 .. take
        /\ \A i \in 1 .. take : answer[i] = all[i]
    BY <1>3, <2>2
  <2>4. QED
    BY <1>3, <2>1, <2>3
<1> HIDE DEF Q, take, answer
<1>5. \A i \in 1 .. take : i \in 1 .. n /\ answer[i].idx \in Q
  BY <1>1, <1>3, <1>4
<1>6. ASSUME NEW i \in 1 .. take, NEW j \in 1 .. i - 1
      PROVE  Beats(answer[j].idx, answer[i].idx)
  <2>1. j \in 1 .. take /\ j \in 1 .. n /\ i \in 1 .. n /\ j < i
    BY <1>3
  <2>2. QED
    BY <1>4, <2>1
<1>7. ASSUME NEW i \in 1 .. take, NEW e \in Q \ given
      PROVE  Beats(answer[i].idx, e)
  <2>1. PICK k \in 1 .. n : f[k] = e
    BY <1>1, <1>7
  <2>2. k \notin 1 .. take
    BY <1>4, <1>7, <2>1
  <2>3. i \in 1 .. n /\ i < k
    BY <1>3, <2>2
  <2>4. QED
    BY <1>4, <2>1, <2>3
<1>8. IsExact(log, ask, ratio, limit, answer)
  BY <1>2, <1>4, <1>5, <1>6, <1>7 DEF IsExact, Q, take
<1>9. QED
  BY <1>8 DEF answer, take

(* Nothing is exact if nothing qualifies.                                  *)
LEMMA NoneIsExact ==
  ASSUME NEW log, NEW ask, NEW ratio, NEW limit \in Nat,
         \A e \in Entities : ~Enough(log, ask, ratio, e)
  PROVE  IsExact(log, ask, ratio, limit, <<>>)
<1>1. Qualified(log, ask, ratio) = {}
  BY DEF Qualified
<1>2. Least(limit, 0) = 0
  BY DEF Least
<1>3. Cardinality({}) = 0 /\ Len(<<>>) = 0 /\ DOMAIN <<>> = {}
  BY FS_EmptySet
<1>4. QED
  BY <1>1, <1>2, <1>3 DEF IsExact

----------------------------------------------------------------------------
(* The answers.                                                            *)

LEMMA QueriesTyped ==
  ASSUME NEW ratio \in Ratios, NEW limit \in Limits
  PROVE  limit \in Nat /\ ratio.num \in Nat /\ ratio.den \in Nat \ {0}
BY QueriesAssumption

(* An answer without the scoring loops leaves the rest as it is.           *)
LEMMA AnswerRests ==
  ASSUME TrigramInv, mode = "ready", mode' = "answered",
         UNCHANGED <<indexer, lists, searcher, added>>
  PROVE  /\ BuilderInv' /\ PostsInv' /\ HistoryInv' /\ ListsInv'
         /\ ScratchInv' /\ QueryInv' /\ ScoresInv'
<1>1. BuilderInv' /\ PostsInv' /\ HistoryInv' /\ ListsInv' /\ Ids' = Ids
  BY BuilderRests
<1>2. QueryInv' /\ ScoresInv'
  BY DEF QueryInv, ScoresInv
<1>3. ScratchInv'
  BY <1>1 DEF searcher, TrigramInv, ScratchInv
<1>4. QED
  BY <1>1, <1>2, <1>3

LEMMA SearchNothingKeeps ==
  ASSUME TrigramInv, NEW name \in Names, NEW ratio \in Ratios, NEW limit \in Limits,
         SearchNothing(name, ratio, limit)
  PROVE  TrigramInv'
<1> DEFINE n == Len(Windows(Lower[name]))
           ask == AskedFor(name)
<1>1. /\ mode = "ready" /\ mode' = "answered"
      /\ n = 0 \/ (n = 1 /\ ratio.num > ratio.den)
      /\ asked' = ask
      /\ query'.ratio = ratio /\ query'.limit = limit
      /\ result' = <<>>
      /\ UNCHANGED <<indexer, lists, searcher, added>>
  BY DEF SearchNothing, Asks, AskedFor, Answer
<1>2. n \in Nat /\ DOMAIN ask = 1 .. n /\ Len(ask) = n
  BY <1>1, FoundForHolds
<1>3. limit \in Nat /\ ratio.num \in Nat /\ ratio.den \in Nat \ {0}
  BY QueriesTyped
<1> HIDE DEF n, ask
<1>4. ASSUME NEW e \in Entities PROVE ~Enough(added, ask, ratio, e)
  <2> DEFINE s == ScoreIn(added, ask, e)
             best == BestIn(added, ask)
  <2>1. s \in 0 .. n /\ best \in 0 .. n /\ s <= best
    BY <1>2, ScoreBounds, BestIs
  <2>2. Enough(added, ask, ratio, e) => s >= 1 /\ s * ratio.den >= best * ratio.num
    BY DEF Enough
  <2> HIDE DEF s, best
  <2>3. CASE n = 0
    BY <2>1, <2>2, <2>3
  <2>4. CASE n = 1 /\ ratio.num > ratio.den
    <3>1. s >= 1 => s = 1 /\ best = 1
      BY <2>1, <2>4
    <3>2. ~(1 * ratio.den >= 1 * ratio.num)
      BY <1>3, <2>4
    <3>3. QED
      BY <2>2, <3>1, <3>2
  <2>5. QED
    BY <1>1, <2>3, <2>4
<1>5. IsExact(added', asked', query'.ratio, query'.limit, result')
  BY <1>1, <1>3, <1>4, NoneIsExact
<1>6. QED
  BY <1>1, <1>5, AnswerRests, ExactNext DEF TrigramInv

(* searchSingle: the list of the only trigram, as it is.                   *)
LEMMA SearchSingleKeeps ==
  ASSUME TrigramInv, NEW name \in Names, NEW ratio \in Ratios, NEW limit \in Limits,
         SearchSingle(name, ratio, limit)
  PROVE  TrigramInv'
<1> DEFINE ask == AskedFor(name)
           all == Found(HashOf[Windows(Lower[name])[1]])
           n == Len(all)
           take == Least(limit, n)
<1>1. /\ mode = "ready" /\ mode' = "answered"
      /\ Len(Windows(Lower[name])) = 1
      /\ ratio.num <= ratio.den
      /\ asked' = ask
      /\ query'.ratio = ratio /\ query'.limit = limit
      /\ result' = Scored(SubSeq(all, 1, take), 1)
      /\ UNCHANGED <<indexer, lists, searcher, added>>
  BY DEF SearchSingle, Asks, AskedFor, Answer, Least
<1>2. /\ DOMAIN ask = 1 .. 1 /\ Len(ask) = 1
      /\ ListFor(all, ask[1], added)
  <2>1. 1 \in DOMAIN FoundFor(name) /\ FoundFor(name)[1] = all
    BY <1>1, FoundForHolds DEF FoundFor
  <2>2. QED
    BY <1>1, <2>1, FoundForHolds
<1>3. limit \in Nat /\ ratio.num \in Nat /\ ratio.den \in Nat \ {0}
  BY QueriesTyped
<1>4. added \in Seq(Admissions)
  BY DEF TrigramInv, HistoryInv
<1> HIDE DEF ask, all
<1>5. all \in [1 .. n -> Entities] /\ n \in Nat /\ all \in Seq(Entities)
  BY <1>2 DEF ListFor
<1>6. ASSUME NEW e, Givers(added, e, ask[1]) # {}
      PROVE  ScoreIn(added, ask, e) = 1 /\ HitIn(added, ask, e) = 1
  <2>1. Hits(added, ask, e) = 1 .. 1
    BY <1>2, <1>6 DEF Hits
  <2>2. Cardinality(1 .. 1) = 1
    BY CountTo
  <2>3. QED
    BY <1>6, <2>1, <2>2 DEF ScoreIn, HitIn
<1>7. ASSUME NEW e \in Entities
      PROVE  Enough(added, ask, ratio, e) <=> Givers(added, e, ask[1]) # {}
  <2> DEFINE best == BestIn(added, ask)
  <2>1. CASE Givers(added, e, ask[1]) = {}
    <3>1. Hits(added, ask, e) = {}
      BY <1>2, <2>1 DEF Hits
    <3>2. ScoreIn(added, ask, e) = 0
      BY <3>1, FS_EmptySet DEF ScoreIn
    <3>3. QED
      BY <2>1, <3>2 DEF Enough
  <2>2. CASE Givers(added, e, ask[1]) # {}
    <3>1. ScoreIn(added, ask, e) = 1
      BY <1>6, <2>2
    <3>2. best \in 0 .. 1 /\ ScoreIn(added, ask, e) <= best
      BY <1>2, BestIs
    <3> HIDE DEF best
    <3>3. best = 1
      BY <3>1, <3>2
    <3>4. 1 * ratio.den >= 1 * ratio.num
      BY <1>1, <1>3
    <3>5. QED
      BY <1>2, <2>2, <3>1, <3>3, <3>4 DEF Enough, best
  <2>3. QED
    BY <2>1, <2>2
<1>8. \A i \in 1 .. n : Givers(added, all[i], ask[1]) # {}
  BY <1>2, <1>5 DEF ListFor, Range
<1>9. \A e \in Entities : Enough(added, ask, ratio, e) <=> \E i \in 1 .. n : all[i] = e
  BY <1>2, <1>5, <1>7 DEF ListFor, Range
<1>10. \A i, j \in 1 .. n : all[i] = all[j] => i = j
  BY <1>2, <1>4, <1>5, ListedOnce
<1>11. ASSUME NEW i \in 1 .. n, NEW j \in 1 .. n, i < j
       PROVE  Precedes(added, ask, all[i], all[j])
  <2>1. Earlier(added, all[i], all[j], ask[1])
    BY <1>2, <1>5, <1>11 DEF ListFor
  <2>2. /\ ScoreIn(added, ask, all[i]) = 1 /\ HitIn(added, ask, all[i]) = 1
        /\ ScoreIn(added, ask, all[j]) = 1 /\ HitIn(added, ask, all[j]) = 1
    BY <1>6, <1>8
  <2>3. QED
    BY <1>4, <1>8, <2>1, <2>2, EarlierPrecedes
<1>12. IsExact(added, ask, ratio, limit, SubSeq(AnswerOf(all, n, added, ask), 1, take))
  BY <1>3, <1>4, <1>5, <1>9, <1>10, <1>11, ExactRanking
<1>13. result' = SubSeq(AnswerOf(all, n, added, ask), 1, take)
  <2> DEFINE whole == AnswerOf(all, n, added, ask)
  <2>1. take \in Nat /\ take <= n
    BY <1>3, <1>5 DEF Least
  <2>2. whole = [i \in 1 .. n |-> [idx |-> all[i], score |-> 1]]
    BY <1>6, <1>8 DEF AnswerOf
  <2>3. \A i \in 1 .. n : whole[i] = [idx |-> all[i], score |-> 1]
    BY <2>2
  <2> HIDE DEF take, whole
  <2>4. /\ DOMAIN SubSeq(all, 1, take) = 1 .. take
        /\ \A i \in 1 .. take : SubSeq(all, 1, take)[i] = all[i] /\ i \in 1 .. n
    BY <1>5, <2>1
  <2>5. SubSeq(whole, 1, take) = [i \in 1 .. take |-> whole[i]]
    BY <2>1, <2>2
  <2>6. result' = [i \in 1 .. take |-> [idx |-> all[i], score |-> 1]]
    BY <1>1, <2>4 DEF Scored
  <2>7. QED
    BY <2>3, <2>4, <2>5, <2>6 DEF whole
<1>14. IsExact(added', asked', query'.ratio, query'.limit, result')
  BY <1>1, <1>12, <1>13
<1>15. QED
  BY <1>1, <1>14, AnswerRests, ExactNext DEF TrigramInv

(* Two hashes that nothing has: all entities miss two trigrams.            *)
LEMMA MissingTwo ==
  ASSUME NEW log, NEW ask, NEW n \in Nat, DOMAIN ask = 1 .. n, Len(ask) = n,
         NEW missing, missing \subseteq 1 .. n, Cardinality(missing) >= 2,
         NEW e, \A t \in missing : Givers(log, e, ask[t]) = {}
  PROVE  ScoreIn(log, ask, e) < Len(ask) - 1
<1> DEFINE H == Hits(log, ask, e)
<1>1. IsFiniteSet(H) /\ H \subseteq 1 .. n /\ IsFiniteSet(1 .. n) /\ Cardinality(1 .. n) = n
  BY ScoreBounds, CountTo
<1>2. H \cap missing = {}
  BY DEF Hits
<1> HIDE DEF H
<1>3. IsFiniteSet(missing) /\ H \cup missing \subseteq 1 .. n
  BY <1>1, FS_Subset
<1>4. Cardinality(H) \in Nat /\ Cardinality(missing) \in Nat
  BY <1>1, <1>3, FS_CardinalityType
<1>5. Cardinality(H \cup missing) = Cardinality(H) + Cardinality(missing)
  <2>1. Cardinality(H \cup missing)
            = Cardinality(H) + Cardinality(missing) - Cardinality(H \cap missing)
    BY <1>1, <1>3, FS_Union, Zenon
  <2>2. Cardinality(H \cap missing) = 0
    BY <1>2, FS_EmptySet
  <2>3. QED
    BY <1>4, <2>1, <2>2
<1>6. Cardinality(H \cup missing) <= n
  <2> DEFINE U == H \cup missing
  <2>1. U \subseteq 1 .. n
    BY <1>3
  <2> HIDE DEF U
  <2>2. U \in SUBSET (1 .. n)
    BY <2>1
  <2>3. Cardinality(U) <= Cardinality(1 .. n)
    BY <1>1, <2>2, FS_Subset, Zenon
  <2>4. QED
    BY <1>1, <2>3 DEF U
<1>7. Cardinality(H) < n - 1
  BY <1>4, <1>5, <1>6
<1>8. QED
  BY <1>7 DEF ScoreIn, H

LEMMA SearchStartExact ==
  ASSUME TrigramInv, NEW name \in Names, NEW ratio \in Ratios, NEW limit \in Limits,
         SearchStart(name, ratio, limit)
  PROVE  SearchIsExact'
<1> DEFINE windows == Windows(Lower[name])
           n == Len(windows)
           ask == AskedFor(name)
           missing == {t \in DOMAIN windows : Missing(HashOf[windows[t]])}
<1>1. CASE mode' # "answered"
  BY <1>1 DEF SearchIsExact
<1>2. CASE mode' = "answered"
  <2>1. /\ mode = "ready"
        /\ asked' = ask
        /\ query'.ratio = ratio /\ query'.limit = limit
        /\ Cardinality(missing) >= 2
        /\ result' = <<>>
        /\ added' = added
    BY <1>2 DEF SearchStart, Asks, AskedFor, Answer
  <2>2. limit \in Nat
    BY QueriesTyped
  <2>3. /\ n \in Nat /\ DOMAIN ask = 1 .. n /\ Len(ask) = n
        /\ DOMAIN windows = 1 .. n
        /\ \A t \in 1 .. n : Missing(HashOf[windows[t]]) =>
               \A e : Givers(added, e, ask[t]) = {}
    <3>1. windows \in Seq(Words)
      BY WindowsAreWords
    <3>2. DOMAIN windows = 1 .. n
      BY <3>1
    <3>3. QED
      BY <2>1, <3>2, FoundForHolds
  <2>4. missing \subseteq 1 .. n /\ \A t \in missing : \A e : Givers(added, e, ask[t]) = {}
    BY <2>3
  <2> HIDE DEF missing, ask, n
  <2>5. ASSUME NEW e \in Entities PROVE ~Enough(added, ask, ratio, e)
    <3>1. ScoreIn(added, ask, e) < Len(ask) - 1 /\ ScoreIn(added, ask, e) \in 0 .. n
      BY <2>1, <2>3, <2>4, MissingTwo, ScoreBounds
    <3>2. QED
      BY <2>3, <3>1 DEF Enough
  <2>6. IsExact(added', asked', query'.ratio, query'.limit, result')
    BY <2>1, <2>2, <2>5, NoneIsExact
  <2>7. QED
    BY <2>6, ExactNext
<1>3. QED
  BY <1>1, <1>2

LEMMA AtLeastLarger ==
  ASSUME NEW s \in Nat, NEW m \in Nat, NEW k \in Nat
  PROVE  s >= Larger(m, k) <=> s >= m /\ s >= k
BY DEF Larger

(* When all lists are scored, what was touched is in the first or the      *)
(* second, and has its score.                                              *)
LEMMA TouchedScores ==
  ASSUME TrigramInv, mode = "scoring", step > Len(query.lists)
  PROVE  LET n == Len(asked)
         IN  /\ ListsScored(n)
             /\ \A e \in Range(touched) :
                    /\ e \in Entities
                    /\ marks[e].score = ScoreIn(added, asked, e)
                    /\ Givers(added, e, asked[HitIn(added, asked, e)]) # {}
             /\ \A e \in Entities :
                    ScoreIn(added, asked, e) >= n - 1 => e \in Range(touched)
<1> DEFINE n == Len(asked)
<1>1. ListsScored(n) /\ ScoresInv /\ touched \in Seq(Entities)
  BY ListsAreScored DEF TrigramInv, ScratchInv
<1> HIDE DEF n
<1>2. /\ n \in Nat /\ n >= 2 /\ step \in Nat /\ step > n /\ 1 \in 1 .. n /\ 2 \in 1 .. n
      /\ DOMAIN asked = 1 .. n /\ DOMAIN query.lists = 1 .. n /\ Len(asked) = n
  BY <1>1 DEF ListsScored
<1>3. ASSUME NEW e \in Entities, NEW t \in 1 .. n
      PROVE  e \in Seen(t) <=> Givers(added, e, asked[t]) # {}
  <2>1. t < step
    BY <1>2
  <2>2. Seen(t) = Range(query.lists[t])
    BY <1>1, <2>1, AllSeen
  <2>3. ListFor(query.lists[t], asked[t], added)
    BY <1>1 DEF ListsScored
  <2>4. QED
    BY <2>2, <2>3 DEF ListFor
<1>4. ASSUME NEW e \in Entities PROVE Sightings(e) = Hits(added, asked, e)
  BY <1>2, <1>3 DEF Sightings, Hits
<1>5. /\ Range(touched) = Seen(1) \cup Seen(2)
      /\ \A e \in Range(touched) : marks[e].score = Cardinality(Sightings(e))
  BY <1>1 DEF ScoresInv
<1>6. ASSUME NEW e \in Range(touched)
      PROVE  /\ e \in Entities
             /\ marks[e].score = ScoreIn(added, asked, e)
             /\ Givers(added, e, asked[HitIn(added, asked, e)]) # {}
  <2>1. e \in Entities
    BY <1>1 DEF Range
  <2>2. marks[e].score = ScoreIn(added, asked, e)
    BY <1>4, <1>5, <2>1 DEF ScoreIn
  <2>3. Givers(added, e, asked[1]) # {} \/ Givers(added, e, asked[2]) # {}
    BY <1>2, <1>3, <1>5, <2>1
  <2>4. QED
    BY <2>1, <2>2, <2>3 DEF HitIn
<1>7. ASSUME NEW e \in Entities, ScoreIn(added, asked, e) >= n - 1
      PROVE  e \in Range(touched)
  <2>1. SUFFICES ASSUME e \notin Range(touched) PROVE FALSE
    OBVIOUS
  <2>2. Givers(added, e, asked[1]) = {} /\ Givers(added, e, asked[2]) = {}
    BY <1>2, <1>3, <1>5, <2>1
  <2> DEFINE missing == 1 .. 2
  <2>3. missing \subseteq 1 .. n /\ \A t \in missing : Givers(added, e, asked[t]) = {}
    <3>1. \A t \in missing : t = 1 \/ t = 2
      OBVIOUS
    <3>2. QED
      BY <1>2, <2>2, <3>1
  <2>4. Cardinality(missing) >= 2
    <3>1. 2 \in Nat
      OBVIOUS
    <3>2. Cardinality(1 .. 2) = 2
      BY <3>1, CountTo, Zenon
    <3>3. QED
      BY <3>2
  <2> HIDE DEF missing
  <2>5. ScoreIn(added, asked, e) < Len(asked) - 1
    BY <1>2, <2>3, <2>4, MissingTwo
  <2>6. ScoreIn(added, asked, e) \in 0 .. n
    BY <1>2, ScoreBounds
  <2>7. QED
    BY <1>2, <1>7, <2>5, <2>6
<1>8. QED
  BY <1>1, <1>6, <1>7 DEF n

(* The best of what was touched is the best of all, if that misses one     *)
(* trigram at most.                                                        *)
LEMMA MaxScoreIsBest ==
  ASSUME TrigramInv, mode = "scoring", step > Len(query.lists),
         BestIn(added, asked) >= Len(asked) - 1
  PROVE  maxScore = BestIn(added, asked)
<1> DEFINE n == Len(asked)
           best == BestIn(added, asked)
<1>1. /\ ListsScored(n)
      /\ \A e \in Range(touched) :
             e \in Entities /\ marks[e].score = ScoreIn(added, asked, e)
      /\ \A e \in Entities : ScoreIn(added, asked, e) >= n - 1 => e \in Range(touched)
  BY TouchedScores
<1>2. /\ \A e \in Range(touched) : marks[e].score <= maxScore
      /\ maxScore \in Nat
      /\ maxScore = 0 \/ \E e \in Range(touched) : marks[e].score = maxScore
  BY DEF TrigramInv, ScoresInv
<1>3. n \in Nat /\ n >= 2 /\ DOMAIN asked = 1 .. n /\ Len(asked) = n
  BY <1>1 DEF ListsScored
<1>4. /\ best \in 0 .. n
      /\ \A e \in Entities : ScoreIn(added, asked, e) <= best
      /\ best = 0 \/ \E e \in Entities : ScoreIn(added, asked, e) = best
  BY <1>3, BestIs
<1>5. best >= n - 1
  OBVIOUS
<1> HIDE DEF n, best
<1>6. PICK e \in Entities : ScoreIn(added, asked, e) = best
  BY <1>3, <1>4, <1>5
<1>7. best <= maxScore
  BY <1>1, <1>2, <1>5, <1>6
<1>8. maxScore <= best
  BY <1>1, <1>2, <1>4
<1>9. QED
  BY <1>2, <1>4, <1>7, <1>8 DEF best

(* The least score that counts is that of the entities that qualify.       *)
LEMMA LowestQualifies ==
  ASSUME TrigramInv, mode = "scoring", step > Len(query.lists)
  PROVE  /\ \A e \in Entities :
                Enough(added, asked, query.ratio, e) => e \in Range(touched)
         /\ \A e \in Range(touched) :
                marks[e].score >= Lowest <=> Enough(added, asked, query.ratio, e)
<1> DEFINE n == Len(asked)
           best == BestIn(added, asked)
           num == query.ratio.num
           den == query.ratio.den
           floor == Ceiling(maxScore * num, den)
<1>1. /\ ListsScored(n)
      /\ \A e \in Range(touched) :
             e \in Entities /\ marks[e].score = ScoreIn(added, asked, e)
      /\ \A e \in Entities : ScoreIn(added, asked, e) >= n - 1 => e \in Range(touched)
  BY TouchedScores
<1>2. /\ n \in Nat /\ n >= 2 /\ DOMAIN asked = 1 .. n /\ Len(asked) = n
      /\ Len(query.lists) = n
  BY <1>1 DEF ListsScored
<1>3. num \in Nat /\ den \in Nat \ {0} /\ maxScore \in Nat
  BY QueriesAssumption DEF TrigramInv, QueryInv, ScoresInv
<1>4. /\ best \in 0 .. n
      /\ \A e \in Entities : ScoreIn(added, asked, e) <= best
  BY <1>2, BestIs
<1>5. maxScore * num \in Nat
  BY <1>3, Product
<1>6. floor \in Nat /\ \A s \in Nat : s >= floor <=> s * den >= maxScore * num
  BY <1>3, <1>5, CeilingIs
<1>7. Lowest = Larger(Larger(1, n - 1), floor)
  BY <1>2 DEF Lowest
<1>8. \A e \in Entities : Enough(added, asked, query.ratio, e) <=>
          /\ ScoreIn(added, asked, e) >= 1
          /\ ScoreIn(added, asked, e) >= n - 1
          /\ ScoreIn(added, asked, e) * den >= best * num
  BY DEF Enough
<1>9. best >= n - 1 => maxScore = best
  BY MaxScoreIsBest
<1> HIDE DEF n, best, num, den, floor
<1>10. ASSUME NEW s \in Nat
       PROVE  s >= Lowest <=> s >= 1 /\ s >= n - 1 /\ s * den >= maxScore * num
  <2>1. n - 1 \in Nat /\ Larger(1, n - 1) \in Nat
    BY <1>2 DEF Larger
  <2>2. s >= Lowest <=> s >= Larger(1, n - 1) /\ s >= floor
    BY <1>6, <1>7, <2>1, AtLeastLarger
  <2>3. s >= Larger(1, n - 1) <=> s >= 1 /\ s >= n - 1
    BY <2>1, AtLeastLarger
  <2>4. s >= floor <=> s * den >= maxScore * num
    BY <1>6
  <2>5. QED
    BY <2>2, <2>3, <2>4
<1>11. ASSUME NEW e \in Range(touched)
       PROVE  marks[e].score >= Lowest <=> Enough(added, asked, query.ratio, e)
  <2> DEFINE s == ScoreIn(added, asked, e)
  <2>1. e \in Entities /\ marks[e].score = s
    BY <1>1
  <2>2. s \in Nat /\ s <= best /\ best \in Nat
    <3>1. s \in 0 .. n
      BY <1>2, ScoreBounds
    <3>2. s <= best
      BY <1>4, <2>1
    <3> HIDE DEF s
    <3>3. QED
      BY <1>2, <1>4, <3>1, <3>2
  <2>3. s >= Lowest <=> s >= 1 /\ s >= n - 1 /\ s * den >= maxScore * num
    BY <1>10, <2>2
  <2>4. Enough(added, asked, query.ratio, e)
            <=> s >= 1 /\ s >= n - 1 /\ s * den >= best * num
    BY <1>8, <2>1
  <2> HIDE DEF s
  <2>5. CASE best >= n - 1
    BY <1>9, <2>1, <2>3, <2>4, <2>5
  <2>6. CASE ~(best >= n - 1)
    <3>1. ~(s >= n - 1)
      BY <1>2, <2>2, <2>6
    <3>2. QED
      BY <2>1, <2>3, <2>4, <3>1
  <2>7. QED
    BY <2>5, <2>6
<1>12. \A e \in Entities :
           Enough(added, asked, query.ratio, e) => e \in Range(touched)
  BY <1>1, <1>8
<1>13. QED
  BY <1>11, <1>12

(* What was touched is touched once.                                       *)
LEMMA TouchedOnce ==
  ASSUME TrigramInv, mode = "scoring",
         NEW i \in DOMAIN touched, NEW j \in DOMAIN touched, touched[i] = touched[j]
  PROVE  i = j
<1>1. added \in Seq(Admissions) /\ touched \in Seq(Entities)
  BY DEF TrigramInv, HistoryInv, ScratchInv
<1>2. \A k, l \in DOMAIN touched : k < l => Comes(touched[k], touched[l])
  BY DEF TrigramInv, ScoresInv
<1>3. ASSUME NEW e PROVE ~Comes(e, e)
  <2>1. FirstHit(e) \in Nat
    BY DEF FirstHit
  <2>2. QED
    BY <1>1, <2>1, NotEarlierThanItself DEF Comes
<1>4. ~(i < j) /\ ~(j < i)
  BY <1>2, <1>3
<1>5. i \in Nat /\ j \in Nat
  BY <1>1
<1>6. QED
  BY <1>4, <1>5

LEMMA RankedIsExact ==
  ASSUME TrigramInv, mode = "scoring", step > Len(query.lists)
  PROVE  LET take == Least(query.limit, Len(Ranked))
             answer == IF Lowest > maxScore THEN <<>> ELSE SubSeq(Ranked, 1, take)
         IN  IsExact(added, asked, query.ratio, query.limit, answer)
<1> DEFINE ratio == query.ratio
           limit == query.limit
           m == Len(touched)
           S == {i \in DOMAIN touched : ScoreAt(i) >= Lowest}
           N == Cardinality(S)
           places == Ordered(S, BestFirst)
           f == [p \in 1 .. N |-> touched[places[p]]]
<1>1. /\ added \in Seq(Admissions) /\ touched \in Seq(Entities)
      /\ limit \in Nat /\ maxScore \in Nat
  BY QueriesAssumption DEF TrigramInv, HistoryInv, ScratchInv, QueryInv, ScoresInv
<1>2. m \in Nat /\ DOMAIN touched = 1 .. m
  BY <1>1
<1>3. /\ ListsScored(Len(asked))
      /\ \A e \in Range(touched) :
             /\ e \in Entities
             /\ marks[e].score = ScoreIn(added, asked, e)
             /\ Givers(added, e, asked[HitIn(added, asked, e)]) # {}
  BY TouchedScores
<1>4. \A i \in 1 .. m :
          /\ touched[i] \in Range(touched)
          /\ touched[i] \in Entities
          /\ ScoreAt(i) = ScoreIn(added, asked, touched[i])
          /\ ScoreAt(i) \in Nat
          /\ ScoreAt(i) <= maxScore
  <2>1. ASSUME NEW i \in 1 .. m
        PROVE  /\ touched[i] \in Range(touched)
               /\ touched[i] \in Entities
               /\ ScoreAt(i) = ScoreIn(added, asked, touched[i])
               /\ ScoreAt(i) \in Nat
               /\ ScoreAt(i) <= maxScore
    <3>1. touched[i] \in Range(touched)
      BY <1>2 DEF Range
    <3>2. ScoreAt(i) = ScoreIn(added, asked, touched[i]) /\ touched[i] \in Entities
      BY <1>3, <3>1 DEF ScoreAt
    <3>3. Len(asked) \in Nat /\ DOMAIN asked = 1 .. Len(asked)
      BY <1>3 DEF ListsScored
    <3>4. ScoreIn(added, asked, touched[i]) \in 0 .. Len(asked)
      BY <3>3, ScoreBounds
    <3>5. marks[touched[i]].score <= maxScore
      BY <3>1 DEF TrigramInv, ScoresInv
    <3>6. QED
      BY <3>1, <3>2, <3>3, <3>4, <3>5 DEF ScoreAt
  <2>2. QED
    BY <2>1
<1>5. /\ \A e \in Entities : Enough(added, asked, ratio, e) => e \in Range(touched)
      /\ \A e \in Range(touched) : marks[e].score >= Lowest <=> Enough(added, asked, ratio, e)
  BY LowestQualifies
<1>6. ASSUME NEW e \in Entities
      PROVE  Enough(added, asked, ratio, e) <=> \E i \in S : touched[i] = e
  <2>1. ASSUME Enough(added, asked, ratio, e) PROVE \E i \in S : touched[i] = e
    <3>1. PICK i \in DOMAIN touched : touched[i] = e
      BY <1>5, <2>1 DEF Range
    <3>2. ScoreAt(i) >= Lowest
      BY <1>5, <2>1, <3>1 DEF ScoreAt, Range
    <3>3. QED
      BY <3>1, <3>2
  <2>2. ASSUME NEW i \in S, touched[i] = e PROVE Enough(added, asked, ratio, e)
    BY <1>2, <1>4, <1>5, <2>2 DEF ScoreAt
  <2>3. QED
    BY <2>1, <2>2
<1>7. CASE Lowest > maxScore
  <2>1. Lowest \in Nat
    <3>1. ratio.num \in Nat /\ ratio.den \in Nat \ {0}
      BY QueriesAssumption DEF TrigramInv, QueryInv
    <3>2. maxScore * ratio.num \in Nat
      BY <1>1, <3>1, Product
    <3>3. Ceiling(maxScore * ratio.num, ratio.den) \in Nat
      BY <3>1, <3>2, CeilingIs
    <3>4. Len(query.lists) \in Nat
      BY <1>3 DEF ListsScored
    <3> HIDE DEF ratio
    <3>5. QED
      BY <3>3, <3>4 DEF Lowest, Larger, ratio
  <2>2. \A i \in 1 .. m : ~(ScoreAt(i) >= Lowest)
    BY <1>1, <1>4, <1>7, <2>1
  <2>3. \A e \in Entities : ~Enough(added, asked, ratio, e)
    BY <1>2, <1>6, <2>2
  <2>4. IsExact(added, asked, ratio, limit, <<>>)
    BY <1>1, <2>3, NoneIsExact
  <2>5. QED
    BY <1>7, <2>4
<1>8. CASE ~(Lowest > maxScore)
  <2>1. S \subseteq 1 .. m /\ IsFiniteSet(1 .. m)
    BY <1>2, FS_Interval
  <2>2. \A i, j \in S : <<i, j>> \in BestFirst <=>
            ScoreAt(i) > ScoreAt(j) \/ (ScoreAt(i) = ScoreAt(j) /\ i < j)
    BY DEF BestFirst
  <2> HIDE DEF S
  <2>3. IsFiniteSet(S)
    BY <2>1, FS_Subset
  <2>4. \A i \in S : i \in Nat /\ i \in 1 .. m /\ ScoreAt(i) \in Nat
    BY <1>2, <1>4, <2>1
  <2>5. IsOrder(S, BestFirst)
    <3>1. \A i \in S : <<i, i>> \notin BestFirst
      BY <2>2, <2>4
    <3>2. \A i, j, k \in S :
              <<i, j>> \in BestFirst /\ <<j, k>> \in BestFirst => <<i, k>> \in BestFirst
      BY <2>2, <2>4
    <3>3. \A i, j \in S : i # j => <<i, j>> \in BestFirst \/ <<j, i>> \in BestFirst
      BY <2>2, <2>4
    <3>4. QED
      BY <3>1, <3>2, <3>3 DEF IsOrder
  <2>6. /\ N \in Nat
        /\ places \in [1 .. N -> S]
        /\ \A a, b \in 1 .. N : a < b => <<places[a], places[b]>> \in BestFirst
        /\ \A i \in S : \E a \in 1 .. N : places[a] = i
    BY <2>3, <2>5, OrderedSorts
  <2>7. Ranked = [p \in DOMAIN places |->
                     [idx |-> touched[places[p]], score |-> ScoreAt(places[p])]]
    BY DEF Ranked, S
  <2> HIDE DEF N, places
  <2>8. \A a \in 1 .. N : places[a] \in S /\ places[a] \in 1 .. m
    BY <2>4, <2>6
  <2>9. /\ f \in [1 .. N -> Entities]
        /\ \A a \in 1 .. N : f[a] = touched[places[a]]
    BY <1>4, <2>8
  <2> HIDE DEF f
  <2>10. Ranked = AnswerOf(f, N, added, asked) /\ Len(Ranked) = N
    <3>1. \A a \in 1 .. N : ScoreAt(places[a]) = ScoreIn(added, asked, f[a])
      BY <1>4, <2>8, <2>9
    <3>2. Ranked = [p \in 1 .. N |-> [idx |-> f[p], score |-> ScoreIn(added, asked, f[p])]]
      BY <2>6, <2>7, <2>9, <3>1
    <3>3. QED
      BY <2>6, <3>2 DEF AnswerOf
  <2>11. \A a, b \in 1 .. N : f[a] = f[b] => a = b
    <3>1. SUFFICES ASSUME NEW a \in 1 .. N, NEW b \in 1 .. N, f[a] = f[b] PROVE a = b
      OBVIOUS
    <3>2. places[a] = places[b]
      BY <1>2, <2>8, <2>9, <3>1, TouchedOnce
    <3>3. ~(a < b) /\ ~(b < a)
      BY <2>5, <2>6, <2>8, <3>2 DEF IsOrder
    <3>4. QED
      BY <2>6, <3>3
  <2>12. \A e \in Entities : Enough(added, asked, ratio, e) <=> \E a \in 1 .. N : f[a] = e
    <3>1. SUFFICES ASSUME NEW e \in Entities
                   PROVE  (\E i \in S : touched[i] = e) <=> \E a \in 1 .. N : f[a] = e
      BY <1>6
    <3>2. ASSUME NEW i \in S, touched[i] = e PROVE \E a \in 1 .. N : f[a] = e
      <4>1. PICK a \in 1 .. N : places[a] = i
        BY <2>6
      <4>2. f[a] = e
        BY <2>9, <3>2, <4>1
      <4>3. QED
        BY <4>2
    <3>3. ASSUME NEW a \in 1 .. N, f[a] = e PROVE \E i \in S : touched[i] = e
      BY <2>8, <2>9, <3>3
    <3>4. QED
      BY <3>2, <3>3
  <2>13. ASSUME NEW a \in 1 .. N, NEW b \in 1 .. N, a < b
         PROVE  Precedes(added, asked, f[a], f[b])
    <3> DEFINE i == places[a]
               j == places[b]
    <3>1. i \in S /\ j \in S /\ <<i, j>> \in BestFirst /\ f[a] = touched[i] /\ f[b] = touched[j]
      BY <2>6, <2>8, <2>9, <2>13
    <3> HIDE DEF i, j
    <3>2. /\ ScoreAt(i) = ScoreIn(added, asked, f[a])
          /\ ScoreAt(j) = ScoreIn(added, asked, f[b])
          /\ touched[j] \in Range(touched)
          /\ i \in DOMAIN touched /\ j \in DOMAIN touched
      BY <1>2, <1>4, <2>4, <3>1
    <3>3. CASE ScoreAt(i) > ScoreAt(j)
      BY <3>2, <3>3 DEF Precedes
    <3>4. CASE ScoreAt(i) = ScoreAt(j) /\ i < j
      <4>1. Comes(f[a], f[b])
        BY <3>1, <3>2, <3>4 DEF TrigramInv, ScoresInv
      <4>2. \A e : FirstHit(e) = HitIn(added, asked, e)
        BY DEF FirstHit, HitIn, AddedWith, Givers
      <4>3. \/ HitIn(added, asked, f[a]) < HitIn(added, asked, f[b])
            \/ /\ HitIn(added, asked, f[a]) = HitIn(added, asked, f[b])
               /\ Earlier(added, f[a], f[b], asked[HitIn(added, asked, f[b])])
        BY <4>1, <4>2 DEF Comes
      <4>4. Givers(added, f[b], asked[HitIn(added, asked, f[b])]) # {}
        BY <1>3, <3>1, <3>2
      <4>5. ScoreIn(added, asked, f[a]) = ScoreIn(added, asked, f[b])
        BY <3>2, <3>4
      <4>6. QED
        BY <1>1, <4>3, <4>4, <4>5, EarlierPrecedes
    <3>5. QED
      BY <2>2, <3>1, <3>3, <3>4
  <2>14. IsExact(added, asked, ratio, limit,
                 SubSeq(AnswerOf(f, N, added, asked), 1, Least(limit, N)))
    BY <1>1, <2>6, <2>9, <2>11, <2>12, <2>13, ExactRanking
  <2>15. QED
    BY <1>8, <2>10, <2>14
<1>9. QED
  BY <1>7, <1>8

(* What was scored is ranked, and its bits are cleared.                    *)
LEMMA RankTouchedKeeps ==
  ASSUME TrigramInv, RankTouched
  PROVE  TrigramInv'
<1> DEFINE take == Least(query.limit, Len(Ranked))
           answer == IF Lowest > maxScore THEN <<>> ELSE SubSeq(Ranked, 1, take)
<1>1. /\ mode = "scoring" /\ mode' = "answered"
      /\ step > Len(query.lists)
      /\ bits' = BitsCleared
      /\ result' = answer
      /\ UNCHANGED <<indexer, lists, scratch, marks, generationOf, touched, query, step,
                     at, maxScore, asked, added>>
  BY DEF RankTouched, Answer, Least
<1>2. IsExact(added, asked, query.ratio, query.limit, answer)
  BY <1>1, RankedIsExact
<1> HIDE DEF answer
<1>3. IsExact(added', asked', query'.ratio, query'.limit, result')
  BY <1>1, <1>2
<1>4. SearchIsExact'
  BY <1>3, ExactNext
<1>5. BuilderInv' /\ PostsInv' /\ HistoryInv' /\ ListsInv' /\ Ids' = Ids
  BY <1>1, BuilderRests
<1>6. QueryInv' /\ ScoresInv'
  BY <1>1 DEF QueryInv, ScoresInv
<1>7. ScratchInv /\ ScoresInv
  BY DEF TrigramInv
<1>8. bits' = {}
  <2>1. scratch \in {"dense", "sparse"}
    BY <1>1, <1>7 DEF ScratchInv
  <2>2. bits \subseteq Range(touched)
    BY <1>1, <1>7, <2>1 DEF ScoresInv
  <2>3. QED
    BY <1>1, <2>2 DEF BitsCleared
<1>9. ScratchInv'
  BY <1>1, <1>5, <1>7, <1>8 DEF ScratchInv
<1>10. QED
  BY <1>1, <1>4, <1>5, <1>6, <1>9 DEF TrigramInv

LEMMA SearchedKeeps ==
  ASSUME TrigramInv, Searched
  PROVE  TrigramInv'
<1>1. /\ mode = "answered" /\ mode' = "ready"
      /\ touched' = <<>>
      /\ UNCHANGED <<indexer, lists, scratch, marks, generationOf, bits, added>>
  BY DEF Searched
<1>2. BuilderInv' /\ PostsInv' /\ HistoryInv' /\ ListsInv' /\ Ids' = Ids
  BY <1>1, BuilderRests
<1>3. QueryInv' /\ ScoresInv' /\ SearchIsExact'
  BY <1>1 DEF QueryInv, ScoresInv, SearchIsExact
<1>4. touched' \in Seq(Entities) /\ Range(touched') = {}
  BY <1>1 DEF Range
<1>5. ScratchInv'
  BY <1>1, <1>2, <1>4 DEF TrigramInv, ScratchInv
<1>6. QED
  BY <1>1, <1>2, <1>3, <1>5 DEF TrigramInv

LEMMA TrigramBegins ==
  ASSUME TrigramInit
  PROVE  TrigramInv
<1> DEFINE n == InitialSlots
<1>1. n \in Nat \ {0}
  BY SlotsAssumption
<1>2. /\ mode = "building"
      /\ charSlots = [s \in 0 .. n - 1 |-> FreeChar]
      /\ slots = [s \in 0 .. n - 1 |-> 0]
      /\ hashes = <<>> /\ last = <<>> /\ posts = <<>> /\ pending = <<>>
      /\ scratch = "none" /\ generationOf = 0 /\ bits = {} /\ touched = <<>>
      /\ added = <<>>
  BY DEF TrigramInit
<1>3. KeysInv(hashes) /\ Len(hashes) = 0
  BY <1>2 DEF KeysInv
<1>4. DOMAIN slots = 0 .. n - 1 /\ DOMAIN charSlots = 0 .. n - 1
  BY <1>2
<1>5. IsTable(slots) /\ SlotCount(slots) = n /\ IsTable(charSlots) /\ SlotCount(charSlots) = n
  BY <1>1, <1>4, TableSize
<1>6. Used(slots, 0) = {} /\ Used(charSlots, FreeChar) = {}
  BY <1>2 DEF Used
<1>7. Cardinality(Used(slots, 0)) = 0 /\ Cardinality(Used(charSlots, FreeChar)) = 0
  BY <1>6, FS_EmptySet
<1>8. SlotsInv(slots, hashes)
  <2>1. \A s \in DOMAIN slots : slots[s] \in 0 .. 0
    BY <1>2
  <2>2. QED
    BY <1>3, <1>5, <1>7, <2>1 DEF SlotsInv
<1>9. CharsInv(charSlots, hashes)
  BY <1>2, <1>5 DEF CharsInv
<1>10. BuilderInv
  BY <1>1, <1>3, <1>5, <1>7, <1>8, <1>9 DEF BuilderInv
<1>11. PostsInv
  BY <1>2 DEF PostsInv
<1>12. HistoryInv
  <2>1. PostedIs(added, PendingKeys, posts, hashes)
    BY <1>2 DEF PostedIs
  <2>2. QED
    BY <1>2, <2>1 DEF HistoryInv
<1>13. ListsInv /\ QueryInv /\ ScoresInv /\ SearchIsExact
  BY <1>2 DEF ListsInv, QueryInv, ScoresInv, SearchIsExact
<1>14. ScratchInv
  <2>1. 0 \in 0 .. LastGeneration
    BY GenerationAssumption
  <2>2. Range(touched) = {}
    BY <1>2 DEF Range
  <2>3. QED
    BY <1>2, <2>1, <2>2 DEF ScratchInv
<1>15. QED
  BY <1>2, <1>10, <1>11, <1>12, <1>13, <1>14 DEF TrigramInv
----------------------------------------------------------------------------
(* The theorems.                                                           *)

LEMMA TrigramRests ==
  ASSUME TrigramInv, UNCHANGED trigramVars
  PROVE  TrigramInv'
<1>1. /\ UNCHANGED <<mode, charSlots, slots, hashes, last, posts, pending, entity, lists>>
      /\ UNCHANGED <<scratch, marks, generationOf, bits, touched>>
      /\ UNCHANGED <<query, step, at, maxScore, result, asked, added>>
  BY DEF trigramVars, indexer, searcher, search
<1>2. mode' \in {"building", "ready", "scoring", "answered"}
  BY <1>1 DEF TrigramInv
<1>3. BuilderInv'
  BY <1>1 DEF TrigramInv, BuilderInv
<1>4. PostsInv'
  BY <1>1 DEF TrigramInv, PostsInv
<1>5. HistoryInv'
  BY <1>1 DEF TrigramInv, HistoryInv, PendingKeys
<1>6. ListsInv'
  BY <1>1 DEF TrigramInv, ListsInv
<1>7. Ids' = Ids
  BY <1>1 DEF Ids
<1>8. ScratchInv'
  BY <1>1, <1>7 DEF TrigramInv, ScratchInv
<1>9. QueryInv'
  BY <1>1, <1>7 DEF TrigramInv, QueryInv
<1>10. ScoresInv'
  <2>1. Seen(1)' = Seen(1) /\ Seen(2)' = Seen(2)
    BY <1>1 DEF Seen
  <2>2. \A e : Sightings(e)' = Sightings(e)
    BY <1>1 DEF Sightings, Seen
  <2>3. \A d, e : Comes(d, e)' <=> Comes(d, e)
    BY <1>1 DEF Comes, FirstHit, AddedWith, Earlier, Givers
  <2>4. QED
    BY <1>1, <1>7, <2>1, <2>2, <2>3 DEF TrigramInv, ScoresInv
<1>11. SearchIsExact'
  <2>1. mode = "answered" => IsExact(added, asked, query.ratio, query.limit, result)
    BY ExactIs DEF TrigramInv
  <2>2. CASE mode # "answered"
    BY <1>1, <2>2 DEF SearchIsExact
  <2>3. CASE mode = "answered"
    <3>1. IsExact(added', asked', query'.ratio, query'.limit, result')
      BY <1>1, <2>1, <2>3
    <3>2. QED
      BY <3>1, ExactNext
  <2>4. QED
    BY <2>2, <2>3
<1>12. QED
  BY <1>2, <1>3, <1>4, <1>5, <1>6, <1>8, <1>9, <1>10, <1>11 DEF TrigramInv

LEMMA TrigramStepKeeps == TrigramInv /\ [TrigramNext]_trigramVars => TrigramInv'
<1> SUFFICES ASSUME TrigramInv, [TrigramNext]_trigramVars
             PROVE  TrigramInv'
  OBVIOUS
<1>1. ASSUME NEW e \in Entities, NEW name \in Names, AddEntry(e, name)
      PROVE  TrigramInv'
  BY <1>1, AddEntryKeeps
<1>2. ASSUME NEW e \in Entities, NEW hash \in Hashes, AddHash(e, hash)
      PROVE  TrigramInv'
  BY <1>2, AddHashKeeps
<1>3. pending # <<>> => mode = "building"
  BY DEF TrigramInv, ListsInv
<1>4. CASE PostSeen
  BY <1>3, <1>4, PostSeenKeeps DEF PostSeen
<1>5. CASE PostFirst
  BY <1>3, <1>5, PostFirstKeeps DEF PostFirst
<1>6. CASE FinalizeIndex
  BY <1>6, FinalizeKeeps
<1>7. ASSUME NEW name \in Names, NEW ratio \in Ratios, NEW limit \in Limits,
             SearchNothing(name, ratio, limit)
      PROVE  TrigramInv'
  BY <1>7, SearchNothingKeeps
<1>8. ASSUME NEW name \in Names, NEW ratio \in Ratios, NEW limit \in Limits,
             SearchSingle(name, ratio, limit)
      PROVE  TrigramInv'
  BY <1>8, SearchSingleKeeps
<1>9. ASSUME NEW name \in Names, NEW ratio \in Ratios, NEW limit \in Limits,
             SearchStart(name, ratio, limit)
      PROVE  TrigramInv'
  <2>1. mode' \in {"building", "ready", "scoring", "answered"}
    BY <1>9 DEF SearchStart, Answer
  <2>2. /\ BuilderInv' /\ PostsInv' /\ HistoryInv' /\ ListsInv'
        /\ ScratchInv' /\ QueryInv' /\ ScoresInv'
    BY <1>9, SearchStartKeeps
  <2>3. SearchIsExact'
    BY <1>9, SearchStartExact
  <2>4. QED
    BY <2>1, <2>2, <2>3 DEF TrigramInv
<1>10. CASE ScorePosting
  BY <1>10, ScorePostingKeeps
<1>11. CASE NextList
  BY <1>11, NextListKeeps
<1>12. CASE RankTouched
  BY <1>12, RankTouchedKeeps
<1>13. CASE Searched
  BY <1>13, SearchedKeeps
<1>14. CASE UNCHANGED trigramVars
  BY <1>14, TrigramRests
<1>15. QED
  BY <1>1, <1>2, <1>4, <1>5, <1>6, <1>7, <1>8, <1>9, <1>10, <1>11, <1>12, <1>13, <1>14
     DEF TrigramNext

(* Every step of the builder and of a search keeps the invariant, growth   *)
(* of the tables, wrapped generations and entities at the end of the       *)
(* number range included (trigramIndex.ts:56-268, 304-604).                *)
THEOREM TrigramInvariant == TrigramSpec => []TrigramInv
<1>1. TrigramInit => TrigramInv
  BY TrigramBegins
<1>2. QED
  BY <1>1, TrigramStepKeeps, PTL DEF TrigramSpec

(* A search returns the entities that have all trigrams of the query but   *)
(* one and are near enough to the best, best first and up to the limit,    *)
(* whatever was added and whatever was asked before                        *)
(* (trigramIndex.ts:304-451).                                              *)
THEOREM SearchesAreExact == TrigramSpec => []SearchIsExact
<1>1. TrigramInv => SearchIsExact
  BY DEF TrigramInv
<1>2. QED
  BY <1>1, TrigramInvariant, PTL

(* A hash has one bucket, and both tables lead to it.                      *)
LEMMA InvariantKeepsBuckets ==
  ASSUME TrigramInv
  PROVE  OneBucketEach
<1>1. /\ KeysInv(hashes) /\ SlotsInv(slots, hashes) /\ CharsInv(charSlots, hashes)
      /\ 2 * Len(hashes) <= SlotCount(slots)
      /\ Len(hashes) \in Nat /\ DOMAIN hashes = 1 .. Len(hashes)
  BY DEF TrigramInv, BuilderInv, KeysInv
<1>2. \A b, c \in DOMAIN hashes : hashes[b] = hashes[c] => b = c
  BY <1>1 DEF KeysInv
<1>3. ASSUME NEW b \in DOMAIN hashes
      PROVE  slots[HashSlot(hashes[b], slots, hashes)] = b
  <2>1. SlotCount(slots) \in Nat \ {0}
    BY <1>1 DEF SlotsInv, IsTable
  <2>2. Len(hashes) < SlotCount(slots)
    BY <1>1, <2>1
  <2>3. hashes[b] \in Nat \X Nat
    BY <1>1, <1>3 DEF KeysInv
  <2> DEFINE at0 == HashSlot(hashes[b], slots, hashes)
  <2>4. /\ slots[at0] # 0 => slots[at0] \in 1 .. Len(hashes) /\ hashes[slots[at0]] = hashes[b]
        /\ slots[at0] = 0 => \A c \in 1 .. Len(hashes) : hashes[c] # hashes[b]
    BY <1>1, <2>2, <2>3, HashFound
  <2> HIDE DEF at0
  <2>5. QED
    BY <1>1, <1>2, <1>3, <2>4 DEF at0
<1>4. ASSUME NEW s \in DOMAIN charSlots, charSlots[s].bucket # 0
      PROVE  hashes[charSlots[s].bucket] = KeyOf(HashOf[charSlots[s].letters])
  BY <1>1, <1>4 DEF CharsInv, CharsTo, FreeChar
<1>5. QED
  BY <1>2, <1>3, <1>4 DEF OneBucketEach

(* The tables keep free slots and one bucket for each hash, every posting  *)
(* has a bucket, and no search leaves a bit or a mark to the next that it  *)
(* would take for its own (trigramIndex.ts:94-208, 514-521, 576-582).      *)
THEOREM TrigramTypesHold == TrigramSpec => []TrigramTypeOK
<1>1. ASSUME TrigramInv PROVE TrigramTypeOK
  <2>1. OneBucketEach
    BY <1>1, InvariantKeepsBuckets
  <2>2. QuietScratch
    BY <1>1 DEF TrigramInv, ScratchInv, QuietScratch
  <2>3. 2 * Taken(charSlots) <= Cardinality(DOMAIN charSlots)
    BY <1>1, TakenIsUsed DEF TrigramInv, BuilderInv, SlotCount
  <2>4. /\ \A s \in DOMAIN slots : slots[s] \in 0 .. Len(hashes)
        /\ 2 * Len(hashes) <= Cardinality(DOMAIN slots)
    BY <1>1 DEF TrigramInv, BuilderInv, SlotsInv, SlotCount
  <2>5. \A i \in DOMAIN posts : posts[i].bucket \in DOMAIN hashes
    <3>1. posts \in Seq(Postings(hashes)) /\ DOMAIN hashes = 1 .. Len(hashes)
      BY <1>1 DEF TrigramInv, BuilderInv, KeysInv, PostsInv
    <3>2. \A i \in DOMAIN posts : posts[i] \in Postings(hashes)
      BY <3>1
    <3>3. QED
      BY <3>1, <3>2 DEF Postings
  <2>6. bits \subseteq Range(touched)
    BY <1>1 DEF TrigramInv, ScratchInv, ScoresInv
  <2>7. QED
    BY <1>1, <2>1, <2>2, <2>3, <2>4, <2>5, <2>6
       DEF TrigramInv, PostsInv, ScratchInv, TrigramTypeOK
<1>2. QED
  BY <1>1, TrigramInvariant, PTL
=============================================================================

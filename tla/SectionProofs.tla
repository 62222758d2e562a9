--------------------------- MODULE SectionProofs ---------------------------
(***************************************************************************)
(* Proofs about what the sections of a snapshot hold: the sorted index     *)
(* (SortedIndex.tla) for any base of the digits, any keys and any number   *)
(* of pairs; the columns and buckets (Buckets.tla) for any fields and any  *)
(* rows; the string table (Strings.tla) for any strings, any hash of their *)
(* bytes and any number of generations.                                    *)
(***************************************************************************)
EXTENDS SortedIndex, Buckets, Strings, FiniteSetTheorems, SequenceTheorems,
        WellFoundedInduction, TLAPS

----------------------------------------------------------------------------
(* Ranks: where the elements of an order go.                               *)

IsOrder(S, R) ==
    /\ \A p \in S : <<p, p>> \notin R
    /\ \A p, q, t \in S : <<p, q>> \in R /\ <<q, t>> \in R => <<p, t>> \in R
    /\ \A p, q \in S : p # q => <<p, q>> \in R \/ <<q, p>> \in R

Beneath(S, R, p) == {q \in S : q # p /\ <<q, p>> \in R}

Rank(S, R) == [p \in S |-> 1 + Cardinality(Beneath(S, R, p))]

LEMMA RankRises ==
  ASSUME NEW S, NEW R, IsFiniteSet(S), IsOrder(S, R),
         NEW q \in S, NEW p \in S, <<q, p>> \in R
  PROVE  Rank(S, R)[q] < Rank(S, R)[p]
<1> DEFINE A == Beneath(S, R, q)
           B == Beneath(S, R, p)
<1>1. A \cup {q} \subseteq B /\ q \notin A
  BY DEF Beneath, IsOrder
<1>2. IsFiniteSet(A) /\ IsFiniteSet(B)
  BY FS_Subset DEF Beneath
<1>3. Rank(S, R)[q] = 1 + Cardinality(A) /\ Rank(S, R)[p] = 1 + Cardinality(B)
  BY DEF Rank
<1> HIDE DEF A, B
<1>4. Cardinality(A \cup {q}) = Cardinality(A) + 1 /\ Cardinality(A) \in Nat
  BY <1>1, <1>2, FS_AddElement, FS_CardinalityType
<1>5. Cardinality(A \cup {q}) <= Cardinality(B) /\ Cardinality(B) \in Nat
  BY <1>1, <1>2, FS_Subset, FS_CardinalityType
<1>6. QED
  BY <1>3, <1>4, <1>5

(* Every place is the rank of one element.                                 *)
LEMMA RankIsPlace ==
  ASSUME NEW n \in Nat, NEW R, IsOrder(1 .. n, R)
  PROVE  /\ Rank(1 .. n, R) \in [1 .. n -> 1 .. n]
         /\ \A p, q \in 1 .. n : Rank(1 .. n, R)[p] = Rank(1 .. n, R)[q] => p = q
         /\ \A place \in 1 .. n : \E p \in 1 .. n : Rank(1 .. n, R)[p] = place
<1> DEFINE S == 1 .. n
           f == Rank(S, R)
<1>1. IsFiniteSet(S) /\ Cardinality(S) = n
  BY FS_Interval
<1>2. ASSUME NEW p \in S PROVE f[p] \in S
  <2>1. Beneath(S, R, p) \subseteq S \ {p}
    BY DEF Beneath
  <2>2. IsFiniteSet(S \ {p}) /\ Cardinality(S \ {p}) = n - 1
    BY <1>1, FS_RemoveElement
  <2>3. IsFiniteSet(Beneath(S, R, p)) /\ Cardinality(Beneath(S, R, p)) <= n - 1
    BY <2>1, <2>2, FS_Subset
  <2>4. Cardinality(Beneath(S, R, p)) \in Nat
    BY <2>3, FS_CardinalityType
  <2>5. f[p] = 1 + Cardinality(Beneath(S, R, p))
    BY DEF Rank
  <2>6. QED
    BY <2>3, <2>4, <2>5
<1>3. f \in [S -> S]
  BY <1>2 DEF Rank
<1>4. ASSUME NEW p \in S, NEW q \in S, f[p] = f[q] PROVE p = q
  <2>1. SUFFICES ASSUME p # q PROVE FALSE
    OBVIOUS
  <2>2. f[p] < f[q] \/ f[q] < f[p]
    BY <1>1, <2>1, RankRises DEF IsOrder
  <2>3. f[p] \in S /\ f[q] \in S
    BY <1>2
  <2>4. QED
    BY <1>4, <2>2, <2>3
<1> HIDE DEF f
<1>5. f \in Injection(S, S)
  BY <1>3, <1>4 DEF Injection, IsInjective
<1>6. f \in Surjection(S, S)
  BY <1>1, <1>5, FS_Injection
<1>7. \A place \in S : \E p \in S : f[p] = place
  BY <1>6 DEF Surjection
<1>8. QED
  BY <1>3, <1>4, <1>7 DEF f

(* Which element has a place, by its rank.                                 *)
Seat(n, R) == [place \in 1 .. n |-> CHOOSE p \in 1 .. n : place = Rank(1 .. n, R)[p]]

(* Seats keep the order, and every element has one.                        *)
LEMMA SeatsKeepOrder ==
  ASSUME NEW n \in Nat, NEW R, IsOrder(1 .. n, R)
  PROVE  /\ Seat(n, R) \in [1 .. n -> 1 .. n]
         /\ \A a, b \in 1 .. n : a < b => <<Seat(n, R)[a], Seat(n, R)[b]>> \in R
         /\ \A p \in 1 .. n : \E a \in 1 .. n : Seat(n, R)[a] = p
<1> DEFINE S == 1 .. n
           f == Rank(S, R)
           at(place) == CHOOSE p \in S : place = f[p]
<1>1. /\ f \in [S -> S]
      /\ \A p, q \in S : f[p] = f[q] => p = q
      /\ \A place \in S : \E p \in S : f[p] = place
  BY RankIsPlace
<1>2. ASSUME NEW place \in S PROVE at(place) \in S /\ f[at(place)] = place
  BY <1>1
<1>3. Seat(n, R) = [place \in S |-> at(place)]
  BY DEF Seat
<1>4. ASSUME NEW p \in S PROVE at(f[p]) = p
  BY <1>1
<1>5. ASSUME NEW p \in S, NEW q \in S, <<p, q>> \in R PROVE f[p] < f[q]
  <2>1. IsFiniteSet(S)
    BY FS_Interval
  <2>2. QED
    BY <1>5, <2>1, RankRises
<1> HIDE DEF f, at
<1>6. ASSUME NEW a \in S, NEW b \in S, a < b
      PROVE  <<at(a), at(b)>> \in R
  <2>1. at(a) # at(b)
    BY <1>2, <1>6
  <2>2. CASE <<at(b), at(a)>> \in R
    <3>1. f[at(b)] < f[at(a)]
      BY <1>2, <1>5, <2>2
    <3>2. QED
      BY <1>2, <1>6, <3>1
  <2>3. QED
    BY <1>2, <2>1, <2>2 DEF IsOrder
<1>7. ASSUME NEW p \in S PROVE f[p] \in S /\ Seat(n, R)[f[p]] = p
  BY <1>1, <1>3, <1>4
<1>8. QED
  BY <1>2, <1>3, <1>6, <1>7

----------------------------------------------------------------------------
(* Digits: a key is its low part, a digit and a high part.                 *)

LEMMA Quotient ==
  ASSUME NEW a \in Nat, NEW b \in Nat, b > 0
  PROVE  /\ a \div b \in Nat
         /\ a % b \in Nat
         /\ a % b < b
         /\ a = b * (a \div b) + (a % b)
OBVIOUS

LEMMA Product ==
  ASSUME NEW a \in Nat, NEW b \in Nat
  PROVE  a * b \in Nat
OBVIOUS

LEMMA ProductRises ==
  ASSUME NEW a \in Nat, NEW d \in Nat, NEW e \in Nat, d < e
  PROVE  a * d + a <= a * e
<1>1. PICK c \in Nat : e = d + 1 + c
  <2>1. e - d - 1 \in Nat /\ e = d + 1 + (e - d - 1)
    OBVIOUS
  <2>2. QED
    BY <2>1
<1>2. a * e = a * d + a + a * c
  BY <1>1
<1>3. a * c \in Nat /\ a * d \in Nat
  BY Product
<1>4. QED
  BY <1>2, <1>3

LEMMA RemainderIs ==
  ASSUME NEW b \in Nat, b > 0, NEW q \in Nat, NEW r \in Nat, r < b, NEW a \in Nat,
         a = b * q + r
  PROVE  a % b = r
<1> DEFINE p == a \div b
           s == a % b
<1>1. p \in Nat /\ s \in Nat /\ s < b /\ a = b * p + s
  BY Quotient
<1> HIDE DEF p, s
<1>2. b * q \in Nat /\ b * p \in Nat
  BY <1>1, Product
<1>3. ~(p < q)
  <2>1. SUFFICES ASSUME p < q PROVE FALSE
    OBVIOUS
  <2>2. b * p + b <= b * q
    BY <1>1, <2>1, ProductRises
  <2>3. QED
    BY <1>1, <1>2, <2>2
<1>4. ~(q < p)
  <2>1. SUFFICES ASSUME q < p PROVE FALSE
    OBVIOUS
  <2>2. b * q + b <= b * p
    BY <1>1, <2>1, ProductRises
  <2>3. QED
    BY <1>1, <1>2, <2>2
<1>5. p = q
  BY <1>1, <1>3, <1>4
<1>6. s = r
  BY <1>1, <1>2, <1>5
<1>7. QED
  BY <1>6 DEF s

(* The low part one digit longer.                                          *)
LEMMA OneMoreDigit ==
  ASSUME NEW power \in Nat, power > 0, NEW radix \in Nat, radix > 0, NEW key \in Nat
  PROVE  /\ (key \div power) % radix \in Nat
         /\ key % (power * radix) = power * ((key \div power) % radix) + (key % power)
<1> DEFINE h == key \div power
           low == key % power
           d == h % radix
           e == h \div radix
<1>1. h \in Nat /\ low \in Nat /\ low < power /\ key = power * h + low
  BY Quotient
<1>2. d \in Nat /\ d < radix /\ e \in Nat /\ h = radix * e + d
  BY <1>1, Quotient
<1> HIDE DEF h, low, d, e
<1>3. power * h = (power * radix) * e + power * d
  <2>1. power * (radix * e + d) = power * (radix * e) + power * d
    BY <1>2, Product
  <2>2. power * (radix * e) = (power * radix) * e
    BY <1>2
  <2>3. QED
    BY <1>2, <2>1, <2>2
<1>4. power * d + low \in Nat /\ power * d + low < power * radix
  <2>1. power * d + power <= power * radix
    BY <1>2, ProductRises
  <2>2. QED
    BY <1>1, <1>2, <2>1, Product
<1>5. power * radix \in Nat /\ power * radix > 0
  BY <1>4, Product
<1>6. key = (power * radix) * e + (power * d + low)
  <2> DEFINE x == power * h
             y == (power * radix) * e
             z == power * d
  <2>1. y \in Nat /\ z \in Nat /\ x = y + z /\ key = x + low
    BY <1>1, <1>2, <1>3, <1>5, Product
  <2> HIDE DEF x, y, z
  <2>2. key = y + (z + low)
    BY <1>1, <2>1
  <2>3. QED
    BY <2>2 DEF y, z
<1>7. key % (power * radix) = power * d + low
  <2> DEFINE pb == power * radix
             r == power * d + low
  <2>1. pb \in Nat /\ pb > 0 /\ r \in Nat /\ r < pb /\ key = pb * e + r
    BY <1>4, <1>5, <1>6
  <2> HIDE DEF pb, r
  <2>2. key % pb = r
    BY <1>2, <2>1, RemainderIs
  <2>3. QED
    BY <2>2 DEF pb, r
<1>8. QED
  BY <1>2, <1>7 DEF h, low, d

----------------------------------------------------------------------------
(* Sorting.                                                                *)

\* The order the passes so far have come to.
InOrder(power) ==
    \A p, q \in Places :
        p < q => \/ Key(p) % power < Key(q) % power
                 \/ Key(p) % power = Key(q) % power /\ order[p] < order[q]

\* Every pair has its place.
Permutes ==
    /\ order \in [Places -> Places]
    /\ \A i \in Places : \E place \in Places : order[place] = i

\* Where find has to look is still between lo and hi.
Bracketed ==
    /\ lo \in 0 .. Len(pairs) /\ hi \in 0 .. Len(pairs) /\ lo <= hi
    /\ soughtKey \in Nat
    /\ \A place \in Places : place <= lo => Key(place) < soughtKey
    /\ \A place \in Places : place > hi => Key(place) >= soughtKey

SortedInv ==
    /\ stage \in {"adding", "sorting", "sorted", "finding", "found"}
    /\ pairs \in Seq(0 .. KeyWidth - 1)
    /\ pass \in 0 .. Passes
    /\ lo \in 0 .. Len(pairs) /\ hi \in 0 .. Len(pairs) /\ hit \in 0 .. Len(pairs)
    /\ stage # "adding" => Permutes
    /\ stage = "sorting" => pass # 0 /\ InOrder(Power)
    /\ SortedAndStable
    /\ stage = "finding" => Bracketed
    /\ FindsFirstPair

LEMMA KeysAreNumbers ==
  ASSUME pairs \in Seq(0 .. KeyWidth - 1)
  PROVE  /\ Len(pairs) \in Nat
         /\ Places = 1 .. Len(pairs)
         /\ \A i \in Places : pairs[i] \in Nat /\ pairs[i] < KeyWidth
         /\ KeyWidth \in Nat /\ KeyWidth > 0
<1>1. Digit \in Nat /\ Digit > 0 /\ LastDigit \in Nat /\ LastDigit > 0
  BY DigitAssumption
<1>2. Digit * Digit \in Nat /\ Digit * Digit > 0
  BY <1>1
<1>3. (Digit * Digit) * LastDigit \in Nat /\ (Digit * Digit) * LastDigit > 0
  BY <1>1, <1>2
<1>4. KeyWidth \in Nat /\ KeyWidth > 0
  BY <1>3 DEF KeyWidth
<1> HIDE DEF KeyWidth
<1>5. QED
  BY <1>4 DEF Places

\* The order of a pass.
ByDigit ==
    {e \in Places \X Places :
        \/ DigitOf(Key(e[1])) < DigitOf(Key(e[2]))
        \/ DigitOf(Key(e[1])) = DigitOf(Key(e[2])) /\ e[1] < e[2]}

\* The order of the comparison.
ByKey ==
    {e \in Places \X Places :
        pairs[e[1]] < pairs[e[2]] \/ (pairs[e[1]] = pairs[e[2]] /\ e[1] < e[2])}

LEMMA DigitsAreNumbers ==
  ASSUME SortedInv, stage = "sorting"
  PROVE  /\ Power \in Nat /\ Power > 0
         /\ \A p \in Places : Key(p) \in Nat /\ DigitOf(Key(p)) \in Nat
         /\ \A p \in Places :
              Key(p) % (Power * PassBuckets) = Power * DigitOf(Key(p)) + (Key(p) % Power)
<1>1. Digit \in Nat /\ Digit > 0 /\ Digit * Digit \in Nat /\ Digit * Digit > 0
  BY DigitAssumption
<1>2. Power \in Nat /\ Power > 0
  BY <1>1 DEF Power
<1>3. ASSUME NEW p \in Places PROVE Key(p) \in Nat
  BY KeysAreNumbers DEF SortedInv, Permutes, Key
<1>4. PassBuckets \in Nat /\ PassBuckets > 0
  BY DigitAssumption DEF PassBuckets
<1>5. ASSUME NEW p \in Places
      PROVE  /\ DigitOf(Key(p)) \in Nat
             /\ Key(p) % (Power * PassBuckets) = Power * DigitOf(Key(p)) + (Key(p) % Power)
  <2>1. /\ (Key(p) \div Power) % PassBuckets \in Nat
        /\ Key(p) % (Power * PassBuckets)
              = Power * ((Key(p) \div Power) % PassBuckets) + (Key(p) % Power)
    <3> HIDE DEF Power, PassBuckets, Key
    <3>1. QED
      BY <1>2, <1>3, <1>4, OneMoreDigit
  <2>2. QED
    BY <2>1 DEF DigitOf
<1>6. QED
  BY <1>2, <1>3, <1>5

LEMMA ScatteredBySeats ==
  ASSUME SortedInv, stage = "sorting"
  PROVE  /\ IsOrder(1 .. Len(pairs), ByDigit)
         /\ Scattered = [place \in 1 .. Len(pairs) |-> order[Seat(Len(pairs), ByDigit)[place]]]
<1> DEFINE n == Len(pairs)
<1>1. Places = 1 .. n /\ n \in Nat /\ DOMAIN order = 1 .. n
  BY KeysAreNumbers DEF SortedInv, Permutes
<1>2. \A p \in 1 .. n : DigitOf(Key(p)) \in Nat
  BY <1>1, DigitsAreNumbers
<1>3. \A p, q \in 1 .. n : <<p, q>> \in ByDigit <=>
          \/ DigitOf(Key(p)) < DigitOf(Key(q))
          \/ DigitOf(Key(p)) = DigitOf(Key(q)) /\ p < q
  BY <1>1 DEF ByDigit
<1>4. IsOrder(1 .. n, ByDigit)
  BY <1>1, <1>2, <1>3 DEF IsOrder
<1>5. ASSUME NEW p \in 1 .. n
      PROVE  {q \in DOMAIN order : q # p /\
                 (\/ DigitOf(Key(q)) < DigitOf(Key(p))
                  \/ DigitOf(Key(q)) = DigitOf(Key(p)) /\ q < p)}
             = Beneath(1 .. n, ByDigit, p)
  BY <1>1, <1>3 DEF Beneath
<1>6. ASSUME NEW p \in 1 .. n
      PROVE  1 + Cardinality({q \in DOMAIN order : q # p /\
                 (\/ DigitOf(Key(q)) < DigitOf(Key(p))
                  \/ DigitOf(Key(q)) = DigitOf(Key(p)) /\ q < p)})
             = Rank(1 .. n, ByDigit)[p]
  BY <1>5 DEF Rank
<1>7. Scattered = [place \in 1 .. n |-> order[Seat(n, ByDigit)[place]]]
  <2> DEFINE count(p) == 1 + Cardinality({q \in DOMAIN order : q # p /\
                 (\/ DigitOf(Key(q)) < DigitOf(Key(p))
                  \/ DigitOf(Key(q)) = DigitOf(Key(p)) /\ q < p)})
  <2>1. Scattered = [place \in DOMAIN order |->
            order[CHOOSE p \in DOMAIN order : place = count(p)]]
    BY DEF Scattered, Arranged
  <2>2. \A p \in 1 .. n : count(p) = Rank(1 .. n, ByDigit)[p]
    BY <1>6
  <2> HIDE DEF count
  <2>3. ASSUME NEW place \in 1 .. n
        PROVE  (CHOOSE p \in DOMAIN order : place = count(p))
               = (CHOOSE p \in 1 .. n : place = Rank(1 .. n, ByDigit)[p])
    <3>1. \A p : (p \in DOMAIN order /\ place = count(p))
               <=> (p \in 1 .. n /\ place = Rank(1 .. n, ByDigit)[p])
      BY <1>1, <2>2
    <3>2. QED
      BY <3>1
  <2> DEFINE first(place) == CHOOSE p \in DOMAIN order : place = count(p)
             second(place) == CHOOSE p \in 1 .. n : place = Rank(1 .. n, ByDigit)[p]
  <2>4. /\ Scattered = [place \in 1 .. n |-> order[first(place)]]
        /\ Seat(n, ByDigit) = [place \in 1 .. n |-> second(place)]
        /\ \A place \in 1 .. n : first(place) = second(place)
    BY <1>1, <2>1, <2>3 DEF Seat
  <2> HIDE DEF first, second
  <2>5. QED
    BY <2>4
<1>8. QED
  BY <1>4, <1>7

LEMMA FewBySeats ==
  ASSUME pairs \in Seq(0 .. KeyWidth - 1)
  PROVE  /\ IsOrder(1 .. Len(pairs), ByKey)
         /\ Arranged(Identity, LAMBDA i, j :
                pairs[i] < pairs[j] \/ (pairs[i] = pairs[j] /\ i < j))
            = Seat(Len(pairs), ByKey)
<1> DEFINE n == Len(pairs)
           count(p) == 1 + Cardinality({q \in DOMAIN Identity : q # p /\
               (pairs[q] < pairs[p] \/ (pairs[q] = pairs[p] /\ q < p))})
           first(place) == CHOOSE p \in DOMAIN Identity : place = count(p)
           second(place) == CHOOSE p \in 1 .. n : place = Rank(1 .. n, ByKey)[p]
           arranged == Arranged(Identity, LAMBDA i, j :
                           pairs[i] < pairs[j] \/ (pairs[i] = pairs[j] /\ i < j))
<1>1. Places = 1 .. n /\ n \in Nat /\ DOMAIN Identity = 1 .. n
  BY KeysAreNumbers DEF Identity
<1>2. \A p \in 1 .. n : pairs[p] \in Nat
  BY <1>1, KeysAreNumbers
<1>3. \A p, q \in 1 .. n : <<p, q>> \in ByKey <=>
          pairs[p] < pairs[q] \/ (pairs[p] = pairs[q] /\ p < q)
  BY <1>1 DEF ByKey
<1>4. IsOrder(1 .. n, ByKey)
  BY <1>1, <1>2, <1>3 DEF IsOrder
<1>5. ASSUME NEW p \in 1 .. n
      PROVE  {q \in DOMAIN Identity : q # p /\
                 (pairs[q] < pairs[p] \/ (pairs[q] = pairs[p] /\ q < p))}
             = Beneath(1 .. n, ByKey, p)
  BY <1>1, <1>3 DEF Beneath
<1>6. \A p \in 1 .. n : count(p) = Rank(1 .. n, ByKey)[p]
  BY <1>5 DEF Rank
<1>7. arranged = [place \in DOMAIN Identity |-> Identity[first(place)]]
  BY DEF Arranged
<1> HIDE DEF count
<1>8. \A place \in 1 .. n : first(place) = second(place)
  <2>1. ASSUME NEW place \in 1 .. n
        PROVE  \A p : (p \in DOMAIN Identity /\ place = count(p))
                   <=> (p \in 1 .. n /\ place = Rank(1 .. n, ByKey)[p])
    BY <1>1, <1>6
  <2>2. QED
    BY <2>1
<1>9. Seat(n, ByKey) = [place \in 1 .. n |-> second(place)]
  BY DEF Seat
<1>10. Identity = [i \in 1 .. n |-> i] /\ \A place \in 1 .. n : second(place) \in 1 .. n
  <2>1. Seat(n, ByKey) \in [1 .. n -> 1 .. n]
    BY <1>1, <1>4, SeatsKeepOrder
  <2>2. ASSUME NEW place \in 1 .. n PROVE second(place) \in 1 .. n
    <3>1. Seat(n, ByKey)[place] = second(place)
      BY <1>9
    <3>2. QED
      BY <2>1, <3>1
  <2>3. QED
    BY <1>1, <2>2 DEF Identity
<1> HIDE DEF first, second, arranged
<1>11. arranged = Seat(n, ByKey)
  BY <1>1, <1>7, <1>8, <1>9, <1>10
<1>12. QED
  BY <1>4, <1>11 DEF arranged

(* A pass puts the pairs in the order of one digit more.                   *)
LEMMA PassSorts ==
  ASSUME SortedInv, RunPass
  PROVE  /\ Permutes'
         /\ \A p, q \in Places : p < q =>
              \/ Key(p)' % (Power * PassBuckets) < Key(q)' % (Power * PassBuckets)
              \/ /\ Key(p)' % (Power * PassBuckets) = Key(q)' % (Power * PassBuckets)
                 /\ order'[p] < order'[q]
<1> DEFINE n == Len(pairs)
<1>1. /\ stage = "sorting" /\ pairs' = pairs /\ Permutes /\ InOrder(Power)
      /\ Places = 1 .. n /\ n \in Nat /\ Places' = Places
      /\ IsOrder(1 .. n, ByDigit)
      /\ order' = [place \in 1 .. n |-> order[Seat(n, ByDigit)[place]]]
  BY ScatteredBySeats, KeysAreNumbers DEF RunPass, SortedInv, Places
<1> DEFINE seat == Seat(n, ByDigit)
<1>2. /\ seat \in [Places -> Places]
      /\ \A a, b \in Places : a < b => <<seat[a], seat[b]>> \in ByDigit
      /\ \A p \in Places : \E a \in Places : seat[a] = p
      /\ \A a \in Places : order'[a] = order[seat[a]]
      /\ DOMAIN order' = Places /\ order' = [a \in Places |-> order[seat[a]]]
  BY <1>1, SeatsKeepOrder
<1> HIDE DEF seat, n
<1>3. Permutes'
  <2>1. order' \in [Places -> Places]
    BY <1>1, <1>2 DEF Permutes
  <2>2. ASSUME NEW i \in Places PROVE \E place \in Places : order'[place] = i
    <3>1. PICK p \in Places : order[p] = i
      BY <1>1 DEF Permutes
    <3>2. PICK a \in Places : seat[a] = p
      BY <1>2
    <3>3. QED
      BY <1>2, <3>1, <3>2
  <2>3. QED
    BY <1>1, <2>1, <2>2 DEF Permutes
<1>4. ASSUME NEW p \in Places, NEW q \in Places, <<p, q>> \in ByDigit
      PROVE  \/ Key(p) % (Power * PassBuckets) < Key(q) % (Power * PassBuckets)
             \/ /\ Key(p) % (Power * PassBuckets) = Key(q) % (Power * PassBuckets)
                /\ order[p] < order[q]
  <2> DEFINE lowP == Key(p) % Power
             lowQ == Key(q) % Power
             digitP == DigitOf(Key(p))
             digitQ == DigitOf(Key(q))
  <2>1. /\ Power \in Nat /\ Power > 0 /\ digitP \in Nat /\ digitQ \in Nat
        /\ Key(p) \in Nat /\ Key(q) \in Nat
        /\ Key(p) % (Power * PassBuckets) = Power * digitP + lowP
        /\ Key(q) % (Power * PassBuckets) = Power * digitQ + lowQ
    BY <1>1, DigitsAreNumbers
  <2>2. lowP \in Nat /\ lowP < Power /\ lowQ \in Nat /\ lowQ < Power
    BY <2>1, Quotient
  <2>3. digitP < digitQ \/ (digitP = digitQ /\ p < q)
    BY <1>4 DEF ByDigit
  <2>4. p < q => lowP < lowQ \/ (lowP = lowQ /\ order[p] < order[q])
    BY <1>1 DEF InOrder
  <2> HIDE DEF lowP, lowQ, digitP, digitQ
  <2>5. Power * digitP \in Nat /\ Power * digitQ \in Nat
    BY <2>1, Product
  <2>6. CASE digitP < digitQ
    <3>1. Power * digitP + Power <= Power * digitQ
      BY <2>1, <2>6, ProductRises
    <3>2. Power * digitP + lowP < Power * digitQ + lowQ
      BY <2>1, <2>2, <2>5, <3>1
    <3>3. QED
      BY <2>1, <3>2
  <2>7. CASE digitP = digitQ /\ p < q
    <3>1. \/ Power * digitP + lowP < Power * digitQ + lowQ
          \/ Power * digitP + lowP = Power * digitQ + lowQ /\ order[p] < order[q]
      BY <2>2, <2>4, <2>5, <2>7
    <3>2. QED
      BY <2>1, <3>1
  <2>8. QED
    BY <2>3, <2>6, <2>7
<1>5. ASSUME NEW a \in Places PROVE Key(a)' = Key(seat[a]) /\ order'[a] = order[seat[a]]
  BY <1>1, <1>2 DEF Key
<1>6. ASSUME NEW a \in Places, NEW b \in Places, a < b
      PROVE  \/ Key(a)' % (Power * PassBuckets) < Key(b)' % (Power * PassBuckets)
             \/ /\ Key(a)' % (Power * PassBuckets) = Key(b)' % (Power * PassBuckets)
                /\ order'[a] < order'[b]
  <2>1. seat[a] \in Places /\ seat[b] \in Places /\ <<seat[a], seat[b]>> \in ByDigit
    BY <1>2, <1>6
  <2>2. \/ Key(seat[a]) % (Power * PassBuckets) < Key(seat[b]) % (Power * PassBuckets)
        \/ /\ Key(seat[a]) % (Power * PassBuckets) = Key(seat[b]) % (Power * PassBuckets)
           /\ order[seat[a]] < order[seat[b]]
    BY <1>4, <2>1
  <2>3. QED
    BY <1>5, <2>2
<1>7. QED
  BY <1>3, <1>6

(* After a pass, or where all share the digit: one digit more is sorted.   *)
LEMMA NextPassInOrder ==
  ASSUME SortedInv, stage = "sorting", NextPass, pairs' = pairs, Permutes',
         \A p, q \in Places : p < q =>
             \/ Key(p)' % (Power * PassBuckets) < Key(q)' % (Power * PassBuckets)
             \/ /\ Key(p)' % (Power * PassBuckets) = Key(q)' % (Power * PassBuckets)
                /\ order'[p] < order'[q]
  PROVE  /\ pass' \in 0 .. Passes /\ stage' \in {"sorting", "sorted"}
         /\ stage' = "sorting" => pass' # 0 /\ InOrder(Power)'
         /\ SortedAndStable'
<1>1. Digit \in Nat /\ Places' = Places /\ pass \in 1 .. 3
  BY DigitAssumption DEF SortedInv, Places, Passes
<1>2. CASE pass = Passes
  <2>1. Power * PassBuckets = KeyWidth
    BY <1>2 DEF Power, PassBuckets, Passes, KeyWidth
  <2>2. ASSUME NEW p \in Places PROVE Key(p)' % KeyWidth = Key(p)'
    <3>1. pairs[order'[p]] \in Nat /\ pairs[order'[p]] < KeyWidth /\ KeyWidth \in Nat
      BY <1>1, KeysAreNumbers DEF SortedInv, Permutes
    <3>2. pairs[order'[p]] = KeyWidth * 0 + pairs[order'[p]] /\ KeyWidth > 0
      BY <3>1
    <3>3. pairs[order'[p]] % KeyWidth = pairs[order'[p]]
      <4> DEFINE key == pairs[order'[p]]
                 width == KeyWidth
      <4>1. key \in Nat /\ width \in Nat /\ width > 0 /\ key < width /\ key = width * 0 + key
        BY <3>1, <3>2
      <4> HIDE DEF key, width
      <4>2. key % width = key
        BY <4>1, RemainderIs
      <4>3. QED
        BY <4>2 DEF key, width
    <3>4. QED
      BY <3>3 DEF Key
  <2>3. ASSUME NEW p \in Places, NEW q \in Places, p < q
        PROVE  Key(p)' < Key(q)' \/ (Key(p)' = Key(q)' /\ order'[p] < order'[q])
    BY <2>1, <2>2, <2>3
  <2>4. pass' = 0 /\ stage' = "sorted"
    BY <1>2 DEF NextPass
  <2>5. SortedAndStable'
    BY <1>1, <2>3 DEF SortedAndStable
  <2>6. QED
    BY <2>4, <2>5 DEF Passes
<1>3. CASE pass # Passes
  <2>1. pass' = pass + 1 /\ stage' = "sorting"
    BY <1>3 DEF NextPass
  <2>2. Power' = Power * PassBuckets
    BY <1>1, <1>3, <2>1 DEF Power, PassBuckets, Passes
  <2>3. InOrder(Power)'
    BY <1>1, <2>2 DEF InOrder
  <2>4. QED
    BY <1>1, <1>3, <2>1, <2>3 DEF SortedAndStable, Passes
<1>4. QED
  BY <1>2, <1>3

LEMMA SkipSorts ==
  ASSUME SortedInv, SkipPass
  PROVE  /\ Permutes'
         /\ \A p, q \in Places : p < q =>
              \/ Key(p)' % (Power * PassBuckets) < Key(q)' % (Power * PassBuckets)
              \/ /\ Key(p)' % (Power * PassBuckets) = Key(q)' % (Power * PassBuckets)
                 /\ order'[p] < order'[q]
<1>1. /\ stage = "sorting" /\ pairs' = pairs /\ order' = order /\ Permutes
      /\ InOrder(Power) /\ ShareDigit
  BY DEF SkipPass, SortedInv
<1>2. Permutes'
  BY <1>1 DEF Permutes, Places
<1>3. ASSUME NEW p \in Places, NEW q \in Places, p < q
      PROVE  \/ Key(p)' % (Power * PassBuckets) < Key(q)' % (Power * PassBuckets)
             \/ /\ Key(p)' % (Power * PassBuckets) = Key(q)' % (Power * PassBuckets)
                /\ order'[p] < order'[q]
  <2> DEFINE lowP == Key(p) % Power
             lowQ == Key(q) % Power
             high == Power * DigitOf(Key(p))
  <2>1. /\ Key(p) % (Power * PassBuckets) = high + lowP
        /\ Key(q) % (Power * PassBuckets) = high + lowQ
    BY <1>1, DigitsAreNumbers DEF ShareDigit
  <2>2. lowP \in Nat /\ lowQ \in Nat /\ high \in Nat
    BY <1>1, DigitsAreNumbers, Quotient, Product
  <2>3. lowP < lowQ \/ (lowP = lowQ /\ order[p] < order[q])
    BY <1>1, <1>3 DEF InOrder
  <2>4. Key(p)' = Key(p) /\ Key(q)' = Key(q)
    BY <1>1 DEF Key
  <2> HIDE DEF lowP, lowQ, high
  <2>5. QED
    BY <1>1, <2>1, <2>2, <2>3, <2>4
<1>4. QED
  BY <1>2, <1>3

LEMMA FewSorts ==
  ASSUME SortedInv, SortFew
  PROVE  Permutes' /\ SortedAndStable'
<1> DEFINE n == Len(pairs)
           seat == Seat(n, ByKey)
<1>1. /\ pairs' = pairs /\ Places = 1 .. n /\ n \in Nat /\ Places' = Places
      /\ \A i \in Places : pairs[i] \in Nat
      /\ IsOrder(1 .. n, ByKey) /\ order' = seat
  BY FewBySeats, KeysAreNumbers DEF SortFew, SortedInv, Places
<1>2. /\ seat \in [Places -> Places]
      /\ \A a, b \in Places : a < b => <<seat[a], seat[b]>> \in ByKey
      /\ \A p \in Places : \E a \in Places : seat[a] = p
  BY <1>1, SeatsKeepOrder
<1> HIDE DEF seat, n
<1>3. Permutes'
  BY <1>1, <1>2 DEF Permutes
<1>4. ASSUME NEW a \in Places, NEW b \in Places, a < b
      PROVE  Key(a)' < Key(b)' \/ (Key(a)' = Key(b)' /\ order'[a] < order'[b])
  <2>1. \/ pairs[seat[a]] < pairs[seat[b]]
        \/ pairs[seat[a]] = pairs[seat[b]] /\ seat[a] < seat[b]
    BY <1>2, <1>4 DEF ByKey
  <2>2. QED
    BY <1>1, <2>1 DEF Key
<1>5. QED
  BY <1>1, <1>3, <1>4 DEF SortedAndStable

LEMMA SortedUnmoved ==
  ASSUME SortedInv, UNCHANGED <<pairs, order>>,
         stage \in {"sorted", "finding", "found"}
  PROVE  SortedAndStable' /\ Permutes' /\ pairs' \in Seq(0 .. KeyWidth - 1)
<1>1. Permutes /\ SortedAndStable /\ pairs \in Seq(0 .. KeyWidth - 1)
  BY DEF SortedInv
<1>2. Permutes'
  BY <1>1 DEF Permutes, Places
<1>3. SortedAndStable'
  BY <1>1 DEF SortedAndStable, Key, Places
<1>4. QED
  BY <1>1, <1>2, <1>3

----------------------------------------------------------------------------
(* Finding.                                                                *)

\* Once sorted, keys do not descend.
LEMMA Ascending ==
  ASSUME SortedInv, stage \in {"sorted", "finding", "found"}
  PROVE  /\ Places = 1 .. Len(pairs) /\ Len(pairs) \in Nat
         /\ \A p \in Places : Key(p) \in Nat /\ order[p] \in Places
         /\ \A p, q \in Places : p <= q => Key(p) <= Key(q)
<1>1. /\ Places = 1 .. Len(pairs) /\ Len(pairs) \in Nat /\ Permutes /\ SortedAndStable
      /\ \A i \in Places : pairs[i] \in Nat
  BY KeysAreNumbers DEF SortedInv
<1>2. \A p \in Places : Key(p) \in Nat /\ order[p] \in Places
  BY <1>1 DEF Key, Permutes
<1>3. ASSUME NEW p \in Places, NEW q \in Places, p <= q PROVE Key(p) <= Key(q)
  <2>1. CASE p = q
    BY <1>2, <2>1
  <2>2. CASE p # q
    <3>1. p < q
      BY <1>1, <1>3, <2>2
    <3>2. Key(p) < Key(q) \/ Key(p) = Key(q)
      BY <1>1, <3>1 DEF SortedAndStable
    <3>3. QED
      BY <1>2, <3>2
  <2>3. QED
    BY <2>1, <2>2
<1>4. QED
  BY <1>1, <1>2, <1>3

LEMMA HalvesBracket ==
  ASSUME SortedInv, HalveUp \/ HalveDown
  PROVE  Bracketed'
<1>1. /\ stage = "finding" /\ lo < hi /\ Bracketed /\ UNCHANGED <<pairs, order, soughtKey>>
      /\ lo \in Nat /\ hi \in Nat /\ Len(pairs) \in Nat /\ hi <= Len(pairs)
  BY KeysAreNumbers DEF HalveUp, HalveDown, SortedInv, Bracketed
<1>2. Mid \in Nat /\ lo <= Mid /\ Mid < hi
  BY <1>1 DEF Mid
<1>3. /\ Mid + 1 \in Places
      /\ \A p \in Places : p <= Mid + 1 => Key(p) <= Key(Mid + 1)
      /\ \A p \in Places : p >= Mid + 1 => Key(p) >= Key(Mid + 1)
      /\ \A p \in Places : p \in Nat /\ Key(p) \in Nat
      /\ soughtKey \in Nat
  BY <1>1, <1>2, Ascending DEF Bracketed
<1>4. /\ Places' = Places
      /\ \A p \in Places : Key(p)' = Key(p)
  BY <1>1 DEF Places, Key
<1>5. CASE HalveUp
  <2>1. lo' = Mid + 1 /\ hi' = hi /\ Key(Mid + 1) < soughtKey
    BY <1>5 DEF HalveUp, Above
  <2> HIDE DEF Mid
  <2>2. \A p \in Places : p <= lo' => Key(p)' < soughtKey'
    BY <1>1, <1>2, <1>3, <1>4, <2>1
  <2>3. \A p \in Places : p > hi' => Key(p)' >= soughtKey'
    BY <1>1, <1>4, <2>1 DEF Bracketed
  <2>4. QED
    BY <1>1, <1>2, <1>3, <1>4, <2>1, <2>2, <2>3 DEF Bracketed
<1>6. CASE HalveDown
  <2>1. lo' = lo /\ hi' = Mid /\ Key(Mid + 1) >= soughtKey
    BY <1>6 DEF HalveDown
  <2> HIDE DEF Mid
  <2>2. \A p \in Places : p <= lo' => Key(p)' < soughtKey'
    BY <1>1, <1>4, <2>1 DEF Bracketed
  <2>3. \A p \in Places : p > hi' => Key(p)' >= soughtKey'
    BY <1>1, <1>2, <1>3, <1>4, <2>1
  <2>4. QED
    BY <1>1, <1>2, <1>3, <1>4, <2>1, <2>2, <2>3 DEF Bracketed
<1>7. QED
  BY <1>5, <1>6

LEMMA FindAnswers ==
  ASSUME SortedInv, FoundPair
  PROVE  FindsFirstPair' /\ hit' \in 0 .. Len(pairs)
<1> DEFINE n == Len(pairs)
           same == {i \in Places : pairs[i] = soughtKey}
<1>1. /\ stage = "finding" /\ lo >= hi /\ Bracketed /\ UNCHANGED <<pairs, order, soughtKey>>
      /\ lo \in Nat /\ hi \in Nat /\ n \in Nat /\ hi <= n /\ lo <= hi /\ soughtKey \in Nat
      /\ hit' = IF lo < n /\ Key(lo + 1) = soughtKey THEN order[lo + 1] ELSE 0
      /\ stage' = "found" /\ Permutes /\ SortedAndStable
  BY KeysAreNumbers DEF FoundPair, SortedInv, Bracketed
<1>2. /\ Places = 1 .. n
      /\ \A p \in Places : Key(p) \in Nat /\ order[p] \in Places
      /\ \A p, q \in Places : p <= q => Key(p) <= Key(q)
  BY <1>1, Ascending
<1>3. ASSUME NEW i \in same
      PROVE  \E p \in Places : order[p] = i /\ Key(p) = soughtKey /\ p > lo
  <2>1. PICK p \in Places : order[p] = i
    BY <1>1 DEF Permutes
  <2>2. Key(p) = soughtKey
    BY <2>1 DEF Key
  <2>3. ~(p <= lo)
    <3>1. p <= lo => Key(p) < soughtKey
      BY <1>1 DEF Bracketed
    <3>2. QED
      BY <1>1, <2>2, <3>1
  <2>4. p > lo
    BY <1>1, <1>2, <2>3
  <2>5. QED
    BY <2>1, <2>2, <2>4
<1>4. CASE lo < n /\ Key(lo + 1) = soughtKey
  <2>1. lo + 1 \in Places /\ hit' = order[lo + 1] /\ hit' \in same
    BY <1>1, <1>2, <1>4 DEF Key
  <2>2. ASSUME NEW i \in same PROVE hit' <= i
    <3>1. PICK p \in Places : order[p] = i /\ Key(p) = soughtKey /\ p > lo
      BY <1>3
    <3>2. CASE p = lo + 1
      BY <1>2, <2>1, <3>1, <3>2
    <3>3. CASE p # lo + 1
      <4>1. lo + 1 < p
        BY <1>1, <1>2, <3>1, <3>3
      <4>2. order[lo + 1] < order[p]
        <5>1. lo + 1 \in Places /\ p \in Places /\ Key(p) = Key(lo + 1)
          BY <1>4, <2>1, <3>1
        <5>2. \/ Key(lo + 1) < Key(p)
              \/ Key(lo + 1) = Key(p) /\ order[lo + 1] < order[p]
          BY <1>1, <4>1, <5>1 DEF SortedAndStable
        <5>3. QED
          BY <1>2, <5>1, <5>2
      <4>3. QED
        BY <1>2, <2>1, <3>1, <4>2
    <3>4. QED
      BY <3>2, <3>3
  <2>3. QED
    BY <1>1, <1>2, <2>1, <2>2 DEF FindsFirstPair, Places
<1>5. CASE ~(lo < n /\ Key(lo + 1) = soughtKey)
  <2>1. same = {}
    <3>1. SUFFICES ASSUME NEW i \in same PROVE FALSE
      OBVIOUS
    <3>2. PICK p \in Places : order[p] = i /\ Key(p) = soughtKey /\ p > lo
      BY <1>3
    <3>3. lo < n /\ lo + 1 \in Places /\ lo + 1 <= p /\ lo + 1 > hi
      BY <1>1, <1>2, <3>2
    <3>4. Key(lo + 1) >= soughtKey /\ Key(lo + 1) <= Key(p)
      BY <1>1, <1>2, <3>3 DEF Bracketed
    <3>5. QED
      BY <1>1, <1>2, <1>5, <3>2, <3>3, <3>4
  <2>2. hit' = 0
    BY <1>1, <1>5
  <2>3. QED
    BY <1>1, <1>2, <2>1, <2>2 DEF FindsFirstPair, Places
<1>6. QED
  BY <1>4, <1>5

----------------------------------------------------------------------------
(* The steps.                                                              *)

LEMMA SortingKeepsInv ==
  ASSUME SortedInv,
         (\E key \in KeysAdded : AddPair(key)) \/ SortFew \/ SortMany \/ SkipPass \/ RunPass
  PROVE  SortedInv'
<1>1. CASE \E key \in KeysAdded : AddPair(key)
  <2>1. PICK key \in KeysAdded : AddPair(key)
    BY <1>1
  <2>2. key % KeyWidth \in 0 .. KeyWidth - 1
    <3>1. key \in Nat /\ KeyWidth \in Nat /\ KeyWidth > 0
      BY KeysAssumption, KeysAreNumbers DEF SortedInv
    <3>2. QED
      BY <3>1, Quotient
  <2>3. pairs' \in Seq(0 .. KeyWidth - 1) /\ Len(pairs') = Len(pairs) + 1 /\ Len(pairs) \in Nat
    BY <2>1, <2>2 DEF AddPair, SortedInv
  <2>4. stage = "adding" /\ stage' = "adding" /\ UNCHANGED <<pass, lo, hi, hit>>
    BY <2>1 DEF AddPair
  <2>5. QED
    BY <2>3, <2>4 DEF SortedInv, SortedAndStable, FindsFirstPair
<1>2. CASE SortFew
  <2>1. Permutes' /\ SortedAndStable'
    BY <1>2, FewSorts
  <2>2. stage' = "sorted" /\ UNCHANGED <<pairs, pass, lo, hi, hit>>
    BY <1>2 DEF SortFew
  <2>3. QED
    BY <2>1, <2>2 DEF SortedInv, FindsFirstPair
<1>3. CASE SortMany
  <2>1. /\ stage' = "sorting" /\ pass' = 1 /\ order' = Identity /\ UNCHANGED <<pairs, lo, hi, hit>>
        /\ Places' = Places /\ Places \subseteq Nat
    BY <1>3, KeysAreNumbers DEF SortMany, SortedInv, Places
  <2>2. Permutes'
    BY <2>1 DEF Permutes, Identity
  <2>3. InOrder(Power)'
    <3>1. Power' = 1
      BY <2>1 DEF Power
    <3>2. ASSUME NEW p \in Places PROVE Key(p)' % 1 = 0
      <4>1. Key(p)' = pairs[p] /\ pairs[p] \in Nat
        BY <2>1, KeysAreNumbers DEF Key, Identity, SortedInv
      <4>2. QED
        BY <4>1
    <3>3. \A p \in Places : order'[p] = p
      BY <2>1 DEF Identity
    <3>4. QED
      BY <2>1, <3>1, <3>2, <3>3 DEF InOrder
  <2>4. QED
    BY <2>1, <2>2, <2>3 DEF SortedInv, SortedAndStable, FindsFirstPair, Passes
<1>4. CASE SkipPass \/ RunPass
  <2>1. /\ stage = "sorting" /\ NextPass /\ UNCHANGED <<pairs, lo, hi, hit>>
        /\ Permutes'
        /\ \A p, q \in Places : p < q =>
             \/ Key(p)' % (Power * PassBuckets) < Key(q)' % (Power * PassBuckets)
             \/ /\ Key(p)' % (Power * PassBuckets) = Key(q)' % (Power * PassBuckets)
                /\ order'[p] < order'[q]
    <3>1. CASE SkipPass
      BY <3>1, SkipSorts DEF SkipPass
    <3>2. CASE RunPass
      BY <3>2, PassSorts DEF RunPass
    <3>3. QED
      BY <1>4, <3>1, <3>2
  <2>2. /\ pass' \in 0 .. Passes /\ stage' \in {"sorting", "sorted"}
        /\ stage' = "sorting" => pass' # 0 /\ InOrder(Power)'
        /\ SortedAndStable'
    BY <2>1, NextPassInOrder
  <2>3. QED
    BY <2>1, <2>2 DEF SortedInv, FindsFirstPair
<1>5. QED
  BY <1>1, <1>2, <1>3, <1>4

LEMMA FindingKeepsInv ==
  ASSUME SortedInv,
         (\E key \in KeysSought : FindPair(key)) \/ Halving \/ PairReturned
  PROVE  SortedInv'
<1>1. /\ stage \in {"sorted", "finding", "found"} /\ stage' \in {"sorted", "finding", "found"}
      /\ UNCHANGED <<pairs, order, pass>>
  BY DEF FindPair, Halving, HalveUp, HalveDown, FoundPair, PairReturned
<1>2. SortedAndStable' /\ Permutes' /\ pairs' \in Seq(0 .. KeyWidth - 1)
  BY <1>1, SortedUnmoved
<1>3. Len(pairs) \in Nat /\ lo \in 0 .. Len(pairs) /\ hi \in 0 .. Len(pairs)
      /\ hit \in 0 .. Len(pairs) /\ pass \in 0 .. Passes
  BY KeysAreNumbers DEF SortedInv
<1>4. CASE \E key \in KeysSought : FindPair(key)
  <2>1. PICK key \in KeysSought : FindPair(key)
    BY <1>4
  <2>2. /\ stage' = "finding" /\ soughtKey' = key /\ key \in Nat /\ lo' = 0
        /\ hi' = Len(pairs) /\ hit' = hit
    BY <2>1, KeysAssumption DEF FindPair
  <2>3. Bracketed'
    BY <1>1, <1>3, <2>2, KeysAreNumbers DEF Bracketed, Places, SortedInv
  <2>4. QED
    BY <1>1, <1>2, <1>3, <2>2, <2>3 DEF SortedInv, FindsFirstPair
<1>5. CASE HalveUp \/ HalveDown
  <2>1. Bracketed'
    BY <1>5, HalvesBracket
  <2>2. stage' = "finding" /\ hit' = hit
    BY <1>5 DEF HalveUp, HalveDown
  <2>3. QED
    BY <1>1, <1>2, <1>3, <2>1, <2>2 DEF SortedInv, FindsFirstPair, Bracketed
<1>6. CASE FoundPair
  <2>1. FindsFirstPair' /\ hit' \in 0 .. Len(pairs)
    BY <1>6, FindAnswers
  <2>2. stage' = "found" /\ UNCHANGED <<lo, hi>>
    BY <1>6 DEF FoundPair
  <2>3. QED
    BY <1>1, <1>2, <1>3, <2>1, <2>2 DEF SortedInv
<1>7. CASE PairReturned
  <2>1. stage' = "sorted" /\ lo' = 0 /\ hi' = 0 /\ hit' = 0
    BY <1>7 DEF PairReturned
  <2>2. QED
    BY <1>1, <1>2, <1>3, <2>1 DEF SortedInv, FindsFirstPair
<1>8. QED
  BY <1>4, <1>5, <1>6, <1>7 DEF Halving

(* The passes sort digit by digit, a search keeps what it looks for        *)
(* between lo and hi, whatever is added and sought                         *)
(* (sortedU32Index.ts:9-62, 73-121).                                       *)
THEOREM SortingInvariant == SortedSpec => []SortedInv
<1>1. SortedInit => SortedInv
  <2>1. <<>> \in Seq(0 .. KeyWidth - 1) /\ Len(<<>>) = 0
    OBVIOUS
  <2>2. QED
    BY <2>1 DEF SortedInit, SortedInv, SortedAndStable, FindsFirstPair, Passes
<1>2. SortedInv /\ [SortedNext]_sortedVars => SortedInv'
  <2>1. CASE SortedInv /\ SortedNext
    BY <2>1, SortingKeepsInv, FindingKeepsInv DEF SortedNext
  <2>2. CASE SortedInv /\ UNCHANGED sortedVars
    <3>1. UNCHANGED <<stage, pairs, order, pass, lo, hi, soughtKey, hit>> /\ SortedInv
      BY <2>2 DEF sortedVars
    <3>2. Places' = Places /\ \A p : Key(p)' = Key(p)
      BY <3>1 DEF Places, Key
    <3>3. Permutes => Permutes'
      BY <3>1, <3>2 DEF Permutes
    <3>4. InOrder(Power) => InOrder(Power)'
      <4>1. Power' = Power
        BY <3>1 DEF Power
      <4>2. QED
        BY <3>1, <3>2, <4>1 DEF InOrder
    <3>5. SortedAndStable => SortedAndStable'
      BY <3>1, <3>2 DEF SortedAndStable
    <3>6. Bracketed => Bracketed'
      BY <3>1, <3>2 DEF Bracketed
    <3>7. FindsFirstPair => FindsFirstPair'
      BY <3>1, <3>2 DEF FindsFirstPair
    <3>8. QED
      BY <3>1, <3>3, <3>4, <3>5, <3>6, <3>7 DEF SortedInv
  <2>3. QED
    BY <2>1, <2>2
<1>3. QED
  BY <1>1, <1>2, PTL DEF SortedSpec

(* Once finalized the keys are ascending, and those that are equal in the  *)
(* order they were added, for any keys, any number of pairs and any base   *)
(* of the digits (sortedU32Index.ts:9-62, 73-99).                          *)
THEOREM AlwaysSortedAndStable == SortedSpec => []SortedAndStable
<1>1. SortedInv => SortedAndStable
  BY DEF SortedInv
<1>2. QED
  BY <1>1, SortingInvariant, PTL

(* find returns the value that was added first with the key, and undefined *)
(* only if there is none (sortedU32Index.ts:108-121).                      *)
THEOREM AlwaysFindsFirst == SortedSpec => []FindsFirstPair
<1>1. SortedInv => FindsFirstPair
  BY DEF SortedInv
<1>2. QED
  BY <1>1, SortingInvariant, PTL

(* The order is one of all pairs (sortedU32Index.ts:73-99).                *)
THEOREM SortedTypesHold == SortedSpec => []SortedTypeOK
<1>1. SortedInv => SortedTypeOK
  BY DEF SortedInv, SortedTypeOK, Permutes
<1>2. QED
  BY <1>1, SortingInvariant, PTL

----------------------------------------------------------------------------
(* Buffers.                                                                *)

IsStore(store) ==
    /\ store = [data |-> store.data, len |-> store.len]
    /\ store.data \in Seq(Int)
    /\ store.len \in Nat /\ store.len <= Len(store.data)

\* What was in a store is still there.
Extends(new, old) ==
    /\ new.len >= old.len
    /\ \A p \in 1 .. old.len : new.data[p] = old.data[p]

(* Doubling comes to what is needed.                                       *)
LEMMA DoublingSuffices ==
  ASSUME NEW from \in Nat \ {0}, NEW needed \in Nat, needed <= MaxValues
  PROVE  Doubled(from, needed) \in Nat /\ Doubled(from, needed) >= needed
<1>1. needed <= 1073741824
  BY DEF MaxValues
<1>2. \E d \in Doublings : from * d >= needed /\ (d = 1 \/ from * d < 2 * needed)
  BY <1>1, SMTT(60) DEF Doublings
<1>3. PICK d \in Doublings : Doubled(from, needed) = from * d /\ from * d >= needed
  BY <1>2 DEF Doubled
<1>4. d \in Nat
  BY DEF Doublings
<1>5. from * d \in Nat
  BY <1>4
<1>6. QED
  BY <1>3, <1>5

LEMMA ReservedKeeps ==
  ASSUME NEW store, IsStore(store), NEW more \in Nat, store.len + more <= MaxValues
  PROVE  /\ IsStore(Reserved(store, more))
         /\ Reserved(store, more).len = store.len
         /\ Len(Reserved(store, more).data) >= store.len + more
         /\ Extends(Reserved(store, more), store)
<1> DEFINE capacity == Len(store.data)
           from == IF capacity = 0 THEN InitialCapacity ELSE capacity
           wide == Doubled(from, store.len + more)
           data == [p \in 1 .. wide |-> IF p <= store.len THEN store.data[p] ELSE 0]
<1>1. capacity \in Nat /\ store.len \in Nat /\ store.len <= capacity
  BY DEF IsStore
<1>2. CASE store.len + more <= capacity
  <2>1. Reserved(store, more) = store
    BY <1>2 DEF Reserved
  <2>2. QED
    BY <1>1, <1>2, <2>1 DEF Extends
<1>3. CASE ~(store.len + more <= capacity)
  <2>1. from \in Nat \ {0}
    BY <1>1, CapacityAssumption
  <2>2. wide \in Nat /\ wide >= store.len + more
    BY <1>1, <2>1, DoublingSuffices
  <2>3. Reserved(store, more) = [store EXCEPT !.data = data]
    BY <1>3 DEF Reserved
  <2> HIDE DEF wide
  <2>4. /\ data \in Seq(Int) /\ Len(data) = wide
        /\ \A p \in 1 .. store.len : data[p] = store.data[p]
    <3>1. \A p \in 1 .. wide : data[p] \in Int
      <4>1. \A p \in 1 .. capacity : store.data[p] \in Int
        BY DEF IsStore
      <4>2. QED
        BY <1>1, <4>1
    <3>2. QED
      BY <1>1, <2>2, <3>1
  <2> HIDE DEF data
  <2>5. Reserved(store, more) = [data |-> data, len |-> store.len]
    BY <2>3 DEF IsStore
  <2>6. QED
    BY <1>1, <2>2, <2>4, <2>5 DEF IsStore, Extends
<1>4. QED
  BY <1>2, <1>3

LEMMA FilledAppends ==
  ASSUME NEW store, IsStore(store), NEW values \in Seq(Int),
         store.len + Len(values) <= Len(store.data)
  PROVE  /\ IsStore(Filled(store, values))
         /\ Filled(store, values).len = store.len + Len(values)
         /\ Extends(Filled(store, values), store)
         /\ \A v \in 1 .. Len(values) : Filled(store, values).data[store.len + v] = values[v]
<1> DEFINE data == [p \in DOMAIN store.data |->
                        IF p - store.len \in DOMAIN values THEN values[p - store.len]
                                                           ELSE store.data[p]]
<1>1. /\ store.data \in Seq(Int) /\ store.len \in Nat /\ Len(values) \in Nat
      /\ Len(store.data) \in Nat /\ DOMAIN store.data = 1 .. Len(store.data)
      /\ DOMAIN values = 1 .. Len(values)
  BY DEF IsStore
<1>2. Filled(store, values) = [data |-> data, len |-> store.len + Len(values)]
  BY DEF Filled
<1>3. \A p \in 1 .. Len(store.data) : data[p] \in Int
  BY <1>1
<1>4. data \in Seq(Int) /\ Len(data) = Len(store.data)
  BY <1>1, <1>3
<1>5. \A p \in 1 .. store.len : data[p] = store.data[p]
  BY <1>1
<1>6. \A v \in 1 .. Len(values) : data[store.len + v] = values[v]
  <2>1. ASSUME NEW v \in 1 .. Len(values) PROVE data[store.len + v] = values[v]
    <3>1. store.len + v \in DOMAIN store.data /\ (store.len + v) - store.len = v
      <4> DEFINE at == store.len
                 room == Len(store.data)
      <4>1. /\ at \in Nat /\ Len(values) \in Nat /\ room \in Nat
            /\ at + Len(values) <= room /\ DOMAIN store.data = 1 .. room
        BY <1>1
      <4> HIDE DEF at, room
      <4>2. at + v \in 1 .. room /\ (at + v) - at = v
        BY <4>1
      <4>3. QED
        BY <4>1, <4>2 DEF at
    <3>2. QED
      BY <1>1, <3>1
  <2>2. QED
    BY <2>1
<1> HIDE DEF data
<1>7. QED
  BY <1>1, <1>2, <1>4, <1>5, <1>6 DEF IsStore, Extends

LEMMA LeastNumber ==
  ASSUME NEW T, T \subseteq Nat, T # {}
  PROVE  \E d \in T : \A c \in T : d <= c
<1> DEFINE Below == {p \in Nat \X Nat : p[1] < p[2]}
<1>1. Below = OpToRel(<, Nat)
  BY Zenon DEF OpToRel
<1>2. IsWellFoundedOn(Below, Nat)
  BY <1>1, NatLessThanWellFounded, Zenon
<1>3. \E d \in T : \A c \in T : ~(<<c, d>> \in Below)
  <2> HIDE DEF Below
  <2>1. QED
    BY <1>2, WFMin, Zenon
<1>4. \A c, d \in Nat : c < d => <<c, d>> \in Below
  OBVIOUS
<1> HIDE DEF Below
<1>5. PICK d \in T : \A c \in T : ~(<<c, d>> \in Below)
  BY <1>3
<1>6. \A c \in T : ~(c < d)
  BY <1>4, <1>5
<1>7. QED
  BY <1>5, <1>6

LEMMA FittingIsPrefix ==
  ASSUME NEW spec, NEW values \in Seq(Int)
  PROVE  /\ Fitting(spec, values) \in Seq(Int)
         /\ Len(Fitting(spec, values)) <= Len(values)
         /\ \A i \in 1 .. Len(Fitting(spec, values)) : Fitting(spec, values)[i] = values[i]
         /\ ~Throws(spec, values) => Fitting(spec, values) = values
<1> DEFINE bad == {i \in DOMAIN values : ~Fits(spec, values[i])}
           first == CHOOSE i \in bad : \A j \in bad : i <= j
<1>1. CASE bad = {}
  <2>1. Fitting(spec, values) = values
    BY <1>1 DEF Fitting
  <2>2. QED
    BY <2>1
<1>2. CASE bad # {}
  <2>1. Throws(spec, values)
    BY <1>2 DEF Throws
  <2>2. first \in bad
    <3>1. \E i \in bad : \A j \in bad : i <= j
      <4>1. bad \subseteq Nat
        OBVIOUS
      <4> HIDE DEF bad
      <4>2. QED
        BY <1>2, <4>1, LeastNumber
    <3>2. QED
      BY <3>1
  <2>3. first \in 1 .. Len(values)
    BY <2>2
  <2>4. Fitting(spec, values) = SubSeq(values, 1, first - 1)
    BY <1>2 DEF Fitting
  <2> HIDE DEF first
  <2>5. QED
    BY <2>1, <2>3, <2>4
<1>3. QED
  BY <1>1, <1>2

LEMMA ExtendsOver ==
  ASSUME NEW a, NEW b, NEW c, Extends(c, b), Extends(b, a),
         a.len \in Nat, b.len \in Nat, c.len \in Nat
  PROVE  Extends(c, a)
BY DEF Extends

(* A push leaves what there was; it adds a stride, or throws, and then     *)
(* leaves a store of single values as it was.                              *)
LEMMA PushedKeeps ==
  ASSUME NEW store, IsStore(store), NEW spec, spec.stride \in Nat \ {0},
         NEW values \in Seq(Int), store.len + spec.stride <= MaxValues
  PROVE  LET pushed == Pushed(store, spec, values)
             stride == Strided(spec, values)
         IN  /\ IsStore(pushed) /\ Extends(pushed, store)
             /\ Throws(spec, stride) /\ spec.stride = 1 => pushed = store
             /\ ~Throws(spec, stride) =>
                    /\ pushed.len = store.len + spec.stride
                    /\ \A s \in 1 .. spec.stride : pushed.data[store.len + s] = stride[s]
<1> DEFINE stride == Strided(spec, values)
           room == Reserved(store, Len(stride))
           fitting == Fitting(spec, stride)
           pushed == Pushed(store, spec, values)
<1>1. stride \in Seq(Int) /\ Len(stride) = spec.stride
  <2>1. \A s \in 1 .. spec.stride : stride[s] \in Int
    BY DEF Strided
  <2>2. stride = [s \in 1 .. spec.stride |-> IF s \in DOMAIN values THEN values[s] ELSE 0]
    BY DEF Strided
  <2> HIDE DEF stride
  <2>3. QED
    BY <2>1, <2>2
<1>2. CASE spec.stride = 1 /\ Throws(spec, stride)
  <2>1. pushed = store
    BY <1>2 DEF Pushed
  <2>2. Extends(store, store)
    BY DEF Extends, IsStore
  <2>3. QED
    BY <1>2, <2>1, <2>2
<1>3. CASE ~(spec.stride = 1 /\ Throws(spec, stride))
  <2>1. pushed = Filled(room, fitting)
    BY <1>3 DEF Pushed
  <2> HIDE DEF stride
  <2>2. /\ IsStore(room) /\ room.len = store.len /\ Extends(room, store)
        /\ Len(room.data) >= store.len + Len(stride)
    BY <1>1, ReservedKeeps
  <2>3. /\ fitting \in Seq(Int) /\ Len(fitting) <= Len(stride)
        /\ ~Throws(spec, stride) => fitting = stride
    BY <1>1, FittingIsPrefix
  <2> HIDE DEF room, fitting
  <2>4. /\ Len(fitting) \in Nat /\ Len(stride) \in Nat /\ Len(room.data) \in Nat
        /\ store.len \in Nat
    BY <1>1, <2>2, <2>3 DEF IsStore
  <2>5. room.len + Len(fitting) <= Len(room.data)
    BY <2>2, <2>3, <2>4
  <2>6. /\ IsStore(pushed) /\ pushed.len = store.len + Len(fitting)
        /\ Extends(pushed, room)
        /\ \A v \in 1 .. Len(fitting) : pushed.data[store.len + v] = fitting[v]
    <3>1. /\ IsStore(Filled(room, fitting))
          /\ Filled(room, fitting).len = room.len + Len(fitting)
          /\ Extends(Filled(room, fitting), room)
          /\ \A v \in 1 .. Len(fitting) :
                 Filled(room, fitting).data[room.len + v] = fitting[v]
      BY <2>2, <2>3, <2>5, FilledAppends
    <3>2. QED
      BY <2>1, <2>2, <3>1
  <2> HIDE DEF pushed
  <2>7. Extends(pushed, store)
    BY <2>2, <2>6, ExtendsOver DEF IsStore
  <2>8. QED
    BY <1>1, <1>3, <2>3, <2>6, <2>7 DEF pushed, stride
<1>4. QED
  BY <1>2, <1>3

----------------------------------------------------------------------------
(* Rows in columns.                                                        *)

LEMMA StridesReach ==
  ASSUME NEW stride \in Nat \ {0}, NEW n \in Nat, NEW i \in 1 .. n, NEW s \in 1 .. stride
  PROVE  /\ (i - 1) * stride \in Nat /\ stride * n \in Nat
         /\ (i - 1) * stride + s \in 1 .. stride * n
<1>1. PICK c \in Nat : n = i + c
  <2>1. n - i \in Nat /\ n = i + (n - i)
    OBVIOUS
  <2>2. QED
    BY <2>1
<1>2. PICK d \in Nat : i = d + 1
  <2>1. i - 1 \in Nat /\ i = (i - 1) + 1
    OBVIOUS
  <2>2. QED
    BY <2>1
<1>3. stride * n = stride * d + stride + stride * c /\ (i - 1) * stride = stride * d
  BY <1>1, <1>2
<1>4. stride * d \in Nat /\ stride * c \in Nat
  OBVIOUS
<1>5. QED
  BY <1>3, <1>4

\* No push has broken off in the middle of a row.
Whole == sound = [rows |-> MaxRows, buckets |-> MaxRows]

Stores ==
    /\ DOMAIN stores = Columns
    /\ \A c \in Columns : IsStore(stores[c])

\* How rows are recorded.
RowsTyped ==
    /\ rows \in Seq([Columns -> Seq(Int)])
    /\ \A i \in 1 .. Len(rows) : \A c \in Columns :
           DOMAIN rows[i][c] = 1 .. made.specs[c].stride

\* A row that came before a broken one is in every column.
RowsHeld ==
    \A i \in 1 .. Len(rows) : i <= sound.rows =>
        \A c \in Columns : \A s \in 1 .. made.specs[c].stride :
            LET at == (i - 1) * made.specs[c].stride + s
            IN  at \in 1 .. stores[c].len /\ stores[c].data[at] = rows[i][c][s]

\* Where no row is broken the columns have nothing but rows.
ColumnsWhole ==
    IF Whole THEN \A c \in Columns : stores[c].len = made.specs[c].stride * Len(rows)
    ELSE Breaks /\ sound.rows <= Len(rows) /\ sound.buckets <= Len(ends) - 1

\* Buckets end one after the other, where they were ended.
BucketsEnd ==
    /\ ends \in Seq(Nat) /\ ends # <<>>
    /\ closed \in Seq(Nat) /\ Len(closed) = Len(ends)
    /\ \A b \in 1 .. Len(ends) - 1 : ends[b] <= ends[b + 1]
    /\ made.kind # "numArray" => ends[Len(ends)] * made.specs[1].stride <= stores[1].len
    /\ made.kind = "numArray" => Len(ends) = 1
    /\ \A b \in 1 .. Len(ends) : b <= sound.buckets + 1 => ends[b] = closed[b]

BucketsInv ==
    /\ made \in Fields
    /\ progress \in {"writing", "finalized"}
    /\ sound \in [rows : Nat, buckets : Nat]
    /\ Stores
    /\ RowsTyped
    /\ RowsHeld
    /\ ColumnsWhole
    /\ BucketsEnd
    /\ Whole => Len(ends) <= MaxRows + 1 /\ Len(rows) <= MaxRows
    /\ made.kind = "numArray" => Whole

LEMMA FieldShape ==
  ASSUME made \in Fields
  PROVE  /\ Columns = 1 .. Len(made.specs) /\ Len(made.specs) \in Nat \ {0} /\ 1 \in Columns
         /\ \A c \in Columns : made.specs[c].stride \in Nat \ {0}
         /\ made.kind # "multiBucketArray" => Columns = {1}
         /\ made.kind = "numArray" => made.specs[1].stride = 1 /\ ~Breaks
         /\ ~Breaks => Columns = {1} /\ made.specs[1].stride = 1
         /\ made.kind \in {"numArray", "bucketArray", "multiBucketArray"}
<1>1. /\ Columns = 1 .. Len(made.specs) /\ Len(made.specs) \in Nat \ {0} /\ 1 \in Columns
      /\ \A c \in Columns : made.specs[c].stride \in Nat \ {0}
  BY FieldsAssumption DEF Columns
<1>2. /\ made.kind # "multiBucketArray" => Len(made.specs) = 1
      /\ made.kind = "numArray" => made.specs[1].stride = 1
      /\ made.kind \in {"numArray", "bucketArray", "multiBucketArray"}
  BY FieldsAssumption
<1>3. ~Breaks => Len(made.specs) = 1 /\ made.specs[1].stride = 1
  <2> DEFINE n == Len(made.specs)
             stride == made.specs[1].stride
  <2>1. n \in Nat \ {0} /\ stride \in Nat \ {0}
    BY <1>1
  <2>2. ~Breaks => ~(n > 1) /\ ~(stride > 1)
    BY DEF Breaks
  <2> HIDE DEF n, stride
  <2>3. ~Breaks => n = 1 /\ stride = 1
    BY <2>1, <2>2
  <2>4. QED
    BY <2>3 DEF n, stride
<1>4. QED
  BY <1>1, <1>2, <1>3 DEF Breaks

LEMMA QuotientIs ==
  ASSUME NEW stride \in Nat \ {0}, NEW n \in Nat
  PROVE  (stride * n) \div stride = n
<1> DEFINE a == stride * n
           q == a \div stride
           r == a % stride
<1>1. a \in Nat /\ q \in Nat /\ r \in Nat /\ r < stride /\ a = stride * q + r
  BY Product, Quotient
<1>2. a = stride * n
  OBVIOUS
<1> HIDE DEF a, q, r
<1>3. stride * q \in Nat /\ stride * n \in Nat
  BY <1>1, Product
<1>4. ~(q < n)
  <2>1. SUFFICES ASSUME q < n PROVE FALSE
    OBVIOUS
  <2>2. stride * q + stride <= stride * n
    BY <1>1, <2>1, ProductRises
  <2>3. QED
    BY <1>1, <1>2, <1>3, <2>2
<1>5. ~(n < q)
  <2>1. SUFFICES ASSUME n < q PROVE FALSE
    OBVIOUS
  <2>2. stride * n + stride <= stride * q
    BY <1>1, <2>1, ProductRises
  <2>3. QED
    BY <1>1, <1>2, <1>3, <2>2
<1>6. q = n
  BY <1>1, <1>4, <1>5
<1>7. QED
  BY <1>6 DEF q, a

LEMMA Counted ==
  ASSUME BucketsInv
  PROVE  /\ ItemCount \in Nat /\ Len(rows) \in Nat /\ Len(ends) \in Nat \ {0}
         /\ ItemCount * made.specs[1].stride <= stores[1].len
         /\ made.kind # "numArray" => ends[Len(ends)] <= ItemCount
         /\ Whole => ItemCount = Len(rows)
<1> DEFINE stride == made.specs[1].stride
           len == stores[1].len
           q == len \div stride
<1>1. stride \in Nat \ {0} /\ len \in Nat /\ Len(rows) \in Nat /\ Len(ends) \in Nat \ {0}
      /\ ends[Len(ends)] \in Nat
  <2>1. stride \in Nat \ {0} /\ len \in Nat
    BY FieldShape DEF BucketsInv, Stores, IsStore
  <2>2. rows \in Seq([Columns -> Seq(Int)]) /\ ends \in Seq(Nat) /\ ends # <<>>
    BY DEF BucketsInv, RowsTyped, BucketsEnd
  <2>3. Len(rows) \in Nat
    BY <2>2, LenProperties
  <2>4. Len(ends) \in Nat \ {0} /\ ends[Len(ends)] \in Nat
    BY <2>2
  <2>5. QED
    BY <2>1, <2>3, <2>4
<1>2. q \in Nat /\ stride * q \in Nat /\ stride * q <= len /\ len < stride * q + stride
  <2> DEFINE l == len
             t == stride
  <2>1. l \in Nat /\ t \in Nat /\ t > 0
    BY <1>1
  <2> HIDE DEF l, t
  <2>2. l \div t \in Nat /\ l % t \in Nat /\ l % t < t /\ l = t * (l \div t) + (l % t)
    BY <2>1, Quotient
  <2>3. t * (l \div t) \in Nat
    BY <2>1, <2>2, Product
  <2>4. t * (l \div t) <= l /\ l < t * (l \div t) + t
    BY <2>1, <2>2, <2>3
  <2>5. QED
    BY <2>2, <2>3, <2>4 DEF l, t
<1>3. ItemCount = q
  BY DEF ItemCount
<1>4. Whole => ItemCount = Len(rows)
  <2>1. Whole => len = stride * Len(rows)
    BY FieldShape DEF BucketsInv, ColumnsWhole
  <2>2. QED
    BY <1>1, <1>3, <2>1, QuotientIs
<1>5. made.kind # "numArray" => ends[Len(ends)] <= q
  <2> DEFINE e == ends[Len(ends)]
  <2>1. made.kind # "numArray" => e * stride <= len
    BY DEF BucketsInv, BucketsEnd
  <2>2. e \in Nat
    BY <1>1
  <2> HIDE DEF e, stride, len, q
  <2>3. q < e => stride * q + stride <= stride * e
    BY <1>1, <1>2, <2>2, ProductRises
  <2>4. stride * e = e * stride /\ stride * e \in Nat
    BY <1>1, <2>2
  <2>5. QED
    BY <1>1, <1>2, <2>1, <2>2, <2>3, <2>4 DEF e
<1>6. q * stride = stride * q
  BY <1>1, <1>2
<1>7. QED
  BY <1>1, <1>2, <1>3, <1>4, <1>5, <1>6

(* What a push does to the columns.                                        *)
LEMMA PushedRow ==
  ASSUME BucketsInv, NEW row \in RowsOf(made), PushRow(row)
  PROVE  LET throws == \E c \in Columns :
                           Throws(made.specs[c], Strided(made.specs[c], row[c]))
         IN  /\ made' = made /\ Columns' = Columns /\ DOMAIN stores' = Columns
             /\ \A c \in Columns : IsStore(stores'[c]) /\ Extends(stores'[c], stores[c])
             /\ ~throws =>
                  /\ rows' = Append(rows, [c \in Columns |-> Strided(made.specs[c], row[c])])
                  /\ sound' = sound
                  /\ \A c \in Columns :
                       /\ stores'[c].len = stores[c].len + made.specs[c].stride
                       /\ \A s \in 1 .. made.specs[c].stride :
                            stores'[c].data[stores[c].len + s] = Strided(made.specs[c], row[c])[s]
             /\ throws => rows' = rows /\ sound' = Broken
             /\ throws /\ ~Breaks => \A c \in Columns : stores'[c] = stores[c]
<1> DEFINE stride(c) == Strided(made.specs[c], row[c])
           throwing == {c \in Columns : Throws(made.specs[c], stride(c))}
           reached == IF throwing = {} THEN Columns ELSE 1 .. LeastOf(throwing)
           pushed(c) == Pushed(stores[c], made.specs[c], row[c])
<1>1. /\ made' = made
      /\ stores' = [c \in Columns |-> IF c \in reached THEN pushed(c) ELSE stores[c]]
      /\ throwing = {} => /\ rows' = Append(rows, [c \in Columns |-> stride(c)])
                          /\ sound' = sound
      /\ throwing # {} => rows' = rows /\ sound' = Broken
  BY DEF PushRow
<1>2. ASSUME NEW c \in Columns
      PROVE  /\ IsStore(pushed(c)) /\ Extends(pushed(c), stores[c])
             /\ Throws(made.specs[c], stride(c)) /\ made.specs[c].stride = 1
                    => pushed(c) = stores[c]
             /\ ~Throws(made.specs[c], stride(c)) =>
                  /\ pushed(c).len = stores[c].len + made.specs[c].stride
                  /\ \A s \in 1 .. made.specs[c].stride :
                         pushed(c).data[stores[c].len + s] = stride(c)[s]
  <2>1. IsStore(stores[c]) /\ made.specs[c].stride \in Nat \ {0}
    BY FieldShape DEF BucketsInv, Stores
  <2>2. row[c] \in Seq(Int)
    BY RowsAssumption DEF BucketsInv, Columns
  <2>3. stores[c].len + made.specs[c].stride <= MaxValues
    BY DEF PushRow
  <2>4. QED
    BY <2>1, <2>2, <2>3, PushedKeeps
<1>3. \A c \in Columns : IsStore(stores[c]) /\ Extends(stores[c], stores[c])
  BY DEF BucketsInv, Stores, IsStore, Extends
<1> DEFINE throws == \E c \in Columns : Throws(made.specs[c], stride(c))
<1>4. throws <=> throwing # {}
  OBVIOUS
<1> HIDE DEF pushed, stride
<1>5. DOMAIN stores' = Columns /\ \A c \in Columns :
          stores'[c] = IF c \in reached THEN pushed(c) ELSE stores[c]
  BY <1>1
<1>6. throws /\ ~Breaks => \A c \in Columns : stores'[c] = stores[c]
  <2>1. SUFFICES ASSUME throws, ~Breaks, NEW c \in Columns PROVE stores'[c] = stores[c]
    OBVIOUS
  <2>2. Columns = {1} /\ made.specs[1].stride = 1
    BY <2>1, FieldShape DEF BucketsInv
  <2>3. Throws(made.specs[c], stride(c)) /\ made.specs[c].stride = 1
    BY <2>1, <2>2
  <2>4. QED
    BY <1>2, <1>5, <2>3
<1>7. ~throws => \A c \in Columns :
          /\ stores'[c].len = stores[c].len + made.specs[c].stride
          /\ \A s \in 1 .. made.specs[c].stride :
                 stores'[c].data[stores[c].len + s] = stride(c)[s]
  <2>1. SUFFICES ASSUME ~throws, NEW c \in Columns
                 PROVE  /\ stores'[c].len = stores[c].len + made.specs[c].stride
                        /\ \A s \in 1 .. made.specs[c].stride :
                               stores'[c].data[stores[c].len + s] = stride(c)[s]
    OBVIOUS
  <2>2. stores'[c] = pushed(c) /\ ~Throws(made.specs[c], stride(c))
    BY <1>4, <1>5, <2>1
  <2>3. QED
    BY <1>2, <2>2
<1>8. \A c \in Columns : IsStore(stores'[c]) /\ Extends(stores'[c], stores[c])
  BY <1>2, <1>3, <1>5
<1>9. Columns' = Columns
  BY <1>1 DEF Columns
<1> HIDE DEF throwing, throws, reached
<1>10. /\ ~throws => /\ rows' = Append(rows, [c \in Columns |-> stride(c)]) /\ sound' = sound
       /\ throws => rows' = rows /\ sound' = Broken
  BY <1>1, <1>4
<1>11. QED
  BY <1>1, <1>5, <1>6, <1>7, <1>8, <1>9, <1>10 DEF throws, stride

(* Rows and buckets stay while the columns only get longer.                *)
LEMMA HeldStays ==
  ASSUME BucketsInv, made' = made, Columns' = Columns, DOMAIN stores' = Columns,
         \A c \in Columns : IsStore(stores'[c]) /\ Extends(stores'[c], stores[c]),
         NEW i \in 1 .. Len(rows), i <= sound.rows, rows'[i] = rows[i]
  PROVE  \A c \in Columns : \A s \in 1 .. made.specs[c].stride :
             LET at == (i - 1) * made.specs[c].stride + s
             IN  at \in 1 .. stores'[c].len /\ stores'[c].data[at] = rows'[i][c][s]
<1> SUFFICES ASSUME NEW c \in Columns, NEW s \in 1 .. made.specs[c].stride
             PROVE  LET at == (i - 1) * made.specs[c].stride + s
                    IN  at \in 1 .. stores'[c].len /\ stores'[c].data[at] = rows'[i][c][s]
  OBVIOUS
<1> DEFINE at == (i - 1) * made.specs[c].stride + s
<1>1. at \in 1 .. stores[c].len /\ stores[c].data[at] = rows[i][c][s]
  BY DEF BucketsInv, RowsHeld
<1>2. /\ stores'[c].len >= stores[c].len /\ stores'[c].len \in Nat /\ stores[c].len \in Nat
      /\ \A p \in 1 .. stores[c].len : stores'[c].data[p] = stores[c].data[p]
  BY DEF BucketsInv, Stores, IsStore, Extends
<1> HIDE DEF at
<1>3. at \in 1 .. stores'[c].len /\ stores'[c].data[at] = rows'[i][c][s]
  BY <1>1, <1>2
<1>4. QED
  BY <1>3 DEF at

LEMMA LongerStill ==
  ASSUME BucketsInv, made' = made, ends' = ends,
         \A c \in Columns : IsStore(stores'[c]) /\ Extends(stores'[c], stores[c])
  PROVE  made.kind # "numArray" => ends'[Len(ends')] * made'.specs[1].stride <= stores'[1].len
<1>1. 1 \in Columns /\ made.specs[1].stride \in Nat
  BY FieldShape DEF BucketsInv
<1>2. ends[Len(ends)] \in Nat
  BY DEF BucketsInv, BucketsEnd
<1> DEFINE covered == ends[Len(ends)] * made.specs[1].stride
<1>3. covered \in Nat
  BY <1>1, <1>2
<1>4. made.kind # "numArray" => covered <= stores[1].len
  BY DEF BucketsInv, BucketsEnd
<1> HIDE DEF covered
<1>5. stores[1].len <= stores'[1].len /\ stores[1].len \in Nat /\ stores'[1].len \in Nat
  BY <1>1 DEF BucketsInv, Stores, IsStore, Extends
<1>6. made.kind # "numArray" => covered <= stores'[1].len
  BY <1>3, <1>4, <1>5
<1>7. QED
  BY <1>6 DEF covered

LEMMA PushRowKeeps ==
  ASSUME BucketsInv, NEW row \in RowsOf(made), PushRow(row)
  PROVE  BucketsInv'
<1> DEFINE throws == \E c \in Columns :
                         Throws(made.specs[c], Strided(made.specs[c], row[c]))
           new == [c \in Columns |-> Strided(made.specs[c], row[c])]
           n == Len(rows)
<1>1. /\ made' = made /\ Columns' = Columns /\ DOMAIN stores' = Columns
      /\ \A c \in Columns : IsStore(stores'[c]) /\ Extends(stores'[c], stores[c])
      /\ ~throws =>
           /\ rows' = Append(rows, new) /\ sound' = sound
           /\ \A c \in Columns :
                /\ stores'[c].len = stores[c].len + made.specs[c].stride
                /\ \A s \in 1 .. made.specs[c].stride :
                     stores'[c].data[stores[c].len + s] = new[c][s]
      /\ throws => rows' = rows /\ sound' = Broken
      /\ throws /\ ~Breaks => \A c \in Columns : stores'[c] = stores[c]
  BY PushedRow
<1>2. UNCHANGED <<ends, progress, closed>> /\ ItemCount < MaxRows
  BY DEF PushRow
<1>3. new \in [Columns -> Seq(Int)] /\ \A c \in Columns : DOMAIN new[c] = 1 .. made.specs[c].stride
  <2>1. ASSUME NEW c \in Columns
        PROVE  /\ Strided(made.specs[c], row[c]) \in Seq(Int)
               /\ DOMAIN Strided(made.specs[c], row[c]) = 1 .. made.specs[c].stride
    <3> DEFINE spec == made.specs[c]
               values == row[c]
    <3>1. spec.stride \in Nat /\ values \in Seq(Int)
      BY FieldShape, RowsAssumption DEF BucketsInv, Columns
    <3> HIDE DEF spec, values
    <3>2. \A s \in 1 .. spec.stride : (IF s \in DOMAIN values THEN values[s] ELSE 0) \in Int
      BY <3>1
    <3>3. QED
      BY <3>1, <3>2 DEF Strided, spec, values
  <2>2. QED
    BY <2>1
<1> HIDE DEF throws, new
<1>4. /\ n \in Nat /\ rows \in Seq([Columns -> Seq(Int)]) /\ Len(ends) \in Nat \ {0}
      /\ sound.rows \in Nat /\ sound.buckets \in Nat /\ MaxRows \in Nat
  BY Counted, CapacityAssumption DEF BucketsInv, RowsTyped
<1>5. Stores'
  BY <1>1 DEF Stores
<1>6. CASE ~throws
  <2>1. /\ Len(rows') = n + 1 /\ rows'[n + 1] = new
        /\ \A i \in 1 .. n : rows'[i] = rows[i]
        /\ rows' \in Seq([Columns -> Seq(Int)])
    <3> DEFINE T == [Columns -> Seq(Int)]
    <3>1. rows \in Seq(T) /\ new \in T /\ rows' = Append(rows, new)
      BY <1>1, <1>3, <1>4, <1>6
    <3> HIDE DEF T
    <3>2. QED
      BY <3>1, AppendProperties DEF T
  <2>2. RowsTyped'
    <3>1. ASSUME NEW i \in 1 .. n + 1, NEW c \in Columns
          PROVE  DOMAIN rows'[i][c] = 1 .. made.specs[c].stride
      <4>1. CASE i = n + 1
        BY <1>3, <2>1, <4>1
      <4>2. CASE i # n + 1
        <5>1. i \in 1 .. n
          BY <1>4, <4>2
        <5>2. QED
          BY <2>1, <5>1 DEF BucketsInv, RowsTyped
      <4>3. QED
        BY <4>1, <4>2
    <3>2. QED
      BY <1>1, <2>1, <3>1 DEF RowsTyped
  <2>3. ColumnsWhole' /\ (Whole' <=> Whole)
    <3>1. Whole' <=> Whole
      BY <1>1, <1>6 DEF Whole
    <3>2. CASE Whole
      <4>1. ASSUME NEW c \in Columns
            PROVE  stores'[c].len = made.specs[c].stride * (n + 1)
        <5> DEFINE t == made.specs[c].stride
                   len == stores[c].len
        <5>1. t \in Nat /\ len = t * n /\ stores'[c].len = len + t
          BY <1>1, <1>6, <3>2, FieldShape DEF BucketsInv, ColumnsWhole
        <5> HIDE DEF t, len
        <5>2. t * (n + 1) = t * n + t
          BY <1>4, <5>1
        <5>3. QED
          BY <5>1, <5>2 DEF t
      <4>2. QED
        BY <1>1, <2>1, <3>1, <3>2, <4>1 DEF ColumnsWhole
    <3>3. CASE ~Whole
      <4>1. Breaks /\ sound.rows <= n /\ sound.buckets <= Len(ends) - 1
        BY <3>3 DEF BucketsInv, ColumnsWhole
      <4>2. Breaks'
        BY <1>1, <4>1 DEF Breaks
      <4>3. QED
        BY <1>1, <1>2, <1>4, <1>6, <2>1, <3>1, <3>3, <4>1, <4>2 DEF ColumnsWhole
    <3>4. QED
      BY <3>1, <3>2, <3>3
  <2>4. RowsHeld'
    <3>1. ASSUME NEW i \in 1 .. n + 1, i <= sound.rows
          PROVE  \A c \in Columns : \A s \in 1 .. made.specs[c].stride :
                     LET at == (i - 1) * made.specs[c].stride + s
                     IN  at \in 1 .. stores'[c].len /\ stores'[c].data[at] = rows'[i][c][s]
      <4>1. CASE i # n + 1
        <5>1. i \in 1 .. n /\ rows'[i] = rows[i]
          BY <1>4, <2>1, <4>1
        <5>2. QED
          BY <1>1, <3>1, <5>1, HeldStays
      <4>2. CASE i = n + 1
        <5>1. Whole
          BY <1>4, <3>1, <4>2 DEF BucketsInv, ColumnsWhole
        <5>2. SUFFICES ASSUME NEW c \in Columns, NEW s \in 1 .. made.specs[c].stride
              PROVE  LET at == (i - 1) * made.specs[c].stride + s
                     IN  at \in 1 .. stores'[c].len /\ stores'[c].data[at] = rows'[i][c][s]
          OBVIOUS
        <5> DEFINE t == made.specs[c].stride
                   len == stores[c].len
                   at == (i - 1) * t + s
        <5>3. /\ t \in Nat \ {0} /\ len = t * n /\ stores'[c].len = len + t
              /\ stores'[c].data[len + s] = new[c][s] /\ len \in Nat
          BY <1>1, <1>6, <5>1, FieldShape DEF BucketsInv, ColumnsWhole, Stores, IsStore
        <5> HIDE DEF len, t
        <5>4. (i - 1) * t = t * n /\ s \in 1 .. t
          BY <1>4, <4>2, <5>3 DEF t
        <5>5. at = len + s /\ at \in 1 .. stores'[c].len
          BY <5>3, <5>4
        <5>6. QED
          BY <2>1, <4>2, <5>3, <5>5 DEF t
      <4>3. QED
        BY <4>1, <4>2
    <3>2. /\ Len(rows') = n + 1 /\ sound' = sound /\ Columns' = Columns
          /\ made' = made
      BY <1>1, <1>6, <2>1
    <3>3. QED
      BY <3>1, <3>2 DEF RowsHeld
  <2>5. BucketsEnd'
    <3>1. made.kind # "numArray" => ends'[Len(ends')] * made'.specs[1].stride <= stores'[1].len
      BY <1>1, <1>2, LongerStill
    <3>2. QED
      BY <1>1, <1>2, <1>6, <3>1 DEF BucketsInv, BucketsEnd
  <2>6. Whole => Len(rows') <= MaxRows
    BY <1>2, <1>4, <2>1, Counted
  <2>7. QED
    BY <1>1, <1>2, <1>5, <1>6, <2>2, <2>3, <2>4, <2>5, <2>6 DEF BucketsInv
<1>7. CASE throws
  <2>1. rows' = rows /\ sound' = Broken
    BY <1>1, <1>7
  <2>2. RowsTyped'
    BY <1>1, <2>1 DEF BucketsInv, RowsTyped
  <2>3. Whole => n < MaxRows /\ sound.rows = MaxRows /\ sound.buckets = MaxRows
                 /\ Len(ends) <= MaxRows + 1
    BY <1>2, Counted DEF Whole, BucketsInv
  <2>4. CASE Breaks /\ sound.rows > n
    <3>1. sound' = [rows |-> n, buckets |-> Len(ends) - 1]
      BY <2>1, <2>4 DEF Broken
    <3>2. Whole
      BY <1>4, <2>4 DEF BucketsInv, ColumnsWhole
    <3>3. ~Whole'
      BY <1>4, <2>3, <3>1, <3>2 DEF Whole
    <3>4. ColumnsWhole'
      <4>1. Breaks'
        BY <1>1, <2>4 DEF Breaks
      <4>2. QED
        BY <1>2, <1>4, <2>1, <3>1, <3>3, <4>1 DEF ColumnsWhole
    <3>5. RowsHeld'
      <4>1. ASSUME NEW i \in 1 .. n
            PROVE  \A c \in Columns : \A s \in 1 .. made.specs[c].stride :
                       LET at == (i - 1) * made.specs[c].stride + s
                       IN  at \in 1 .. stores'[c].len /\ stores'[c].data[at] = rows'[i][c][s]
        <5>1. i <= sound.rows /\ rows'[i] = rows[i]
          BY <1>4, <2>1, <2>4
        <5>2. QED
          BY <1>1, <5>1, HeldStays
      <4>2. QED
        BY <1>1, <2>1, <3>1, <4>1 DEF RowsHeld
    <3>6. BucketsEnd'
      <4>1. made.kind # "numArray" => ends'[Len(ends')] * made'.specs[1].stride <= stores'[1].len
        BY <1>1, <1>2, LongerStill
      <4>2. \A b \in 1 .. Len(ends) : b <= sound.buckets + 1
        BY <1>4, <2>3, <3>2
      <4>3. \A b \in 1 .. Len(ends) : ends[b] = closed[b]
        BY <4>2 DEF BucketsInv, BucketsEnd
      <4>4. QED
        BY <1>1, <1>2, <4>1, <4>3 DEF BucketsInv, BucketsEnd
    <3>7. made.kind # "numArray"
      BY <2>4, FieldShape DEF BucketsInv
    <3>8. sound' \in [rows : Nat, buckets : Nat]
      BY <1>4, <3>1
    <3>9. QED
      BY <1>1, <1>2, <1>5, <2>2, <3>3, <3>4, <3>5, <3>6, <3>7, <3>8 DEF BucketsInv
  <2>5. CASE ~(Breaks /\ sound.rows > n)
    <3>1. sound' = sound
      BY <2>1, <2>5 DEF Broken
    <3>2. Whole' <=> Whole
      BY <3>1 DEF Whole
    <3>3. ColumnsWhole'
      <4>1. CASE Breaks
        <5>1. ~Whole
          BY <1>4, <2>3, <2>5, <4>1
        <5>2. Breaks' /\ sound.rows <= n /\ sound.buckets <= Len(ends) - 1
          BY <1>1, <4>1, <5>1 DEF Breaks, BucketsInv, ColumnsWhole
        <5>3. QED
          BY <1>2, <2>1, <3>1, <3>2, <5>1, <5>2 DEF ColumnsWhole
      <4>2. CASE ~Breaks
        <5>1. Whole /\ \A c \in Columns : stores'[c] = stores[c]
          BY <1>1, <1>7, <4>2 DEF BucketsInv, ColumnsWhole
        <5>2. QED
          BY <1>1, <2>1, <3>2, <5>1 DEF BucketsInv, ColumnsWhole
      <4>3. QED
        BY <4>1, <4>2
    <3>4. RowsHeld'
      <4>1. ASSUME NEW i \in 1 .. n, i <= sound.rows
            PROVE  \A c \in Columns : \A s \in 1 .. made.specs[c].stride :
                       LET at == (i - 1) * made.specs[c].stride + s
                       IN  at \in 1 .. stores'[c].len /\ stores'[c].data[at] = rows'[i][c][s]
        BY <1>1, <2>1, <4>1, HeldStays
      <4>2. QED
        BY <1>1, <2>1, <3>1, <4>1 DEF RowsHeld
    <3>5. BucketsEnd'
      <4>1. made.kind # "numArray" => ends'[Len(ends')] * made'.specs[1].stride <= stores'[1].len
        BY <1>1, <1>2, LongerStill
      <4>2. QED
        BY <1>1, <1>2, <3>1, <4>1 DEF BucketsInv, BucketsEnd
    <3>6. QED
      BY <1>1, <1>2, <1>5, <2>1, <2>2, <3>1, <3>2, <3>3, <3>4, <3>5 DEF BucketsInv
  <2>6. QED
    BY <2>4, <2>5
<1>8. QED
  BY <1>6, <1>7

(* What a run of single values adds to the rows.                           *)
LEMMA RunRows ==
  ASSUME Columns = {1}, NEW fitting \in Seq(Int)
  PROVE  LET new == [i \in DOMAIN fitting |-> <<<<fitting[i]>>>>]
         IN  /\ new \in Seq([Columns -> Seq(Int)]) /\ Len(new) = Len(fitting)
             /\ \A i \in 1 .. Len(fitting) :
                    DOMAIN new[i][1] = 1 .. 1 /\ new[i][1][1] = fitting[i]
<1> DEFINE new == [i \in DOMAIN fitting |-> <<<<fitting[i]>>>>]
           T == [Columns -> Seq(Int)]
           n == Len(fitting)
<1>1. n \in Nat /\ DOMAIN fitting = 1 .. n /\ \A i \in 1 .. n : fitting[i] \in Int
  OBVIOUS
<1>2. ASSUME NEW i \in 1 .. n
      PROVE  new[i] \in T /\ DOMAIN new[i][1] = 1 .. 1 /\ new[i][1][1] = fitting[i]
  <2>1. new[i] = <<<<fitting[i]>>>> /\ fitting[i] \in Int
    BY <1>1
  <2>2. <<fitting[i]>> \in Seq(Int) /\ <<<<fitting[i]>>>> \in Seq(Seq(Int))
        /\ Len(<<<<fitting[i]>>>>) = 1
    BY <2>1
  <2>3. DOMAIN <<<<fitting[i]>>>> = 1 .. 1 /\ <<<<fitting[i]>>>>[1] = <<fitting[i]>>
    OBVIOUS
  <2>4. 1 .. 1 = Columns
    OBVIOUS
  <2>5. <<<<fitting[i]>>>> \in [1 .. 1 -> Seq(Int)]
    <3> DEFINE row == <<<<fitting[i]>>>>
               S == Seq(Int)
    <3>1. row \in Seq(S) /\ Len(row) = 1
      BY <2>2
    <3> HIDE DEF row, S
    <3>2. row \in [1 .. Len(row) -> S]
      BY <3>1, LenProperties
    <3>3. QED
      BY <3>1, <3>2 DEF row, S
  <2>6. DOMAIN <<fitting[i]>> = 1 .. 1 /\ <<fitting[i]>>[1] = fitting[i]
    OBVIOUS
  <2>7. QED
    BY <2>1, <2>3, <2>4, <2>5, <2>6
<1> HIDE DEF T
<1>3. new = [i \in 1 .. n |-> <<<<fitting[i]>>>>]
  BY <1>1
<1> HIDE DEF new
<1>4. new \in Seq(T) /\ Len(new) = n
  BY <1>1, <1>2, <1>3
<1>5. QED
  BY <1>2, <1>4 DEF new, T

(* pushMany, on any store that holds the rows so far.                      *)
LEMMA RunKeeps ==
  ASSUME BucketsInv, made.kind = "numArray", made' = made,
         UNCHANGED <<ends, progress, closed, sound>>,
         NEW values \in Runs,
         NEW store, IsStore(store), store.len + Len(values) <= MaxValues,
         NEW old \in Seq([Columns -> Seq(Int)]), store.len = Len(old),
         Len(old) + Len(values) <= MaxRows,
         \A i \in 1 .. Len(old) : DOMAIN old[i][1] = 1 .. 1 /\ store.data[i] = old[i][1][1],
         NEW fitting, fitting = Fitting(made.specs[1], values),
         stores' = <<Filled(Reserved(store, Len(values)), fitting)>>,
         rows' = old \o [i \in DOMAIN fitting |-> <<<<fitting[i]>>>>]
  PROVE  BucketsInv'
<1> DEFINE new == [i \in DOMAIN fitting |-> <<<<fitting[i]>>>>]
           room == Reserved(store, Len(values))
           full == Filled(room, fitting)
           T == [Columns -> Seq(Int)]
<1>1. /\ Columns = {1} /\ made.specs[1].stride = 1 /\ ~Breaks /\ Columns' = Columns /\ Whole
  BY FieldShape DEF BucketsInv, Columns
<1>2. /\ fitting \in Seq(Int) /\ Len(fitting) \in Nat /\ Len(values) \in Nat
      /\ Len(fitting) <= Len(values)
  BY RowsAssumption, FittingIsPrefix
<1>3. /\ IsStore(room) /\ room.len = store.len /\ Extends(room, store)
      /\ Len(room.data) >= store.len + Len(values)
  BY <1>2, ReservedKeeps
<1>4. /\ new \in Seq(T) /\ Len(new) = Len(fitting)
      /\ \A i \in 1 .. Len(fitting) : DOMAIN new[i][1] = 1 .. 1 /\ new[i][1][1] = fitting[i]
  BY <1>1, <1>2, RunRows
<1> HIDE DEF new, room
<1>5. room.len + Len(fitting) <= Len(room.data) /\ store.len \in Nat
  BY <1>2, <1>3 DEF IsStore
<1>6. /\ IsStore(full) /\ full.len = store.len + Len(fitting) /\ Extends(full, room)
      /\ \A v \in 1 .. Len(fitting) : full.data[store.len + v] = fitting[v]
  <2>1. /\ IsStore(Filled(room, fitting))
        /\ Filled(room, fitting).len = room.len + Len(fitting)
        /\ Extends(Filled(room, fitting), room)
        /\ \A v \in 1 .. Len(fitting) :
               Filled(room, fitting).data[room.len + v] = fitting[v]
    BY <1>2, <1>3, <1>5, FilledAppends
  <2>2. QED
    BY <1>3, <2>1
<1>7. stores' = <<full>> /\ rows' = old \o new /\ old \in Seq(T)
  BY DEF new, room
<1> HIDE DEF full, T
<1>8. stores'[1] = full /\ DOMAIN stores' = Columns
  <2>1. DOMAIN <<full>> = 1 .. 1 /\ 1 .. 1 = {1}
    OBVIOUS
  <2>2. QED
    BY <1>1, <1>7, <2>1
<1>9. /\ rows' \in Seq(T) /\ Len(rows') = Len(old) + Len(fitting) /\ Len(old) \in Nat
      /\ \A i \in 1 .. Len(old) : rows'[i] = old[i]
      /\ \A v \in 1 .. Len(fitting) : rows'[Len(old) + v] = new[v]
  <2> DEFINE whole == old \o new
             m == Len(old)
             k == Len(fitting)
  <2>1. /\ whole \in Seq(T) /\ Len(whole) = m + k /\ m \in Nat /\ k \in Nat
        /\ \A i \in 1 .. m + k :
               whole[i] = IF i <= m THEN old[i] ELSE new[i - m]
    BY <1>4, <1>7, ConcatProperties, LenProperties
  <2> HIDE DEF whole, m, k
  <2>2. ASSUME NEW i \in 1 .. m PROVE whole[i] = old[i]
    <3>1. i \in 1 .. m + k /\ i <= m
      BY <2>1
    <3>2. QED
      BY <2>1, <3>1
  <2>3. ASSUME NEW v \in 1 .. k PROVE whole[m + v] = new[v]
    <3>1. m + v \in 1 .. m + k /\ ~(m + v <= m) /\ (m + v) - m = v
      BY <2>1
    <3>2. QED
      BY <2>1, <3>1
  <2>4. QED
    BY <1>7, <2>1, <2>2, <2>3 DEF whole, m, k
<1>10. ASSUME NEW i \in 1 .. Len(rows')
       PROVE  DOMAIN rows'[i][1] = 1 .. 1 /\ full.data[i] = rows'[i][1][1]
  <2>1. CASE i \in 1 .. Len(old)
    <3>1. full.data[i] = store.data[i]
      BY <1>3, <1>6, <2>1 DEF Extends
    <3>2. QED
      BY <1>9, <2>1, <3>1
  <2>2. CASE i \notin 1 .. Len(old)
    <3>1. PICK v \in 1 .. Len(fitting) : i = Len(old) + v
      <4>1. i - Len(old) \in 1 .. Len(fitting) /\ i = Len(old) + (i - Len(old))
        BY <1>2, <1>9, <2>2
      <4>2. QED
        BY <4>1
    <3>2. QED
      BY <1>4, <1>6, <1>9, <3>1
  <2>3. QED
    BY <2>1, <2>2
<1>11. Stores'
  BY <1>1, <1>6, <1>8 DEF Stores
<1>12. RowsTyped'
  <2>1. \A c \in Columns' : c = 1 /\ made'.specs[c].stride = 1
    BY <1>1
  <2>2. rows' \in Seq([Columns' -> Seq(Int)])
    BY <1>1, <1>9 DEF T
  <2>3. QED
    BY <1>10, <2>1, <2>2 DEF RowsTyped
<1>13. RowsHeld'
  <2>1. ASSUME NEW i \in 1 .. Len(rows'), NEW s \in 1 .. 1
        PROVE  LET at == (i - 1) * 1 + s
               IN  at \in 1 .. full.len /\ full.data[at] = rows'[i][1][s]
    <3>1. s = 1 /\ (i - 1) * 1 + s = i /\ i \in 1 .. full.len
      BY <1>6, <1>9
    <3>2. QED
      BY <1>10, <3>1
  <2>2. \A c \in Columns' : c = 1 /\ made'.specs[c].stride = 1 /\ stores'[c] = full
    BY <1>1, <1>8
  <2>3. ASSUME NEW i \in 1 .. Len(rows'), NEW c \in Columns',
               NEW s \in 1 .. made'.specs[c].stride
        PROVE  LET at == (i - 1) * made'.specs[c].stride + s
               IN  at \in 1 .. stores'[c].len /\ stores'[c].data[at] = rows'[i][c][s]
    <3>1. c = 1 /\ made'.specs[c].stride = 1 /\ stores'[c] = full
      BY <2>2
    <3>2. s \in 1 .. 1
      BY <3>1
    <3>3. QED
      BY <2>1, <3>1, <3>2
  <2>4. QED
    BY <2>3 DEF RowsHeld
<1>14. ColumnsWhole'
  <2>1. Whole'
    BY <1>1 DEF Whole
  <2>2. full.len = 1 * Len(rows')
    BY <1>2, <1>6, <1>9
  <2>3. QED
    BY <1>1, <1>8, <2>1, <2>2 DEF ColumnsWhole
<1>15. BucketsEnd'
  BY DEF BucketsInv, BucketsEnd
<1>16. Len(rows') <= MaxRows
  BY <1>2, <1>9, CapacityAssumption
<1>17. QED
  BY <1>16, <1>1, <1>11, <1>12, <1>13, <1>14, <1>15 DEF BucketsInv, Whole

LEMMA PushRunKeeps ==
  ASSUME BucketsInv, NEW values \in Runs, PushRun(values)
  PROVE  BucketsInv'
<1>1. /\ Columns = {1} /\ made.specs[1].stride = 1 /\ Whole /\ made.kind = "numArray"
  BY FieldShape DEF BucketsInv, PushRun
<1>2. IsStore(stores[1]) /\ stores[1].len + Len(values) <= MaxValues
  BY <1>1 DEF BucketsInv, Stores, PushRun
<1>3. rows \in Seq([Columns -> Seq(Int)]) /\ Len(rows) \in Nat /\ stores[1].len = Len(rows)
  <2>1. Len(rows) \in Nat /\ stores[1].len = 1 * Len(rows)
    BY <1>1, Counted DEF BucketsInv, ColumnsWhole
  <2>2. QED
    BY <2>1 DEF BucketsInv, RowsTyped
<1>4. ASSUME NEW i \in 1 .. Len(rows)
      PROVE  DOMAIN rows[i][1] = 1 .. 1 /\ stores[1].data[i] = rows[i][1][1]
  <2>1. DOMAIN rows[i][1] = 1 .. 1
    BY <1>1 DEF BucketsInv, RowsTyped
  <2>2. i <= sound.rows
    BY <1>1, <1>3, CapacityAssumption DEF BucketsInv, Whole
  <2>3. (i - 1) * 1 + 1 = i
    BY <1>3
  <2>4. stores[1].data[(i - 1) * 1 + 1] = rows[i][1][1]
    BY <1>1, <2>2 DEF BucketsInv, RowsHeld
  <2>5. QED
    BY <2>1, <2>3, <2>4
<1>5. QED
  BY <1>1, <1>2, <1>3, <1>4, RunKeeps DEF PushRun

LEMMA SetFromKeeps ==
  ASSUME BucketsInv, NEW values \in Runs, SetFrom(values)
  PROVE  BucketsInv'
<1> DEFINE store == [stores[1] EXCEPT !.len = 0]
           new == [i \in DOMAIN Fitting(made.specs[1], values) |->
                      <<<<Fitting(made.specs[1], values)[i]>>>>]
<1>1. Columns = {1} /\ made.specs[1].stride = 1 /\ made.kind = "numArray"
  BY FieldShape DEF BucketsInv, SetFrom
<1>2. store = [data |-> stores[1].data, len |-> 0]
  BY <1>1 DEF BucketsInv, Stores, IsStore
<1>3. IsStore(store) /\ store.len = 0
  BY <1>1, <1>2 DEF BucketsInv, Stores, IsStore
<1>4. Len(values) \in Nat /\ Len(values) <= MaxRows /\ Len(values) <= MaxValues
  BY RowsAssumption DEF SetFrom
<1>5. /\ UNCHANGED <<made, ends, progress, closed, sound>>
      /\ stores' = <<Filled(Reserved(store, Len(values)), Fitting(made.specs[1], values))>>
      /\ rows' = new
  BY DEF SetFrom
<1>6. new = <<>> \o new
  <2>1. Fitting(made.specs[1], values) \in Seq(Int)
    BY RowsAssumption, FittingIsPrefix
  <2>2. new \in Seq([Columns -> Seq(Int)])
    BY <1>1, <2>1, RunRows
  <2> HIDE DEF new
  <2>3. QED
    BY <2>2, ConcatEmptySeq
<1>7. <<>> \in Seq([Columns -> Seq(Int)]) /\ Len(<<>>) = 0
  OBVIOUS
<1>8. store.len + Len(values) <= MaxValues /\ Len(<<>>) + Len(values) <= MaxRows
  BY <1>3, <1>4
<1> HIDE DEF store
<1>9. rows' = <<>> \o [i \in DOMAIN Fitting(made.specs[1], values) |->
                      <<<<Fitting(made.specs[1], values)[i]>>>>]
  BY <1>5, <1>6
<1>10. store.len = Len(<<>>)
       /\ \A i \in 1 .. Len(<<>>) :
              DOMAIN (<<>>)[i][1] = 1 .. 1 /\ store.data[i] = (<<>>)[i][1][1]
  BY <1>3, <1>7
<1>11. QED
  BY <1>1, <1>3, <1>5, <1>7, <1>8, <1>9, <1>10, RunKeeps

LEMMA RowsUnmoved ==
  ASSUME BucketsInv, UNCHANGED <<made, stores, rows, sound>>
  PROVE  Stores' /\ RowsTyped' /\ RowsHeld'
<1>1. made' = made /\ stores' = stores /\ rows' = rows /\ sound' = sound /\ Columns' = Columns
  BY DEF Columns
<1>2. Stores'
  BY <1>1 DEF BucketsInv, Stores
<1>3. RowsTyped'
  BY <1>1 DEF BucketsInv, RowsTyped
<1>4. RowsHeld'
  <2>1. RowsHeld
    BY DEF BucketsInv
  <2>2. QED
    BY <1>1, <2>1 DEF RowsHeld
<1>5. QED
  BY <1>2, <1>3, <1>4

LEMMA EndBucketKeeps ==
  ASSUME BucketsInv, EndBucket
  PROVE  BucketsInv'
<1> DEFINE n == Len(ends)
           stride == made.specs[1].stride
<1>1. /\ UNCHANGED <<made, stores, progress, rows, sound>> /\ Columns' = Columns
      /\ ends' = Append(ends, ItemCount) /\ closed' = Append(closed, Len(rows))
      /\ made.kind # "numArray" /\ n <= MaxRows
  BY DEF EndBucket, Columns
<1>2. /\ ItemCount \in Nat /\ Len(rows) \in Nat /\ n \in Nat \ {0}
      /\ ItemCount * stride <= stores[1].len
      /\ ends[n] <= ItemCount /\ (Whole => ItemCount = Len(rows))
  BY <1>1, Counted
<1>3. /\ ends \in Seq(Nat) /\ closed \in Seq(Nat) /\ Len(closed) = n
      /\ sound.buckets \in Nat /\ sound.rows \in Nat /\ MaxRows \in Nat
      /\ Whole => n <= MaxRows + 1
  BY CapacityAssumption DEF BucketsInv, BucketsEnd
<1>4. /\ ends' \in Seq(Nat) /\ Len(ends') = n + 1 /\ ends'[n + 1] = ItemCount
      /\ \A b \in 1 .. n : ends'[b] = ends[b]
      /\ closed' \in Seq(Nat) /\ Len(closed') = n + 1 /\ closed'[n + 1] = Len(rows)
      /\ \A b \in 1 .. n : closed'[b] = closed[b]
  BY <1>1, <1>2, <1>3
<1>5. ~Whole => Breaks /\ sound.rows <= Len(rows) /\ sound.buckets <= n - 1
  BY DEF BucketsInv, ColumnsWhole
<1>6. ASSUME NEW b \in 1 .. n + 1, b <= sound.buckets + 1
      PROVE  ends'[b] = closed'[b]
  <2>1. CASE b = n + 1
    BY <1>2, <1>3, <1>4, <1>5, <1>6, <2>1
  <2>2. CASE b # n + 1
    <3>1. b \in 1 .. n
      BY <1>2, <2>2
    <3>2. QED
      BY <1>4, <1>6, <3>1 DEF BucketsInv, BucketsEnd
  <2>3. QED
    BY <2>1, <2>2
<1>7. ASSUME NEW b \in 1 .. n PROVE ends'[b] <= ends'[b + 1]
  <2>1. CASE b = n
    BY <1>2, <1>4, <2>1
  <2>2. CASE b # n
    <3>1. b \in 1 .. n - 1 /\ b \in 1 .. n /\ b + 1 \in 1 .. n
      BY <1>2, <2>2
    <3>2. QED
      BY <1>4, <3>1 DEF BucketsInv, BucketsEnd
  <2>3. QED
    BY <2>1, <2>2
<1>8. BucketsEnd'
  <2>1. ends' # <<>>
    BY <1>2, <1>4
  <2>2. ends'[Len(ends')] * made'.specs[1].stride <= stores'[1].len
    BY <1>1, <1>2, <1>4
  <2>3. \A b \in 1 .. Len(ends') - 1 : ends'[b] <= ends'[b + 1]
    <3>1. 1 .. Len(ends') - 1 = 1 .. n
      BY <1>2, <1>4
    <3>2. QED
      BY <1>7, <3>1
  <2>4. QED
    BY <1>1, <1>4, <1>6, <2>1, <2>2, <2>3 DEF BucketsEnd
<1>9. Whole' <=> Whole
  BY <1>1 DEF Whole
<1>10. ColumnsWhole'
  <2>1. Breaks' <=> Breaks
    BY <1>1 DEF Breaks
  <2>2. CASE Whole
    BY <1>1, <1>9, <2>2 DEF BucketsInv, ColumnsWhole
  <2>3. CASE ~Whole
    BY <1>1, <1>2, <1>3, <1>4, <1>5, <1>9, <2>1, <2>3 DEF ColumnsWhole
  <2>4. QED
    BY <2>2, <2>3
<1>11. Stores' /\ RowsTyped' /\ RowsHeld'
  BY <1>1, RowsUnmoved
<1>12. Whole' => Len(ends') <= MaxRows + 1 /\ Len(rows') <= MaxRows
  BY <1>1, <1>2, <1>3, <1>4, <1>9 DEF BucketsInv
<1>13. QED
  BY <1>1, <1>8, <1>9, <1>10, <1>11, <1>12 DEF BucketsInv

LEMMA BucketsUnmoved ==
  ASSUME BucketsInv, UNCHANGED <<made, stores, ends, rows, closed, sound>>,
         progress' \in {"writing", "finalized"}
  PROVE  BucketsInv'
<1>1. Columns' = Columns /\ (Whole' <=> Whole) /\ (Breaks' <=> Breaks)
  BY DEF Columns, Whole, Breaks
<1>2. Stores' /\ RowsTyped' /\ RowsHeld'
  BY RowsUnmoved
<1>3. ColumnsWhole' /\ BucketsEnd'
  BY <1>1 DEF BucketsInv, ColumnsWhole, BucketsEnd
<1>4. QED
  BY <1>1, <1>2, <1>3 DEF BucketsInv

(* Columns hold the rows in full up to the first that was broken off, and  *)
(* buckets end where they were ended, whatever is pushed                   *)
(* (growable.ts:72-140, columns.ts:109-133, bucketArray.ts:42-59).         *)
THEOREM ColumnsHoldRows == BucketsSpec => []BucketsInv
<1>1. BucketsInit => BucketsInv
  <2> SUFFICES ASSUME BucketsInit PROVE BucketsInv
    OBVIOUS
  <2>1. /\ made \in Fields /\ stores = [c \in Columns |-> NoStore] /\ ends = <<0>>
        /\ progress = "writing" /\ rows = <<>> /\ closed = <<0>>
        /\ sound = [rows |-> MaxRows, buckets |-> MaxRows] /\ MaxRows \in Nat
    BY CapacityAssumption DEF BucketsInit
  <2>2. Stores
    <3>1. IsStore(NoStore)
      BY DEF IsStore, NoStore
    <3>2. QED
      BY <2>1, <3>1 DEF Stores
  <2>3. rows \in Seq([Columns -> Seq(Int)]) /\ Len(rows) = 0
    BY <2>1
  <2>4. RowsTyped /\ RowsHeld
    BY <2>3 DEF RowsTyped, RowsHeld
  <2>5. Whole
    BY <2>1 DEF Whole
  <2>6. \A c \in Columns : stores[c].len = 0 /\ made.specs[c].stride * 0 = 0
    BY <2>1, FieldShape DEF NoStore
  <2>7. ColumnsWhole
    BY <2>3, <2>5, <2>6 DEF ColumnsWhole
  <2>8. BucketsEnd
    <3>1. /\ ends \in Seq(Nat) /\ Len(ends) = 1 /\ ends[1] = 0 /\ ends # <<>>
          /\ closed \in Seq(Nat) /\ Len(closed) = 1 /\ closed[1] = 0
      BY <2>1
    <3>2. ends[Len(ends)] * made.specs[1].stride <= stores[1].len
      BY <2>1, <2>6, <3>1, FieldShape
    <3>3. QED
      BY <3>1, <3>2 DEF BucketsEnd
  <2>9. Len(ends) <= MaxRows + 1 /\ Len(rows) <= MaxRows
    BY <2>1, <2>3
  <2>10. QED
    BY <2>1, <2>2, <2>4, <2>5, <2>7, <2>8, <2>9 DEF BucketsInv
<1>2. BucketsInv /\ [BucketsNext]_bucketsVars => BucketsInv'
  <2> SUFFICES ASSUME BucketsInv, [BucketsNext]_bucketsVars PROVE BucketsInv'
    OBVIOUS
  <2>1. CASE \E row \in RowsOf(made) : PushRow(row)
    BY <2>1, PushRowKeeps
  <2>2. CASE \E values \in Runs : PushRun(values) \/ SetFrom(values)
    BY <2>2, PushRunKeeps, SetFromKeeps
  <2>3. CASE EndBucket
    BY <2>3, EndBucketKeeps
  <2>4. CASE FinalizeColumns
    BY <2>4, BucketsUnmoved DEF FinalizeColumns, bucketsHistory
  <2>5. CASE ReadColumns \/ UNCHANGED bucketsVars
    BY <2>5, BucketsUnmoved DEF ReadColumns, bucketsVars, bucketsHistory, BucketsInv
  <2>6. QED
    BY <2>1, <2>2, <2>3, <2>4, <2>5 DEF BucketsNext
<1>3. QED
  BY <1>1, <1>2, PTL DEF BucketsSpec

----------------------------------------------------------------------------
(* Reading back.                                                           *)

LEMMA ViewHolds ==
  ASSUME NEW store, IsStore(store)
  PROVE  /\ View(store) \in Seq(Int) /\ Len(View(store)) = store.len
         /\ \A p \in 1 .. store.len : View(store)[p] = store.data[p]
<1> DEFINE data == store.data
           n == store.len
<1>1. data \in Seq(Int) /\ n \in Nat /\ n <= Len(data) /\ Len(data) \in Nat
  BY DEF IsStore
<1>2. View(store) = SubSeq(data, 1, n)
  BY DEF View
<1> HIDE DEF data, n
<1>3. /\ SubSeq(data, 1, n) \in Seq(Int) /\ Len(SubSeq(data, 1, n)) = n
      /\ \A p \in 1 .. n : SubSeq(data, 1, n)[p] = data[p]
  BY <1>1
<1>4. QED
  BY <1>2, <1>3 DEF data, n

LEMMA CutHolds ==
  ASSUME NEW v \in Seq(Int), NEW low \in Nat, NEW high \in Nat,
         low <= high, high <= Len(v)
  PROVE  /\ SubSeq(v, low + 1, high) \in Seq(Int)
         /\ Len(SubSeq(v, low + 1, high)) = high - low
         /\ \A p \in 1 .. high - low : SubSeq(v, low + 1, high)[p] = v[low + p]
<1> DEFINE first == low + 1
           n == Len(v)
           length == high - low
<1>1. /\ first \in Nat \ {0} /\ n \in Nat /\ length \in Nat /\ high <= n
      /\ first - 1 = low /\ high - first + 1 = length
  OBVIOUS
<1>2. \A i \in first .. high : i \in 1 .. n
  BY <1>1
<1>3. DOMAIN v = 1 .. n /\ \A i \in 1 .. n : v[i] \in Int
  OBVIOUS
<1>4. SubSeq(v, first, high) \in Seq(Int)
  BY <1>2, <1>3, SubSeqProperties
<1>5. Len(SubSeq(v, first, high)) = length
  BY <1>1, <1>2, <1>3, SubSeqProperties
<1>6. \A p \in 1 .. length : SubSeq(v, first, high)[p] = v[low + p]
  BY <1>1, <1>2, <1>3, <1>5, SubSeqProperties
<1>7. QED
  BY <1>4, <1>5, <1>6 DEF first, length

StrideAt(v, t, i) == [s \in 1 .. t |-> v[i * t + s]]

(* A sequence cut into strides: what a slice of strides has.               *)
LEMMA StridesOfSlice ==
  ASSUME NEW v \in Seq(Int), NEW t \in Nat \ {0}, NEW a \in Nat, NEW e \in Nat,
         a <= e, e * t <= Len(v)
  PROVE  /\ Len(SubSeq(v, a * t + 1, e * t)) = t * (e - a)
         /\ \A i \in a .. e - 1 :
                SubSeq(SubSeq(v, a * t + 1, e * t), (i - a) * t + 1, (i - a + 1) * t)
                    = StrideAt(v, t, i)
<1> DEFINE low == a * t
           high == e * t
           slice == SubSeq(v, low + 1, high)
           n == Len(v)
<1>1. low \in Nat /\ high \in Nat /\ n \in Nat /\ high <= n
  BY Product
<1>2. PICK c \in Nat : e = a + c
  <2>1. e - a \in Nat /\ e = a + (e - a)
    OBVIOUS
  <2>2. QED
    BY <2>1
<1>3. high = low + c * t /\ c * t \in Nat /\ t * (e - a) = c * t
  <2>1. (a + c) * t = a * t + c * t
    BY <1>2
  <2>2. e - a = c
    BY <1>2
  <2>3. QED
    BY <1>2, <2>1, <2>2, Product
<1> HIDE DEF low, high, n
<1>4. /\ Len(slice) = high - low /\ slice \in Seq(Int)
      /\ \A p \in 1 .. high - low : slice[p] = v[low + p]
  BY <1>1, <1>3, CutHolds DEF n
<1>5. Len(slice) = t * (e - a)
  BY <1>1, <1>3, <1>4
<1>6. ASSUME NEW i \in a .. e - 1
      PROVE  SubSeq(slice, (i - a) * t + 1, (i - a + 1) * t) = StrideAt(v, t, i)
  <2>1. PICK j \in Nat : i = a + j /\ j < c
    <3>1. i - a \in Nat /\ i = a + (i - a) /\ i - a < c
      BY <1>2
    <3>2. QED
      BY <3>1
  <2> DEFINE from == j * t
  <2>2. from \in Nat /\ from + t <= c * t /\ (i - a) * t = from /\ (i - a + 1) * t = from + t
    <3>1. from = t * j /\ c * t = t * c /\ t * j + t <= t * c
      BY <2>1, ProductRises
    <3>2. i - a = j /\ i - a + 1 = j + 1
      BY <2>1
    <3>3. (j + 1) * t = j * t + t
      BY <2>1
    <3>4. QED
      BY <2>1, <3>1, <3>2, <3>3, Product
  <2>3. i * t = low + from
    BY <2>1 DEF low
  <2> HIDE DEF from, slice
  <2> DEFINE part == SubSeq(slice, from + 1, from + t)
  <2>4. /\ part \in Seq(Int) /\ Len(part) = t
        /\ \A s \in 1 .. t : part[s] = slice[from + s]
    <3>1. from + t <= Len(slice) /\ Len(slice) \in Nat
      BY <1>1, <1>3, <1>4, <2>2
    <3> DEFINE to == from + t
    <3>2. to \in Nat /\ from \in Nat /\ from <= to /\ to - from = t /\ to <= Len(slice)
      BY <2>2, <3>1
    <3> HIDE DEF to
    <3>3. /\ SubSeq(slice, from + 1, to) \in Seq(Int)
          /\ Len(SubSeq(slice, from + 1, to)) = to - from
          /\ \A s \in 1 .. to - from : SubSeq(slice, from + 1, to)[s] = slice[from + s]
      BY <1>4, <3>2, CutHolds
    <3>4. QED
      BY <3>2, <3>3 DEF to
  <2>5. ASSUME NEW s \in 1 .. t PROVE slice[from + s] = v[i * t + s]
    <3>1. from + s \in 1 .. high - low
      BY <1>1, <1>3, <2>2
    <3>2. low + (from + s) = i * t + s
      BY <1>1, <2>2, <2>3
    <3>3. QED
      BY <1>4, <3>1, <3>2
  <2> HIDE DEF part
  <2>6. part = [s \in 1 .. t |-> part[s]]
    BY <2>4
  <2>7. part = [s \in 1 .. t |-> v[i * t + s]]
    BY <2>4, <2>5, <2>6
  <2>8. QED
    BY <2>2, <2>7 DEF part, StrideAt
<1>7. QED
  BY <1>5, <1>6 DEF slice, low, high

LEMMA EndsTyped ==
  ASSUME BucketsInv
  PROVE  /\ Len(ends) \in Nat \ {0}
         /\ \A b \in 1 .. Len(ends) : ends[b] \in Nat
         /\ \A b \in 1 .. Len(ends) - 1 : b + 1 \in 1 .. Len(ends) /\ b \in 1 .. Len(ends)
BY DEF BucketsInv, BucketsEnd

\* Buckets end no later than the last.
LEMMA EndsRise ==
  ASSUME BucketsInv, NEW b \in 1 .. Len(ends)
  PROVE  ends[b] <= ends[Len(ends)]
<1> DEFINE n == Len(ends)
           short == {d \in Nat : d < n /\ ends[n - d] > ends[n]}
<1>1. n \in Nat \ {0} /\ \A i \in 1 .. n : ends[i] \in Nat
  BY EndsTyped
<1>2. \A i \in 1 .. n - 1 : ends[i] <= ends[i + 1]
  BY DEF BucketsInv, BucketsEnd
<1> HIDE DEF n
<1>3. short = {}
  <2>1. SUFFICES ASSUME short # {} PROVE FALSE
    OBVIOUS
  <2>2. short \subseteq Nat
    OBVIOUS
  <2>3. PICK d \in short : \A c \in short : d <= c
    <3> HIDE DEF short
    <3>1. QED
      BY <2>1, <2>2, LeastNumber
  <2>4. d \in Nat /\ d < n /\ ends[n - d] > ends[n]
    OBVIOUS
  <2>5. d # 0
    <3>1. n - 0 = n /\ ends[n] \in Nat
      BY <1>1
    <3>2. QED
      BY <2>4, <3>1
  <2>6. d - 1 \in Nat /\ d - 1 < n /\ n - d \in 1 .. n - 1 /\ (n - d) + 1 = n - (d - 1)
        /\ n - (d - 1) \in 1 .. n
    BY <1>1, <2>4, <2>5
  <2>7. ends[n - d] <= ends[n - (d - 1)]
    BY <1>2, <2>6
  <2>8. ends[n - (d - 1)] > ends[n]
    BY <1>1, <2>4, <2>6, <2>7
  <2>9. d - 1 \in short
    BY <2>6, <2>8
  <2>10. d <= d - 1
    BY <2>3, <2>9
  <2>11. QED
    BY <2>4, <2>10
<1>4. n - b \in Nat /\ n - b < n /\ n - (n - b) = b
  BY <1>1 DEF n
<1>5. ~(ends[b] > ends[n])
  BY <1>3, <1>4
<1>6. QED
  BY <1>1, <1>5 DEF n

LEMMA SlicesAreCovered ==
  ASSUME BucketsInv, made.kind = "bucketArray"
  PROVE  LET stride == made.specs[1].stride
         IN  \A b \in 1 .. Len(ends) - 1 :
                /\ Len(Slice(b)) = stride * (ends[b + 1] - ends[b])
                /\ \A i \in Items(b) :
                       SubSeq(Slice(b), (i - ends[b]) * stride + 1, (i - ends[b] + 1) * stride)
                           = ReadColumn(1, i)
<1> DEFINE t == made.specs[1].stride
           v == View(stores[1])
<1> SUFFICES ASSUME NEW b \in 1 .. Len(ends) - 1
             PROVE  /\ Len(Slice(b)) = t * (ends[b + 1] - ends[b])
                    /\ \A i \in Items(b) :
                         SubSeq(Slice(b), (i - ends[b]) * t + 1, (i - ends[b] + 1) * t)
                             = ReadColumn(1, i)
  OBVIOUS
<1>1. t \in Nat \ {0} /\ IsStore(stores[1])
  BY FieldShape DEF BucketsInv, Stores
<1>2. v \in Seq(Int) /\ Len(v) = stores[1].len
  BY <1>1, ViewHolds
<1> DEFINE a == ends[b]
           e == ends[b + 1]
           z == ends[Len(ends)]
<1>3. a \in Nat /\ e \in Nat /\ z \in Nat /\ a <= e /\ e <= z
  <2>1. /\ b \in 1 .. Len(ends) /\ b + 1 \in 1 .. Len(ends) /\ Len(ends) \in 1 .. Len(ends)
    BY EndsTyped
  <2>2. a \in Nat /\ e \in Nat /\ z \in Nat
    BY <2>1, EndsTyped
  <2>3. a <= e
    BY DEF BucketsInv, BucketsEnd
  <2>4. e <= z
    BY <2>1, EndsRise
  <2>5. QED
    BY <2>2, <2>3, <2>4
<1>4. z * t <= Len(v)
  BY <1>2 DEF BucketsInv, BucketsEnd
<1> DEFINE len == Len(v)
<1>5. len \in Nat
  BY <1>2
<1>6. Slice(b) = SubSeq(v, a * t + 1, e * t)
  BY DEF Slice
<1>7. \A i \in Items(b) : ReadColumn(1, i) = StrideAt(v, t, i)
  BY DEF ReadColumn, StrideAt
<1>8. Items(b) = a .. e - 1
  BY DEF Items
<1> HIDE DEF t, v, a, e, z
<1>9. e * t <= len
  <2>1. PICK c \in Nat : z = e + c
    <3>1. z - e \in Nat /\ z = e + (z - e)
      BY <1>3
    <3>2. QED
      BY <3>1
  <2>2. z * t = e * t + c * t /\ e * t \in Nat /\ c * t \in Nat
    BY <1>1, <1>3, <2>1, Product
  <2> DEFINE x == z * t
             y == e * t
             w == c * t
  <2>3. x = y + w /\ y \in Nat /\ w \in Nat /\ x <= len /\ len \in Nat
    BY <1>4, <1>5, <2>2
  <2> HIDE DEF x, y, w, len
  <2>4. y <= len
    BY <2>3
  <2>5. QED
    BY <2>4 DEF y
<1> DEFINE slice == SubSeq(v, a * t + 1, e * t)
<1>10. /\ Len(slice) = t * (e - a)
       /\ \A i \in a .. e - 1 :
              SubSeq(slice, (i - a) * t + 1, (i - a + 1) * t) = StrideAt(v, t, i)
  <2>1. e * t <= Len(v)
    BY <1>9
  <2>2. v \in Seq(Int) /\ t \in Nat \ {0} /\ a \in Nat /\ e \in Nat /\ a <= e
    BY <1>1, <1>2, <1>3
  <2>3. Len(SubSeq(v, a * t + 1, e * t)) = t * (e - a)
    BY <2>1, <2>2, StridesOfSlice
  <2>4. ASSUME NEW i \in a .. e - 1
        PROVE  SubSeq(SubSeq(v, a * t + 1, e * t), (i - a) * t + 1, (i - a + 1) * t)
                   = StrideAt(v, t, i)
    <3> DEFINE P(x) == SubSeq(SubSeq(v, a * t + 1, e * t), (x - a) * t + 1, (x - a + 1) * t)
                           = StrideAt(v, t, x)
    <3>1. \A x \in a .. e - 1 : P(x)
      BY <2>1, <2>2, StridesOfSlice, Zenon
    <3> HIDE DEF P
    <3>2. P(i)
      BY <3>1
    <3>3. QED
      BY <3>2 DEF P
  <2>5. QED
    BY <2>3, <2>4
<1> HIDE DEF slice
<1>11. QED
  BY <1>6, <1>7, <1>8, <1>10 DEF slice, t, a, e

(* A row that was pushed before any other threw is read back, in full and  *)
(* in its bucket, for columns of any number and stride and however they    *)
(* grew; a slice holds what its items do (growable.ts:72-140,              *)
(* columns.ts:109-133, 159-176, bucketArray.ts:42-59, 87-110).             *)
THEOREM RowsAlwaysReadBack == BucketsSpec => []RowsReadBack
<1>1. BucketsInv => RowsReadBack
  <2> SUFFICES ASSUME BucketsInv PROVE RowsReadBack
    OBVIOUS
  <2>1. SlicesCover
    BY SlicesAreCovered DEF SlicesCover
  <2>2. ASSUME NEW i \in DOMAIN rows, i <= sound.rows, NEW c \in Columns
        PROVE  ReadColumn(c, i - 1) = rows[i][c]
    <3> DEFINE t == made.specs[c].stride
    <3>1. i \in 1 .. Len(rows)
      BY DEF BucketsInv, RowsTyped
    <3>2. ASSUME NEW s \in 1 .. t
          PROVE  View(stores[c])[(i - 1) * t + s] = rows[i][c][s]
      <4>1. /\ (i - 1) * t + s \in 1 .. stores[c].len
            /\ stores[c].data[(i - 1) * t + s] = rows[i][c][s]
        BY <2>2, <3>1 DEF BucketsInv, RowsHeld
      <4>2. IsStore(stores[c])
        BY DEF BucketsInv, Stores
      <4>3. QED
        BY <4>1, <4>2, ViewHolds
    <3>3. ReadColumn(c, i - 1) = [s \in 1 .. t |-> View(stores[c])[(i - 1) * t + s]]
      BY DEF ReadColumn
    <3>4. rows[i][c] = [s \in 1 .. t |-> rows[i][c][s]]
      <4>1. DOMAIN rows[i][c] = 1 .. t /\ rows[i] \in [Columns -> Seq(Int)]
        BY <3>1 DEF BucketsInv, RowsTyped
      <4>2. rows[i][c] \in Seq(Int)
        BY <4>1
      <4>3. rows[i][c] = [s \in DOMAIN rows[i][c] |-> rows[i][c][s]]
        <5> DEFINE row == rows[i][c]
        <5>1. row \in [1 .. Len(row) -> Int]
          BY <4>2, LenProperties
        <5> HIDE DEF row
        <5>2. row = [s \in DOMAIN row |-> row[s]]
          BY <5>1
        <5>3. QED
          BY <5>2 DEF row
      <4>4. QED
        BY <4>1, <4>3
    <3> HIDE DEF t
    <3>5. QED
      BY <3>2, <3>3, <3>4
  <2>3. ASSUME NEW b \in 1 .. Len(ends) - 1, b <= sound.buckets
        PROVE  Items(b) = closed[b] .. closed[b + 1] - 1
    <3>1. /\ b \in 1 .. Len(ends) /\ b + 1 \in 1 .. Len(ends) /\ sound.buckets \in Nat
          /\ b <= sound.buckets + 1 /\ b + 1 <= sound.buckets + 1
      BY <2>3, EndsTyped DEF BucketsInv
    <3>2. ends[b] = closed[b] /\ ends[b + 1] = closed[b + 1]
      BY <3>1 DEF BucketsInv, BucketsEnd
    <3>3. QED
      BY <3>2 DEF Items
  <2>4. QED
    BY <2>1, <2>2, <2>3 DEF RowsReadBack
<1>2. QED
  BY <1>1, ColumnsHoldRows, PTL

(* No store is longer than its array, and buckets end one after the other. *)
THEOREM BucketsTypesHold == BucketsSpec => []BucketsTypeOK
<1>1. BucketsInv => BucketsTypeOK
  BY DEF BucketsInv, BucketsTypeOK, Stores, IsStore, BucketsEnd
<1>2. QED
  BY <1>1, ColumnsHoldRows, PTL

----------------------------------------------------------------------------
(* The string table.                                                       *)

USE EmptyAssumption, NormalAssumption, ByteHashAssumption, MemoizeAssumption,
    MaxSizeAssumption

----------------------------------------------------------------------------
(* Probing.                                                                *)

(* Every slot is some turn of a probe.                                     *)
LEMMA TurnsReach ==
  ASSUME NEW n \in Nat \ {0}, NEW home \in 0 .. n - 1, NEW slot \in 0 .. n - 1
  PROVE  \E d \in 0 .. n - 1 : (home + d) % n = slot
<1>1. CASE home <= slot
  <2>1. slot - home \in 0 .. n - 1 /\ home + (slot - home) = slot
    BY <1>1
  <2>2. slot % n = slot
    OBVIOUS
  <2>3. QED
    BY <2>1, <2>2
<1>2. CASE slot < home
  <2>1. slot + n - home \in 0 .. n - 1 /\ home + (slot + n - home) = slot + n
    BY <1>2
  <2>2. (slot + n) % n = slot
    OBVIOUS
  <2>3. QED
    BY <2>1, <2>2
<1>3. QED
  BY <1>1, <1>2

(* A probe that has a slot to stop at stops at one, and passed none.       *)
LEMMA ProbeStops ==
  ASSUME NEW n \in Nat \ {0}, NEW home \in 0 .. n - 1,
         NEW stops, stops \cap (0 .. n - 1) # {}
  PROVE  /\ FirstStop(home, n, stops) \in stops \cap (0 .. n - 1)
         /\ \E d \in 0 .. n - 1 :
                /\ FirstStop(home, n, stops) = (home + d) % n
                /\ \A c \in 0 .. d - 1 : (home + c) % n \notin stops
<1> DEFINE Turn(d) == (home + d) % n
           turns == {d \in 0 .. n - 1 : Turn(d) \in stops}
           Last(d) == Turn(d) \in stops /\ \A c \in 0 .. d - 1 : Turn(c) \notin stops
<1>1. PICK slot \in 0 .. n - 1 : slot \in stops
  OBVIOUS
<1>2. PICK t \in 0 .. n - 1 : Turn(t) = slot
  BY <1>1, TurnsReach
<1>3. PICK d \in turns : \A c \in turns : d <= c
  <2>1. t \in turns
    BY <1>1, <1>2
  <2>2. turns \subseteq Nat
    OBVIOUS
  <2> HIDE DEF turns
  <2>3. QED
    BY <2>1, <2>2, LeastNumber
<1>4. \A c \in 0 .. d - 1 : c \in 0 .. n - 1 /\ ~(d <= c)
  BY <1>3
<1>5. Last(d)
  BY <1>3, <1>4
<1>6. PICK e \in 0 .. n - 1 : e = (CHOOSE x \in 0 .. n - 1 : Last(x)) /\ Last(e)
  BY <1>3, <1>5
<1>7. FirstStop(home, n, stops) = Turn(e)
  BY <1>6 DEF FirstStop
<1>8. Turn(e) \in 0 .. n - 1
  OBVIOUS
<1>9. QED
  BY <1>6, <1>7, <1>8

(* The index is longer than the base table.                                *)
LEMMA CapacityFits ==
  ASSUME NEW n \in 1 .. MaxSize
  PROVE  Capacity(n) \in Nat /\ Capacity(n) > n
<1>l. MaxSlots \in Nat
  BY SMT DEF MaxSlots
<1>1. n \in Nat /\ 1 <= n /\ 2 * n <= MaxSlots
  BY <1>l
<1>2. \E c \in Capacities : c >= 2 * n /\ (c = 8 \/ c < 4 * n)
  BY <1>1, SMTT(60) DEF Capacities, MaxSlots
<1>3. Capacity(n) \in Capacities /\ Capacity(n) >= 2 * n
  BY <1>2 DEF Capacity
<1>4. Capacity(n) \in Nat
  BY <1>3, SMT DEF Capacities
<1>5. QED
  BY <1>1, <1>3, <1>4

----------------------------------------------------------------------------
(* The inductive invariant.                                                *)

\* The ids from 1 on that are in the index.
Placed == IF indexing = 0 THEN BaseCount ELSE indexing

Home(id) == ByteHash[base[id + 1]] % Slots

SlotsOfIndex == DOMAIN index = 0 .. Slots - 1 /\ Slots \in Nat /\ Slots > BaseCount

\* A slot holds an id that was placed, and no other slot holds it.
EntriesPlaced ==
    \A slot \in DOMAIN index : index[slot] # 0 =>
        /\ index[slot] \in 2 .. Placed
        /\ \A other \in DOMAIN index : index[other] = index[slot] => other = slot

\* A probe for the string of an id comes to the id before a free slot.
NoGapBefore ==
    \A id \in 1 .. Placed - 1 : \E d \in 0 .. Slots - 1 :
        /\ index[(Home(id) + d) % Slots] = id + 1
        /\ \A c \in 0 .. d - 1 : index[(Home(id) + c) % Slots] # 0

Indexed == index # <<>> => base # <<>> /\ SlotsOfIndex /\ EntriesPlaced /\ NoGapBefore

\* own knows the id of what it has, and has all that is in the list.
OwnIsRight ==
    /\ \A s \in DOMAIN own : own[s] \in 1 .. Size - 1 /\ Resolve(own[s]) = s
    /\ \A i \in DOMAIN list : base # <<>> \/ i > 1 =>
           list[i] \in DOMAIN own /\ own[list[i]] = BaseCount + i - 1

CacheIsRight == \A id \in DOMAIN cache : cache[id] = base[id + 1]

GotIsRight == got # NotRead => got.id \in 0 .. Size - 1 /\ got.string = Resolve(got.id)

KeptAreInBase == base # <<>> => \A r \in kept : r.id < BaseCount

\* No plain string has two ids.
NoTwins ==
    \A i, j \in 0 .. Size - 1 : Resolve(i) = Resolve(j) /\ Plain(Resolve(i)) => i = j

StringsInv ==
    /\ StringsTypeOK
    /\ Size <= MaxSize
    /\ indexing # 0 => adding # Empty
    /\ adding # Empty => adding \notin DOMAIN own
    /\ Indexed
    /\ OwnIsRight
    /\ CacheIsRight
    /\ GotIsRight
    /\ KeptAreInBase
    /\ NoTwins
    /\ IdsStay

----------------------------------------------------------------------------
(* Facts about one state.                                                  *)

LEMMA Sizes ==
  ASSUME StringsTypeOK
  PROVE  /\ BaseCount \in Nat /\ Len(list) \in Nat /\ Size \in Nat /\ Size >= 1
         /\ Size = BaseCount + Len(list)
         /\ base = <<>> => BaseCount = 0
         /\ base # <<>> => BaseCount > 1
BY DEF StringsTypeOK, BaseCount, Size

LEMMA ResolveTyped ==
  ASSUME StringsTypeOK
  PROVE  /\ Resolve(0) = Empty
         /\ \A id \in 0 .. Size - 1 :
                /\ Resolve(id) \in Strings \cup {Empty}
                /\ id < BaseCount => id + 1 \in DOMAIN base /\ Resolve(id) = base[id + 1]
                /\ id >= BaseCount => id - BaseCount + 1 \in DOMAIN list
                                      /\ Resolve(id) = list[id - BaseCount + 1]
<1>1. BaseCount \in Nat /\ Len(list) \in Nat /\ BaseCount = Len(base)
  BY Sizes DEF BaseCount
<1>2. base \in Seq(Strings \cup {Empty}) /\ list \in Seq(Strings \cup {Empty})
  BY DEF StringsTypeOK
<1>3. Resolve(0) = Empty
  BY <1>1, Sizes DEF Resolve, StringsTypeOK
<1>4. ASSUME NEW id \in 0 .. Size - 1, id < BaseCount
      PROVE  id + 1 \in DOMAIN base /\ Resolve(id) = base[id + 1]
  BY <1>1, <1>2, <1>4 DEF Resolve
<1>5. ASSUME NEW id \in 0 .. Size - 1, ~(id < BaseCount)
      PROVE  /\ id - BaseCount + 1 \in DOMAIN list
             /\ Resolve(id) = list[id - BaseCount + 1]
  BY <1>1, <1>2, <1>5 DEF Resolve, Size
<1>6. ASSUME NEW id \in 0 .. Size - 1
      PROVE  Resolve(id) \in Strings \cup {Empty}
  BY <1>2, <1>4, <1>5
<1>7. QED
  BY <1>1, <1>3, <1>4, <1>5, <1>6

LEMMA ReadsAsTyped ==
  ASSUME NEW s \in Strings \cup {Empty}
  PROVE  /\ Normal[s] \in Strings \cup {Empty}
         /\ Normal[Normal[s]] = Normal[s]
         /\ Normal[s] = Empty => s = Empty
         /\ \A t \in ReadsAs(s) : Normal[t] = Normal[s]
BY DEF ReadsAs

(* A plain string is what no other is stored as.                           *)
LEMMA PlainStays ==
  ASSUME NEW s \in Strings \cup {Empty}, Plain(s)
  PROVE  /\ ReadsAs(s) = {s}
         /\ \A t \in Strings \cup {Empty} : Normal[t] = s => t = s
BY DEF Plain, ReadsAs

----------------------------------------------------------------------------
(* The steps that add to the list.                                         *)

LEMMA Appended ==
  ASSUME StringsTypeOK, NEW s, base' = base, list' = Append(list, s)
  PROVE  /\ BaseCount' = BaseCount /\ Size' = Size + 1
         /\ \A id \in {Size} : Resolve(id)' = s
         /\ \A id \in 0 .. Size - 1 : Resolve(id)' = Resolve(id)
<1>1. /\ BaseCount \in Nat /\ Len(list) \in Nat
      /\ BaseCount = Len(base) /\ Size = BaseCount + Len(list)
  BY Sizes DEF BaseCount
<1>2. list \in Seq(Strings \cup {Empty})
  BY DEF StringsTypeOK
<1>3. /\ Len(Append(list, s)) = Len(list) + 1
      /\ \A i \in 1 .. Len(list) : Append(list, s)[i] = list[i]
      /\ Append(list, s)[Len(list) + 1] = s
  BY <1>2
<1>4. BaseCount' = BaseCount /\ Size' = Size + 1
  BY <1>1, <1>3 DEF BaseCount, Size
<1>5. ASSUME NEW id \in {Size} PROVE Resolve(id)' = s
  BY <1>1, <1>3, <1>4 DEF Resolve
<1>6. ASSUME NEW id \in 0 .. Size - 1 PROVE Resolve(id)' = Resolve(id)
  BY <1>1, <1>3, <1>4 DEF Resolve
<1>7. QED
  BY <1>4, <1>5, <1>6

LEMMA AppendKeeps ==
  ASSUME StringsInv, NEW s \in Strings,
         s \notin DOMAIN own, \A i \in DOMAIN base : base[i] # s,
         Append1(s), UNCHANGED <<base, index, indexing, reads, cache>>,
         adding' = Empty, indexing = 0
  PROVE  StringsInv'
<1> USE DEF StringsInv
<1>1. list' = Append(list, s) /\ own' = OwnWith(s, NextId) /\ Size < MaxSize
  BY DEF Append1
<1>2. /\ fresh' = fresh \cup {Ref(s, NextId)} /\ kept' = kept
      /\ got' = NotRead /\ base' = base
  BY DEF Append1, HandOut
<1>3. /\ BaseCount' = BaseCount /\ Size' = Size + 1
      /\ \A id \in {Size} : Resolve(id)' = s
      /\ \A id \in 0 .. Size - 1 : Resolve(id)' = Resolve(id)
  BY <1>1, <1>2, Appended
<1>4. /\ NextId = Size /\ Size \in Nat /\ Size >= 1 /\ BaseCount \in Nat
      /\ Size = BaseCount + Len(list) /\ Len(list) \in Nat
  BY Sizes DEF NextId
<1>5. list \in Seq(Strings \cup {Empty}) /\ Len(list') = Len(list) + 1
  BY <1>1 DEF StringsTypeOK
<1>6. /\ DOMAIN own' = DOMAIN own \cup {s} /\ own'[s] = Size
      /\ \A t \in DOMAIN own : own'[t] = own[t]
  BY <1>1, <1>4 DEF OwnWith
<1>7. StringsTypeOK'
  <2> USE DEF StringsTypeOK
  <2>1. list' \in Seq(Strings \cup {Empty})
    BY <1>1, <1>5
  <2>2. base' = <<>> => list' # <<>> /\ list'[1] = Empty
    BY <1>1, <1>2, <1>5
  <2>3. DOMAIN own' \subseteq Strings /\ \A t \in DOMAIN own' : own'[t] \in 0 .. Size' - 1
    BY <1>3, <1>4, <1>6
  <2>4. fresh' \cup kept' \subseteq [string : Strings \cup {Empty}, id : Nat]
    BY <1>2, <1>4 DEF Ref
  <2>5. QED
    BY <1>2, <1>3, <2>1, <2>2, <2>3, <2>4
<1>8. Indexed'
  <2>1. UNCHANGED <<base, index, indexing>>
    BY <1>2
  <2>2. QED
    BY <2>1 DEF Indexed, SlotsOfIndex, EntriesPlaced, NoGapBefore, Placed, Home, Slots,
                BaseCount
<1>9. OwnIsRight'
  <2>1. ASSUME NEW t \in DOMAIN own'
        PROVE  own'[t] \in 1 .. Size' - 1 /\ Resolve(own[t])' = t
    <3>1. CASE t = s
      BY <3>1, <1>3, <1>4, <1>6
    <3>2. CASE t # s
      <4>1. t \in DOMAIN own /\ own'[t] = own[t] /\ own[t] \in 1 .. Size - 1
            /\ Resolve(own[t]) = t
        BY <3>2, <1>6 DEF OwnIsRight
      <4>2. \A id \in 1 .. Size - 1 : Resolve(id)' = Resolve(id)
        BY <1>3, <1>4
      <4>3. PICK id \in 1 .. Size - 1 : id = own[t]
        BY <4>1
      <4>4. Resolve(own[t])' = t
        BY <4>1, <4>2, <4>3 DEF Resolve
      <4>5. QED
        BY <1>3, <1>4, <4>1, <4>4
    <3>3. QED
      BY <3>1, <3>2
  <2>2. ASSUME NEW i \in DOMAIN list', base' # <<>> \/ i > 1
        PROVE  list'[i] \in DOMAIN own' /\ own'[list'[i]] = BaseCount' + i - 1
    <3>1. CASE i = Len(list) + 1
      <4>1. list'[i] = s
        BY <3>1, <1>1, <1>5
      <4>2. QED
        BY <3>1, <4>1, <1>3, <1>4, <1>6
    <3>2. CASE i # Len(list) + 1
      <4>1. i \in DOMAIN list /\ list'[i] = list[i]
        BY <3>2, <1>1, <1>4, <1>5
      <4>2. list[i] \in DOMAIN own /\ own[list[i]] = BaseCount + i - 1
        BY <4>1, <2>2, <1>2 DEF OwnIsRight
      <4>3. QED
        BY <4>1, <4>2, <1>3, <1>6
    <3>3. QED
      BY <3>1, <3>2
  <2>3. QED
    BY <2>1, <2>2 DEF OwnIsRight
<1>10. CacheIsRight' /\ KeptAreInBase'
  BY <1>2, <1>3 DEF CacheIsRight, KeptAreInBase
<1>11. GotIsRight'
  BY <1>2 DEF GotIsRight, NotRead
<1>12. ASSUME NEW j \in 0 .. Size - 1 PROVE Resolve(j) # s
  <2>1. CASE j < BaseCount
    BY <2>1, ResolveTyped
  <2>2. CASE ~(j < BaseCount)
    <3>1. /\ j - BaseCount + 1 \in DOMAIN list
          /\ Resolve(j) = list[j - BaseCount + 1]
      BY <2>2, <1>4, ResolveTyped
    <3>2. CASE base # <<>> \/ j - BaseCount + 1 > 1
      BY <3>1, <3>2 DEF OwnIsRight
    <3>3. CASE base = <<>> /\ ~(j - BaseCount + 1 > 1)
      <4>1. j = 0
        BY <3>3, <1>4, Sizes
      <4>2. QED
        BY <4>1, ResolveTyped
    <3>4. QED
      BY <3>2, <3>3
  <2>3. QED
    BY <2>1, <2>2
<1>13. NoTwins'
  <2>1. SUFFICES ASSUME NEW i \in 0 .. Size, NEW j \in 0 .. Size,
                        Resolve(i)' = Resolve(j)', Plain(Resolve(i)')
                 PROVE  i = j
    BY <1>3, <1>4 DEF NoTwins, Plain
  <2>2. CASE i = Size
    BY <2>1, <2>2, <1>3, <1>4, <1>12
  <2>3. CASE j = Size
    BY <2>1, <2>3, <1>3, <1>4, <1>12
  <2>4. CASE i \in 0 .. Size - 1 /\ j \in 0 .. Size - 1
    BY <2>1, <2>4, <1>3 DEF NoTwins
  <2>5. QED
    BY <2>2, <2>3, <2>4, <1>4
<1>14. IdsStay'
  <2>1. ASSUME NEW r \in fresh'
        PROVE  r.id < Size' /\ Resolve(r.id)' \in ReadsAs(r.string)
    <3>1. CASE r = Ref(s, Size)
      <4>1. r.id \in {Size} /\ r.string = s
        BY <3>1 DEF Ref
      <4>2. Resolve(r.id)' = s
        BY <4>1, <1>3
      <4>3. QED
        BY <4>1, <4>2, <1>3, <1>4 DEF ReadsAs
    <3>2. CASE r \in fresh
      <4>1. r.id \in 0 .. Size - 1 /\ Resolve(r.id) \in ReadsAs(r.string)
        BY <3>2, <1>4 DEF IdsStay, StringsTypeOK
      <4>2. Resolve(r.id)' = Resolve(r.id)
        BY <4>1, <1>3
      <4>3. QED
        BY <4>1, <4>2, <1>3, <1>4
    <3>3. QED
      BY <3>1, <3>2, <1>2, <1>4
  <2>2. ASSUME NEW r \in kept'
        PROVE  r.id < Size' /\ Resolve(r.id)' = Normal[r.string]
    <3>1. r.id \in 0 .. Size - 1 /\ Resolve(r.id) = Normal[r.string]
      BY <1>2, <1>4 DEF IdsStay, StringsTypeOK
    <3>2. Resolve(r.id)' = Resolve(r.id)
      BY <3>1, <1>3
    <3>3. QED
      BY <3>1, <3>2, <1>3, <1>4
  <2>3. QED
    BY <2>1, <2>2 DEF IdsStay
<1>15. Size' <= MaxSize /\ indexing' = 0 /\ adding' = Empty
  BY <1>1, <1>2, <1>3, <1>4
<1>16. QED
  BY <1>7, <1>8, <1>9, <1>10, <1>11, <1>13, <1>14, <1>15

----------------------------------------------------------------------------
(* The steps that leave the tables alone.                                  *)

(* What holds of the tables holds as long as neither changes.              *)
LEMMA TablesKept ==
  ASSUME StringsInv, UNCHANGED <<base, list>>
  PROVE  /\ BaseCount' = BaseCount /\ Size' = Size
         /\ \A id \in 0 .. Size - 1 : Resolve(id)' = Resolve(id)
         /\ NoTwins' /\ Size' <= MaxSize
<1>1. BaseCount' = BaseCount /\ Size' = Size
  BY DEF BaseCount, Size
<1>2. \A id \in 0 .. Size - 1 : Resolve(id)' = Resolve(id)
  BY <1>1 DEF Resolve
<1>3. ASSUME NEW i \in 0 .. Size - 1, NEW j \in 0 .. Size - 1,
             Resolve(i)' = Resolve(j)', Plain(Resolve(i)')
      PROVE  i = j
  BY <1>2, <1>3 DEF StringsInv, NoTwins
<1>4. NoTwins'
  BY <1>1, <1>3 DEF NoTwins, Plain
<1>5. QED
  BY <1>1, <1>2, <1>4 DEF StringsInv

(* ... and so does what holds of the ids, if another one is of its string. *)
LEMMA HandOutKeeps ==
  ASSUME StringsInv, UNCHANGED <<base, list>>,
         NEW s \in Strings \cup {Empty}, NEW id \in 0 .. Size - 1,
         HandOut(s, id), Resolve(id) = s
  PROVE  IdsStay' /\ GotIsRight' /\ KeptAreInBase'
<1> USE DEF StringsInv
<1>1. /\ BaseCount' = BaseCount /\ Size' = Size
      /\ \A n \in 0 .. Size - 1 : Resolve(n)' = Resolve(n)
  BY TablesKept
<1>2. fresh' = fresh \cup {Ref(s, id)} /\ kept' = kept /\ got' = NotRead
  BY DEF HandOut
<1>3. GotIsRight' /\ KeptAreInBase'
  BY <1>1, <1>2 DEF GotIsRight, KeptAreInBase, NotRead
<1>4. Size \in Nat
  BY Sizes
<1>5. ASSUME NEW r \in fresh'
      PROVE  r.id < Size' /\ Resolve(r.id)' \in ReadsAs(r.string)
  <2>1. CASE r = Ref(s, id)
    BY <2>1, <1>1, <1>4 DEF Ref, ReadsAs
  <2>2. CASE r \in fresh
    BY <2>2, <1>1, <1>4 DEF IdsStay, StringsTypeOK
  <2>3. QED
    BY <2>1, <2>2, <1>2
<1>6. ASSUME NEW r \in kept'
      PROVE  r.id < Size' /\ Resolve(r.id)' = Normal[r.string]
  BY <1>1, <1>2, <1>4 DEF IdsStay, StringsTypeOK
<1>7. QED
  BY <1>3, <1>5, <1>6 DEF IdsStay

(* What a step says of ids, when it hands out none.                        *)
LEMMA IdsKept ==
  ASSUME StringsInv, UNCHANGED <<base, list, fresh, kept>>
  PROVE  IdsStay' /\ KeptAreInBase'
<1>1. /\ BaseCount' = BaseCount /\ Size' = Size
      /\ \A n \in 0 .. Size - 1 : Resolve(n)' = Resolve(n)
  BY TablesKept
<1>2. Size \in Nat
  BY Sizes DEF StringsInv
<1>3. ASSUME NEW r \in fresh'
      PROVE  r.id < Size' /\ Resolve(r.id)' \in ReadsAs(r.string)
  BY <1>1, <1>2 DEF StringsInv, IdsStay, StringsTypeOK
<1>4. ASSUME NEW r \in kept'
      PROVE  r.id < Size' /\ Resolve(r.id)' = Normal[r.string]
  BY <1>1, <1>2 DEF StringsInv, IdsStay, StringsTypeOK
<1>5. QED
  BY <1>1, <1>3, <1>4 DEF IdsStay, KeptAreInBase, StringsInv

LEMMA OwnKept ==
  ASSUME StringsInv, UNCHANGED <<base, list, own>>
  PROVE  OwnIsRight'
<1>1. /\ BaseCount' = BaseCount /\ Size' = Size
      /\ \A n \in 0 .. Size - 1 : Resolve(n)' = Resolve(n)
  BY TablesKept
<1>2. Size \in Nat
  BY Sizes DEF StringsInv
<1>3. ASSUME NEW s \in DOMAIN own
      PROVE  own[s]' \in 1 .. Size' - 1 /\ Resolve(own[s])' = s
  <2>1. own[s] \in 1 .. Size - 1 /\ Resolve(own[s]) = s
    BY DEF StringsInv, OwnIsRight
  <2>2. PICK n \in 0 .. Size - 1 : n = own[s]
    BY <2>1, <1>2
  <2>3. Resolve(n)' = s
    BY <2>1, <2>2, <1>1
  <2>4. own[s]' = n
    BY <2>2
  <2>5. Resolve(own[s])' = s
    BY <2>3, <2>4 DEF Resolve
  <2>6. QED
    BY <2>1, <2>5, <1>1
<1>4. QED
  BY <1>1, <1>3 DEF StringsInv, OwnIsRight

LEMMA IndexKept ==
  ASSUME StringsInv, UNCHANGED <<base, index, indexing>>
  PROVE  Indexed'
BY DEF StringsInv, Indexed, SlotsOfIndex, EntriesPlaced, NoGapBefore, Placed, Home,
       Slots, BaseCount

LEMMA AddEmptyKeeps ==
  ASSUME StringsInv, AddEmpty
  PROVE  StringsInv'
<1>1. HandOut(Empty, 0) /\ UNCHANGED interner
  BY DEF AddEmpty
<1>2. UNCHANGED <<base, list, own, index, indexing, adding, reads, cache>>
  BY <1>1 DEF interner
<1>3. 0 \in 0 .. Size - 1 /\ Resolve(0) = Empty /\ Size \in Nat
  BY Sizes, ResolveTyped DEF StringsInv
<1>4. IdsStay' /\ GotIsRight' /\ KeptAreInBase'
  BY <1>1, <1>2, <1>3, HandOutKeeps
<1>5. Indexed' /\ OwnIsRight' /\ NoTwins' /\ Size' <= MaxSize /\ Size' = Size
  BY <1>2, IndexKept, OwnKept, TablesKept
<1>6. CacheIsRight'
  BY <1>2 DEF StringsInv, CacheIsRight
<1>7. StringsTypeOK'
  BY <1>1, <1>2, <1>5 DEF StringsInv, StringsTypeOK, HandOut, Ref, BaseCount
<1>8. QED
  BY <1>2, <1>4, <1>5, <1>6, <1>7 DEF StringsInv

LEMMA AddAgainKeeps ==
  ASSUME StringsInv, NEW s \in Strings, AddAgain(s)
  PROVE  StringsInv'
<1>1. HandOut(s, own[s]) /\ UNCHANGED interner /\ s \in DOMAIN own
  BY DEF AddAgain
<1>2. UNCHANGED <<base, list, own, index, indexing, adding, reads, cache>>
  BY <1>1 DEF interner
<1>3. own[s] \in 0 .. Size - 1 /\ Resolve(own[s]) = s /\ Size \in Nat
  BY <1>1, Sizes DEF StringsInv, OwnIsRight
<1>4. PICK id \in 0 .. Size - 1 : id = own[s]
  BY <1>3
<1>5. HandOut(s, id) /\ Resolve(id) = s
  BY <1>1, <1>3, <1>4
<1>6. IdsStay' /\ GotIsRight' /\ KeptAreInBase'
  BY <1>2, <1>5, HandOutKeeps
<1>7. Indexed' /\ OwnIsRight' /\ NoTwins' /\ Size' <= MaxSize /\ Size' = Size
  BY <1>2, IndexKept, OwnKept, TablesKept
<1>8. CacheIsRight'
  BY <1>2 DEF StringsInv, CacheIsRight
<1>9. StringsTypeOK'
  BY <1>2, <1>3, <1>4, <1>5, <1>7 DEF StringsInv, StringsTypeOK, HandOut, Ref, BaseCount
<1>10. QED
  BY <1>2, <1>6, <1>7, <1>8, <1>9 DEF StringsInv

LEMMA GetInBaseKeeps ==
  ASSUME StringsInv, NEW id \in Nat, GetInBase(id)
  PROVE  StringsInv'
<1> USE DEF StringsInv
<1>1. /\ UNCHANGED <<base, list, own, index, indexing, adding, fresh, kept>>
      /\ id < BaseCount /\ reads' = reads + 1
  BY DEF GetInBase
<1>2. IdsStay' /\ KeptAreInBase' /\ Indexed' /\ OwnIsRight' /\ NoTwins'
      /\ Size' <= MaxSize /\ Size' = Size /\ BaseCount' = BaseCount
  BY <1>1, IdsKept, IndexKept, OwnKept, TablesKept
<1>3. id \in 0 .. Size - 1 /\ Resolve(id) = base[id + 1] /\ BaseCount \in Nat
  BY <1>1, Sizes, ResolveTyped
<1>4. \/ cache' = cache
      \/ id # 0 /\ cache' = Cached(id)
  BY DEF GetInBase
<1>5. DOMAIN cache' \subseteq 1 .. BaseCount - 1
  BY <1>1, <1>3, <1>4 DEF Cached, StringsTypeOK
<1>6. CacheIsRight'
  BY <1>1, <1>4 DEF CacheIsRight, Cached
<1>7. /\ got'.id = id
      /\ got'.string = Resolve(id)
  BY <1>3, ResolveTyped DEF GetInBase, Ref, CacheIsRight
<1>8. GotIsRight'
  <2>1. Resolve(id)' = Resolve(id)
    BY <1>1, <1>3, TablesKept
  <2>2. Resolve(got.id)' = Resolve(id)
    BY <1>7, <2>1 DEF Resolve
  <2>3. QED
    BY <1>2, <1>3, <1>7, <2>2 DEF GotIsRight, NotRead
<1>9. StringsTypeOK'
  BY <1>1, <1>2, <1>5 DEF StringsTypeOK, BaseCount
<1>10. QED
  BY <1>1, <1>2, <1>6, <1>8, <1>9

LEMMA GetInListKeeps ==
  ASSUME StringsInv, NEW id \in Nat, GetInList(id)
  PROVE  StringsInv'
<1> USE DEF StringsInv
<1>1. /\ UNCHANGED <<base, list, own, index, indexing, adding, reads, cache, fresh, kept>>
      /\ ~(id < BaseCount) /\ id < Size /\ got' = Ref(Listed(id), id)
  BY Sizes DEF GetInList, interner
<1>2. IdsStay' /\ KeptAreInBase' /\ Indexed' /\ OwnIsRight' /\ NoTwins'
      /\ Size' <= MaxSize /\ Size' = Size /\ BaseCount' = BaseCount
  BY <1>1, IdsKept, IndexKept, OwnKept, TablesKept
<1>3. id \in 0 .. Size - 1 /\ Resolve(id) = Listed(id)
  BY <1>1, Sizes DEF Resolve, Listed
<1>4. got'.id = id /\ got'.string = Resolve(id)
  BY <1>1, <1>3 DEF Ref
<1>5. GotIsRight'
  <2>1. Resolve(id)' = Resolve(id)
    BY <1>1, <1>3, TablesKept
  <2>2. Resolve(got.id)' = Resolve(id)
    BY <1>4, <2>1 DEF Resolve
  <2>3. QED
    BY <1>2, <1>3, <1>4, <2>2 DEF GotIsRight, NotRead
<1>6. CacheIsRight' /\ StringsTypeOK'
  BY <1>1, <1>2 DEF CacheIsRight, StringsTypeOK, BaseCount
<1>7. QED
  BY <1>1, <1>2, <1>5, <1>6

----------------------------------------------------------------------------
(* The steps that use the index of the base.                               *)

LEMMA BaseStrings ==
  ASSUME StringsInv, NEW id \in 1 .. BaseCount - 1
  PROVE  base[id + 1] \in Strings /\ ByteHash[base[id + 1]] \in Nat
<1>1. BaseCount \in Nat /\ Size \in Nat /\ BaseCount <= Size /\ Size >= 1
  BY Sizes DEF StringsInv
<1>2. Resolve(id) = base[id + 1] /\ Resolve(id) \in Strings \cup {Empty} /\ Resolve(0) = Empty
  BY <1>1, ResolveTyped DEF StringsInv
<1>3. Resolve(id) # Empty
  BY <1>1, <1>2 DEF StringsInv, NoTwins, Plain
<1>4. QED
  BY <1>2, <1>3

(* More slots than ids: one of them is free.                               *)
LEMMA OneIsFree ==
  ASSUME StringsInv, index # <<>>
  PROVE  /\ Slots \in Nat \ {0} /\ DOMAIN index = 0 .. Slots - 1
         /\ Placed \in Nat /\ Placed <= BaseCount
         /\ \E slot \in 0 .. Slots - 1 : index[slot] = 0
<1>1. /\ DOMAIN index = 0 .. Slots - 1 /\ Slots \in Nat /\ Slots > BaseCount
      /\ BaseCount \in Nat /\ EntriesPlaced
  BY Sizes DEF StringsInv, Indexed, SlotsOfIndex
<1>2. Placed \in Nat /\ Placed <= BaseCount
  BY <1>1 DEF Placed, StringsInv, StringsTypeOK
<1>3. ASSUME \A slot \in 0 .. Slots - 1 : index[slot] # 0 PROVE FALSE
  <2> DEFINE S == 0 .. Slots - 1
             T == 1 .. Placed - 1
             f == [slot \in S |-> index[slot] - 1]
  <2>1. \A slot \in S : index[slot] \in 2 .. Placed
    BY <1>1, <1>3 DEF EntriesPlaced
  <2>2. f \in [S -> T]
    BY <2>1, <1>2
  <2>3. IsFiniteSet(S) /\ Cardinality(S) = Slots
    BY <1>1, FS_Interval
  <2>4. IsFiniteSet(T) /\ Cardinality(T) < Slots
    <3>1. Placed - 1 \in Int /\ 1 \in Int
      BY <1>2
    <3>2. IsFiniteSet(T) /\ Cardinality(T) = IF 1 > Placed - 1 THEN 0 ELSE (Placed - 1) - 1 + 1
      BY <3>1, FS_Interval
    <3> HIDE DEF T
    <3>3. QED
      BY <3>2, <1>1, <1>2
  <2>6. \E a, b \in S : a # b /\ f[a] = f[b]
    <3> HIDE DEF S, T, f
    <3>1. QED
      BY <2>2, <2>3, <2>4, FS_PigeonHole
  <2>7. PICK a \in S, b \in S : a # b /\ index[a] - 1 = index[b] - 1
    BY <2>6
  <2>8. index[a] = index[b]
    BY <2>1, <2>7
  <2>9. QED
    BY <1>1, <1>3, <2>7, <2>8 DEF EntriesPlaced
<1>4. QED
  BY <1>1, <1>2, <1>3

LEMMA LookInBaseKeeps ==
  ASSUME StringsInv, NEW s \in Strings, LookInBase(s)
  PROVE  StringsInv'
<1> USE DEF StringsInv
<1>1. /\ UNCHANGED <<base, list, own, reads, cache, fresh, kept>>
      /\ adding = Empty /\ adding' = s /\ s \notin DOMAIN own /\ base # <<>>
      /\ got' = NotRead
  BY DEF LookInBase, Resting
<1>2. /\ IdsStay' /\ KeptAreInBase' /\ OwnIsRight' /\ NoTwins'
      /\ Size' <= MaxSize /\ Size' = Size /\ BaseCount' = BaseCount
  BY <1>1, IdsKept, OwnKept, TablesKept
<1>3. CacheIsRight' /\ GotIsRight'
  BY <1>1 DEF CacheIsRight, GotIsRight, NotRead
<1>4. BaseCount \in 1 .. MaxSize /\ BaseCount > 1
  BY <1>1, Sizes
<1>5. CASE index = <<>>
  <2> DEFINE c == Capacity(BaseCount)
  <2>1. c \in Nat /\ c > BaseCount
    BY <1>4, CapacityFits
  <2>2. index' = [slot \in 0 .. c - 1 |-> 0] /\ indexing' = 1
    BY <1>5 DEF LookInBase
  <2> HIDE DEF c
  <2>3. DOMAIN index' = 0 .. c - 1 /\ \A slot \in 0 .. c - 1 : index'[slot] = 0
    BY <2>2
  <2>4. Slots' = c
    <3>1. Cardinality(0 .. c - 1) = c
      BY <2>1, FS_Interval
    <3>2. QED
      BY <2>3, <3>1 DEF Slots
  <2>5. index' # <<>>
    <3>1. 0 \in DOMAIN index'
      BY <1>4, <2>1, <2>3
    <3>2. QED
      BY <3>1
  <2>6. Placed' = 1
    BY <2>2 DEF Placed
  <2>7. SlotsOfIndex' /\ EntriesPlaced' /\ NoGapBefore'
    BY <1>2, <2>1, <2>3, <2>4, <2>6 DEF SlotsOfIndex, EntriesPlaced, NoGapBefore
  <2>8. Indexed'
    BY <1>1, <2>7 DEF Indexed
  <2>9. StringsTypeOK'
    BY <1>1, <1>2, <1>4, <2>2, <2>3, <2>5 DEF StringsTypeOK
  <2>10. QED
    BY <1>1, <1>2, <1>3, <2>8, <2>9
<1>6. CASE index # <<>>
  <2>1. UNCHANGED <<index, indexing>>
    BY <1>6 DEF LookInBase
  <2>2. Indexed'
    BY <1>1, <2>1, IndexKept
  <2>3. StringsTypeOK'
    BY <1>1, <1>2, <1>6, <2>1 DEF StringsTypeOK
  <2>4. QED
    BY <1>1, <1>2, <1>3, <2>1, <2>2, <2>3
<1>7. QED
  BY <1>5, <1>6

LEMMA PlaceIdKeeps ==
  ASSUME StringsInv, PlaceId
  PROVE  StringsInv'
<1> USE DEF StringsInv
<1> DEFINE hash == ByteHash[base[indexing + 1]]
<1>1. /\ UNCHANGED <<base, list, own, adding, reads, cache, fresh, kept, got>>
      /\ indexing # 0 /\ index' = [index EXCEPT ![FreeSlotFor(hash)] = indexing + 1]
      /\ indexing' = IF indexing + 1 = BaseCount THEN 0 ELSE indexing + 1
  BY DEF PlaceId, stringsHistory
<1>2. /\ IdsStay' /\ KeptAreInBase' /\ OwnIsRight' /\ NoTwins'
      /\ Size' <= MaxSize /\ Size' = Size /\ BaseCount' = BaseCount
  BY <1>1, IdsKept, OwnKept, TablesKept
<1>3. CacheIsRight' /\ GotIsRight'
  <2>1. \A n \in 0 .. Size - 1 : Resolve(n)' = Resolve(n)
    BY <1>1, TablesKept
  <2>2. QED
    BY <1>1, <1>2, <2>1 DEF CacheIsRight, GotIsRight, NotRead, Resolve, BaseCount
<1>4. /\ index # <<>> /\ base # <<>> /\ indexing \in 1 .. BaseCount - 1
      /\ BaseCount \in Nat /\ Placed = indexing
  BY <1>1, Sizes DEF StringsTypeOK, Placed
<1>5. Placed' = indexing + 1
  BY <1>1, <1>2, <1>4 DEF Placed
<1>6. /\ Slots \in Nat \ {0} /\ DOMAIN index = 0 .. Slots - 1
      /\ \E slot \in 0 .. Slots - 1 : index[slot] = 0
      /\ Slots > BaseCount /\ EntriesPlaced /\ NoGapBefore
  BY <1>4, OneIsFree DEF Indexed, SlotsOfIndex
<1>7. Home(indexing) = hash % Slots /\ Home(indexing) \in 0 .. Slots - 1
  BY <1>4, <1>6, BaseStrings DEF Home
<1>8. PICK free \in 0 .. Slots - 1, gap \in 0 .. Slots - 1 :
          /\ free = FreeSlotFor(hash) /\ index[free] = 0
          /\ free = (Home(indexing) + gap) % Slots
          /\ \A c \in 0 .. gap - 1 : index[(Home(indexing) + c) % Slots] # 0
  <2> DEFINE stops == {slot \in DOMAIN index : index[slot] = 0}
             stop == FirstStop(Home(indexing), Slots, stops)
  <2>1. stops \cap (0 .. Slots - 1) # {}
    BY <1>6
  <2>2. FreeSlotFor(hash) = stop
    BY <1>7 DEF FreeSlotFor
  <2>3. /\ stop \in stops \cap (0 .. Slots - 1)
        /\ \E d \in 0 .. Slots - 1 :
               /\ stop = (Home(indexing) + d) % Slots
               /\ \A c \in 0 .. d - 1 : (Home(indexing) + c) % Slots \notin stops
    <3> HIDE DEF stops
    <3>1. QED
      BY <1>6, <1>7, <2>1, ProbeStops
  <2>4. PICK d \in 0 .. Slots - 1 :
            /\ stop = (Home(indexing) + d) % Slots
            /\ \A c \in 0 .. d - 1 : (Home(indexing) + c) % Slots \notin stops
    BY <2>3
  <2>5. \A c \in 0 .. d - 1 : (Home(indexing) + c) % Slots \in 0 .. Slots - 1
    BY <1>6, <1>7
  <2>6. \A c \in 0 .. d - 1 : index[(Home(indexing) + c) % Slots] # 0
    BY <2>4, <2>5, <1>6
  <2>7. index[stop] = 0 /\ stop \in 0 .. Slots - 1
    BY <2>3
  <2> HIDE DEF stop
  <2>8. QED
    BY <2>2, <2>4, <2>6, <2>7
<1>9. /\ DOMAIN index' = DOMAIN index /\ index'[free] = indexing + 1
      /\ \A slot \in 0 .. Slots - 1 : slot # free => index'[slot] = index[slot]
  BY <1>1, <1>6, <1>8
<1>10. Slots' = Slots
  BY <1>9 DEF Slots
<1>11. \A id \in 1 .. BaseCount - 1 : Home(id)' = Home(id)
  BY <1>1, <1>10 DEF Home
<1>12. SlotsOfIndex'
  BY <1>2, <1>6, <1>9, <1>10 DEF SlotsOfIndex
<1>13. \A slot \in 0 .. Slots - 1 : index[slot] \in 0 .. BaseCount
  BY <1>6 DEF StringsTypeOK
<1>14. EntriesPlaced'
  <2> HIDE DEF StringsInv
  <2>1. ASSUME NEW slot \in 0 .. Slots - 1, index'[slot] # 0,
               NEW other \in 0 .. Slots - 1
        PROVE  /\ index'[slot] \in 2 .. indexing + 1
               /\ index'[other] = index'[slot] => other = slot
    <3>1. /\ \A x \in 0 .. Slots - 1 : index[x] # 0 => index[x] \in 2 .. indexing
          /\ \A x, y \in 0 .. Slots - 1 : index[x] # 0 /\ index[y] = index[x] => y = x
      BY <1>4, <1>6 DEF EntriesPlaced
    <3>2. CASE slot = free
      BY <2>1, <3>1, <3>2, <1>4, <1>9
    <3>3. CASE slot # free /\ other = free
      BY <2>1, <3>1, <3>3, <1>4, <1>9
    <3>4. CASE slot # free /\ other # free
      BY <2>1, <3>1, <3>4, <1>4, <1>9
    <3>5. QED
      BY <3>2, <3>3, <3>4
  <2>2. QED
    BY <2>1, <1>4, <1>5, <1>6, <1>9 DEF EntriesPlaced
<1>15. NoGapBefore'
  <2>1. \A x \in 0 .. Slots - 1 : index[x] # 0 => index'[x] = index[x]
    BY <1>8, <1>9
  <2>2. ASSUME NEW id \in 1 .. indexing
        PROVE  \E d \in 0 .. Slots - 1 :
                   /\ index'[(Home(id) + d) % Slots] = id + 1
                   /\ \A c \in 0 .. d - 1 : index'[(Home(id) + c) % Slots] # 0
    <3> DEFINE Turn(d) == (Home(id) + d) % Slots
    <3>1. Home(id) \in Nat
      BY <1>4, <1>6, BaseStrings DEF Home
    <3>2. \A d \in 0 .. Slots - 1 : Turn(d) \in 0 .. Slots - 1
      BY <3>1, <1>6
    <3>3. PICK d \in 0 .. Slots - 1 :
              /\ index'[Turn(d)] = id + 1
              /\ \A c \in 0 .. d - 1 : index[Turn(c)] # 0
      <4>1. CASE id = indexing
        <5>1. free = Turn(gap) /\ \A c \in 0 .. gap - 1 : index[Turn(c)] # 0
          BY <4>1, <1>8
        <5> HIDE DEF Turn
        <5>2. QED
          BY <4>1, <5>1, <1>9
      <4>2. CASE id # indexing
        <5>1. id \in 1 .. Placed - 1
          BY <4>2, <1>4
        <5>2. PICK d \in 0 .. Slots - 1 :
                  /\ index[Turn(d)] = id + 1
                  /\ \A c \in 0 .. d - 1 : index[Turn(c)] # 0
          BY <5>1, <1>6 DEF NoGapBefore
        <5> HIDE DEF Turn
        <5>3. index'[Turn(d)] = id + 1
          BY <5>2, <3>2, <2>1
        <5>4. QED
          BY <5>2, <5>3
      <4>3. QED
        BY <4>1, <4>2
    <3>4. \A c \in 0 .. d - 1 : index'[Turn(c)] # 0
      <4> HIDE DEF Turn
      <4>1. \A c \in 0 .. d - 1 : c \in 0 .. Slots - 1
        BY <1>6
      <4>2. QED
        BY <4>1, <3>2, <3>3, <2>1
    <3>5. QED
      BY <3>3, <3>4
  <2>3. Placed' - 1 = indexing /\ \A id \in 1 .. indexing : Home(id)' = Home(id)
    BY <1>4, <1>5, <1>11
  <2>4. QED
    BY <2>2, <2>3, <1>10 DEF NoGapBefore
<1>16. Indexed'
  BY <1>1, <1>4, <1>12, <1>14, <1>15 DEF Indexed
<1>17. StringsTypeOK'
  <2>1. index' # <<>>
    BY <1>6, <1>8, <1>9
  <2>2. \A slot \in DOMAIN index' : index'[slot] \in 0 .. BaseCount
    <3>1. indexing + 1 \in 0 .. BaseCount
      BY <1>4
    <3>2. \A slot \in 0 .. Slots - 1 : index'[slot] \in 0 .. BaseCount
      BY <3>1, <1>9, <1>13
    <3>3. QED
      BY <3>2, <1>6, <1>9
  <2>3. indexing' \in 0 .. BaseCount /\ (indexing' # 0 => indexing' < BaseCount)
    BY <1>1, <1>4
  <2>4. QED
    BY <1>1, <1>2, <2>1, <2>2, <2>3 DEF StringsTypeOK
<1>18. indexing' # 0 => adding' # Empty
  BY <1>1
<1>19. QED
  BY <1>1, <1>2, <1>3, <1>16, <1>17, <1>18

(* What idOf ends at: the id of the string, or a slot that is free, and    *)
(* then the base does not have the string.                                 *)
LEMMA LookFinds ==
  ASSUME StringsInv, ~Resting, indexing = 0
  PROVE  /\ Look(adding) \in DOMAIN index
         /\ Holds(index[Look(adding)], adding) =>
                /\ index[Look(adding)] - 1 \in 1 .. BaseCount - 1
                /\ base[index[Look(adding)]] = adding
         /\ ~Holds(index[Look(adding)], adding) => \A i \in DOMAIN base : base[i] # adding
<1> DEFINE home == ByteHash[adding] % Slots
           Turn(d) == (home + d) % Slots
           stops == {slot \in DOMAIN index : index[slot] = 0 \/ Holds(index[slot], adding)}
           look == Look(adding)
<1>1. adding \in Strings /\ index # <<>> /\ base # <<>> /\ Placed = BaseCount
  BY DEF StringsInv, StringsTypeOK, Resting, Placed
<1>2. /\ Slots \in Nat \ {0} /\ DOMAIN index = 0 .. Slots - 1
      /\ \E slot \in 0 .. Slots - 1 : index[slot] = 0
      /\ EntriesPlaced /\ NoGapBefore
  BY <1>1, OneIsFree DEF StringsInv, Indexed
<1>3. home \in 0 .. Slots - 1
  <2>1. ByteHash[adding] \in Nat
    BY <1>1
  <2>2. QED
    BY <1>2, <2>1
<1>4. stops \cap (0 .. Slots - 1) # {} /\ look = FirstStop(home, Slots, stops)
  BY <1>2 DEF Look
<1>5. /\ look \in stops \cap (0 .. Slots - 1)
      /\ \E d \in 0 .. Slots - 1 :
             look = Turn(d) /\ \A c \in 0 .. d - 1 : Turn(c) \notin stops
  <2> HIDE DEF home, stops, look
  <2>1. QED
    BY <1>2, <1>3, <1>4, ProbeStops
<1>6. BaseCount \in Nat /\ BaseCount = Len(base) /\ base \in Seq(Strings \cup {Empty})
  BY Sizes DEF StringsInv, StringsTypeOK, BaseCount
<1> HIDE DEF look
<1>7. ASSUME Holds(index[look], adding)
      PROVE  index[look] - 1 \in 1 .. BaseCount - 1 /\ base[index[look]] = adding
  <2>1. index[look] # 0 /\ base[index[look]] = adding
    BY <1>7 DEF Holds
  <2>2. look \in DOMAIN index
    BY <1>2, <1>5
  <2>3. index[look] \in 2 .. BaseCount
    BY <2>1, <2>2, <1>1, <1>2 DEF EntriesPlaced
  <2>4. QED
    BY <2>1, <2>3, <1>6
<1>8. ASSUME ~Holds(index[look], adding), NEW i \in DOMAIN base, base[i] = adding
      PROVE  FALSE
  <2>1. index[look] = 0
    BY <1>5, <1>8
  <2>2. i \in 1 .. BaseCount /\ i # 1
    BY <1>1, <1>6, <1>8 DEF StringsInv, StringsTypeOK
  <2>3. PICK id \in 1 .. BaseCount - 1 : id + 1 = i
    <3>1. i - 1 \in 1 .. BaseCount - 1 /\ (i - 1) + 1 = i
      BY <2>2, <1>6
    <3>2. QED
      BY <3>1
  <2>4. Home(id) = home
    BY <2>3, <1>8 DEF Home
  <2>5. PICK d \in 0 .. Slots - 1 :
            index[Turn(d)] = id + 1 /\ \A c \in 0 .. d - 1 : index[Turn(c)] # 0
    <3>1. id \in 1 .. Placed - 1
      BY <2>3, <1>1
    <3>2. \E d \in 0 .. Slots - 1 :
              /\ index[(Home(id) + d) % Slots] = id + 1
              /\ \A c \in 0 .. d - 1 : index[(Home(id) + c) % Slots] # 0
      BY <3>1, <1>2 DEF NoGapBefore
    <3> HIDE DEF home
    <3>3. QED
      BY <3>2, <2>4
  <2>6. PICK e \in 0 .. Slots - 1 :
            look = Turn(e) /\ \A c \in 0 .. e - 1 : Turn(c) \notin stops
    BY <1>5
  <2>7. Turn(d) \in DOMAIN index
    BY <1>2, <1>3
  <2> HIDE DEF Turn, home
  <2>8. Turn(d) \in stops
    BY <2>3, <2>5, <2>7, <1>8 DEF Holds
  <2>9. ~(d < e)
    BY <2>6, <2>8, <1>2
  <2>10. ~(e < d)
    BY <2>1, <2>5, <2>6, <1>2
  <2>11. d = e
    BY <2>9, <2>10, <1>2
  <2>12. QED
    BY <2>1, <2>3, <2>5, <2>6, <2>11
<1>9. QED
  BY <1>7, <1>8, <1>5, <1>2 DEF look

LEMMA InBaseKeeps ==
  ASSUME StringsInv, InBase
  PROVE  StringsInv'
<1> USE DEF StringsInv
<1> DEFINE entry == index[Look(adding)]
<1>1. /\ ~Resting /\ indexing = 0 /\ Holds(entry, adding) /\ adding \in Strings
      /\ own' = OwnWith(adding, entry - 1) /\ HandOut(adding, entry - 1)
      /\ adding' = Empty
      /\ UNCHANGED <<base, list, index, indexing, reads, cache>>
  BY DEF InBase, Resting, StringsTypeOK
<1>2. entry - 1 \in 1 .. BaseCount - 1 /\ base[entry] = adding
  BY <1>1, LookFinds
<1>3. PICK id \in 1 .. BaseCount - 1 : id = entry - 1
  BY <1>2
<1>4. BaseCount \in Nat /\ Size \in Nat /\ BaseCount <= Size
  BY Sizes
<1>5. entry \in 0 .. BaseCount
  BY <1>1, LookFinds DEF StringsTypeOK
<1>6. entry = id + 1 /\ base[id + 1] = adding
  BY <1>2, <1>3, <1>4, <1>5
<1> HIDE DEF entry
<1>7. id \in 1 .. Size - 1 /\ Resolve(id) = adding
  BY <1>4, <1>6, ResolveTyped
<1>8. HandOut(adding, id) /\ own' = OwnWith(adding, id)
  BY <1>1, <1>3
<1>9. IdsStay' /\ GotIsRight' /\ KeptAreInBase'
  BY <1>1, <1>4, <1>7, <1>8, HandOutKeeps
<1>10. /\ Indexed' /\ NoTwins' /\ Size' <= MaxSize /\ Size' = Size
       /\ BaseCount' = BaseCount
       /\ \A n \in 0 .. Size - 1 : Resolve(n)' = Resolve(n)
  BY <1>1, IndexKept, TablesKept
<1>11. CacheIsRight'
  BY <1>1 DEF CacheIsRight
<1>12. /\ DOMAIN own' = DOMAIN own \cup {adding} /\ own'[adding] = id
       /\ \A t \in DOMAIN own : t # adding => own'[t] = own[t]
  BY <1>8 DEF OwnWith
<1>13. adding \notin DOMAIN own
  BY <1>1 DEF Resting
<1>14. OwnIsRight'
  <2>1. ASSUME NEW t \in DOMAIN own'
        PROVE  \E n \in 1 .. Size - 1 : own'[t] = n /\ Resolve(n) = t
    <3>1. CASE t = adding
      BY <3>1, <1>7, <1>12
    <3>2. CASE t # adding
      BY <3>2, <1>12 DEF OwnIsRight
    <3>3. QED
      BY <3>1, <3>2
  <2>2. ASSUME NEW t \in DOMAIN own'
        PROVE  own[t]' \in 1 .. Size' - 1 /\ Resolve(own[t])' = t
    <3>1. PICK n \in 1 .. Size - 1 : own'[t] = n /\ Resolve(n) = t
      BY <2>1
    <3>2. Resolve(n)' = t
      BY <3>1, <1>4, <1>10
    <3>3. Resolve(own[t])' = t
      BY <3>1, <3>2 DEF Resolve
    <3>4. QED
      BY <3>1, <3>3, <1>10
  <2>3. ASSUME NEW i \in DOMAIN list', base' # <<>> \/ i > 1
        PROVE  list'[i] \in DOMAIN own' /\ own'[list'[i]] = BaseCount' + i - 1
    <3>1. list'[i] \in DOMAIN own /\ own[list'[i]] = BaseCount + i - 1
      BY <2>3, <1>1 DEF OwnIsRight
    <3>2. list'[i] # adding
      BY <3>1, <1>13
    <3>3. QED
      BY <3>1, <3>2, <1>10, <1>12
  <2>4. QED
    BY <2>2, <2>3 DEF OwnIsRight
<1>15. StringsTypeOK'
  <2>1. \A t \in DOMAIN own' : own'[t] \in 0 .. Size' - 1
    BY <1>4, <1>10, <1>14 DEF OwnIsRight
  <2>2. fresh' \cup kept' \subseteq [string : Strings \cup {Empty}, id : Nat]
    BY <1>1, <1>4, <1>8 DEF HandOut, Ref, StringsTypeOK
  <2>3. QED
    BY <1>1, <1>10, <1>12, <2>1, <2>2 DEF StringsTypeOK
<1>16. QED
  BY <1>1, <1>9, <1>10, <1>11, <1>14, <1>15

LEMMA NotInBaseKeeps ==
  ASSUME StringsInv, NotInBase
  PROVE  StringsInv'
<1>1. /\ ~Resting /\ indexing = 0 /\ ~Holds(index[Look(adding)], adding)
      /\ adding \in Strings /\ adding \notin DOMAIN own
  BY DEF NotInBase, Resting, StringsInv, StringsTypeOK
<1>2. \A i \in DOMAIN base : base[i] # adding
  BY <1>1, LookFinds
<1>3. PICK s \in Strings : s = adding
  BY <1>1
<1>4. /\ Append1(s) /\ UNCHANGED <<base, index, indexing, reads, cache>>
      /\ adding' = Empty
  BY <1>3 DEF NotInBase
<1>5. QED
  BY <1>1, <1>2, <1>3, <1>4, AppendKeeps

LEMMA AddWithoutBaseKeeps ==
  ASSUME StringsInv, NEW s \in Strings, AddWithoutBase(s)
  PROVE  StringsInv'
<1>1. /\ s \notin DOMAIN own /\ base = <<>> /\ Append1(s) /\ adding = Empty
      /\ UNCHANGED <<base, index, indexing, adding, reads, cache>>
  BY DEF AddWithoutBase, Resting
<1>2. indexing = 0
  BY <1>1 DEF StringsInv
<1>3. \A i \in DOMAIN base : base[i] # s
  BY <1>1
<1>4. QED
  BY <1>1, <1>2, <1>3, AppendKeeps

----------------------------------------------------------------------------
(* The steps to another generation.                                        *)

LEMMA HydrateKeeps ==
  ASSUME NEW t \in Seq(Strings \cup {Empty}), Len(t) \in 1 .. MaxSize, t[1] = Empty,
         \A i \in DOMAIN t : Normal[t[i]] = t[i],
         \A i, j \in DOMAIN t : t[i] = t[j] /\ Plain(t[i]) => i = j,
         Hydrate(t), fresh' = {},
         kept' \subseteq [string : Strings \cup {Empty}, id : Nat],
         \A r \in kept' : r.id < Len(t) /\ t[r.id + 1] = Normal[r.string]
  PROVE  StringsInv'
<1>1. /\ own' = <<>> /\ index' = <<>> /\ indexing' = 0 /\ adding' = Empty
      /\ reads' = 0 /\ cache' = <<>> /\ got' = NotRead
  BY DEF Hydrate
<1>2. /\ Size' = Len(t) /\ BaseCount' = IF Len(t) > 1 THEN Len(t) ELSE 0
      /\ \A id \in 0 .. Len(t) - 1 : Resolve(id)' = t[id + 1]
  <2>1. CASE Len(t) > 1
    <3>1. base' = t /\ list' = <<>>
      BY <2>1 DEF Hydrate
    <3>2. BaseCount' = Len(t) /\ Size' = Len(t)
      BY <3>1 DEF BaseCount, Size
    <3>3. QED
      BY <2>1, <3>1, <3>2 DEF Resolve
  <2>2. CASE ~(Len(t) > 1)
    <3>1. base' = <<>> /\ list' = <<Empty>> /\ Len(t) = 1
      BY <2>2 DEF Hydrate
    <3>2. BaseCount' = 0 /\ Size' = 1
      BY <3>1 DEF BaseCount, Size
    <3>3. \A id \in 0 .. 0 : Resolve(id)' = Empty
      BY <3>1, <3>2 DEF Resolve
    <3>4. QED
      BY <3>1, <3>2, <3>3
  <2>3. QED
    BY <2>1, <2>2
<1>3. StringsTypeOK'
  <2>1. CASE Len(t) > 1
    <3>1. base' = t /\ list' = <<>>
      BY <2>1 DEF Hydrate
    <3>2. base' # <<>>
      BY <2>1, <3>1
    <3>3. QED
      BY <1>1, <1>2, <2>1, <3>1, <3>2 DEF StringsTypeOK
  <2>2. CASE ~(Len(t) > 1)
    <3>1. base' = <<>> /\ list' = <<Empty>>
      BY <2>2 DEF Hydrate
    <3>2. QED
      BY <1>1, <1>2, <2>2, <3>1 DEF StringsTypeOK
  <2>3. QED
    BY <2>1, <2>2
<1>4. Indexed' /\ CacheIsRight' /\ GotIsRight'
  BY <1>1 DEF Indexed, CacheIsRight, GotIsRight, NotRead
<1>5. OwnIsRight'
  <2>1. \A i \in DOMAIN list' : base' = <<>> /\ ~(i > 1)
    BY DEF Hydrate
  <2>2. QED
    BY <1>1, <2>1 DEF OwnIsRight
<1>6. KeptAreInBase'
  <2>1. base' # <<>> => BaseCount' = Len(t)
    BY <1>2 DEF Hydrate
  <2>2. QED
    BY <2>1 DEF KeptAreInBase
<1>7. NoTwins'
  <2>1. ASSUME NEW i \in 0 .. Len(t) - 1, NEW j \in 0 .. Len(t) - 1,
               t[i + 1] = t[j + 1], Plain(t[i + 1])
        PROVE  i = j
    <3>1. i + 1 \in DOMAIN t /\ j + 1 \in DOMAIN t
      OBVIOUS
    <3>2. i + 1 = j + 1
      BY <2>1, <3>1
    <3>3. QED
      BY <3>2
  <2>2. ASSUME NEW i \in 0 .. Len(t) - 1, NEW j \in 0 .. Len(t) - 1,
               Resolve(i)' = Resolve(j)', Plain(Resolve(i)')
        PROVE  i = j
    BY <2>1, <2>2, <1>2
  <2>3. QED
    BY <2>2, <1>2 DEF NoTwins, Plain
<1>8. IdsStay'
  <2>1. ASSUME NEW r \in kept'
        PROVE  r.id < Size' /\ Resolve(r.id)' = Normal[r.string]
    <3>1. r.id \in 0 .. Len(t) - 1 /\ t[r.id + 1] = Normal[r.string]
      OBVIOUS
    <3>2. QED
      BY <3>1, <1>2
  <2>2. QED
    BY <2>1 DEF IdsStay
<1>9. QED
  BY <1>1, <1>2, <1>3, <1>4, <1>5, <1>6, <1>7, <1>8 DEF StringsInv

(* The table written holds every id's string as it is stored.              *)
LEMMA SerializedHolds ==
  ASSUME StringsInv
  PROVE  /\ Serialized \in Seq(Strings \cup {Empty}) /\ Len(Serialized) = Size
         /\ \A id \in 0 .. Size - 1 : Serialized[id + 1] = Normal[Resolve(id)]
<1>1. /\ BaseCount \in Nat /\ Len(list) \in Nat /\ BaseCount = Len(base)
      /\ Size = BaseCount + Len(list)
      /\ base \in Seq(Strings \cup {Empty}) /\ list \in Seq(Strings \cup {Empty})
  BY Sizes DEF BaseCount, StringsInv, StringsTypeOK
<1>2. /\ Encoded \in Seq(Strings \cup {Empty}) /\ Len(Encoded) = Len(list)
      /\ \A i \in 1 .. Len(list) : Encoded[i] = Normal[list[i]]
  <2>1. \A i \in 1 .. Len(list) : Normal[list[i]] \in Strings \cup {Empty}
    BY <1>1
  <2>2. Encoded = [i \in 1 .. Len(list) |-> Normal[list[i]]]
    BY <1>1 DEF Encoded
  <2>3. QED
    BY <2>1, <2>2, <1>1
<1>3. Serialized \in Seq(Strings \cup {Empty}) /\ Len(Serialized) = Size
  <2>1. CASE base # <<>> /\ list = <<>>
    BY <2>1, <1>1 DEF Serialized
  <2>2. CASE ~(base # <<>> /\ list = <<>>)
    <3>1. Serialized = base \o Encoded
      BY <2>2 DEF Serialized
    <3>2. /\ base \o Encoded \in Seq(Strings \cup {Empty})
          /\ Len(base \o Encoded) = Len(base) + Len(Encoded)
      BY <1>1, <1>2, ConcatProperties
    <3>3. QED
      BY <3>1, <3>2, <1>1, <1>2
  <2>3. QED
    BY <2>1, <2>2
<1>4. ASSUME NEW id \in 0 .. Size - 1
      PROVE  Serialized[id + 1] = Normal[Resolve(id)]
  <2>1. CASE id < BaseCount
    <3>1. Resolve(id) = base[id + 1] /\ Normal[base[id + 1]] = base[id + 1]
      BY <2>1, ResolveTyped DEF StringsInv, StringsTypeOK
    <3>2. Serialized[id + 1] = base[id + 1]
      BY <2>1, <1>1, <1>2 DEF Serialized
    <3>3. QED
      BY <3>1, <3>2
  <2>2. CASE ~(id < BaseCount)
    <3> DEFINE i == id - BaseCount + 1
    <3>1. Resolve(id) = list[i] /\ i \in 1 .. Len(list) /\ id + 1 = BaseCount + i
      BY <2>2, <1>1, ResolveTyped DEF StringsInv
    <3>2. list # <<>>
      BY <3>1
    <3> HIDE DEF i
    <3>3. Serialized = base \o Encoded
      BY <3>2 DEF Serialized
    <3>4. (base \o Encoded)[BaseCount + i] = Encoded[i]
      BY <3>1, <1>1, <1>2
    <3>5. QED
      BY <3>1, <3>3, <3>4, <1>2
  <2>3. QED
    BY <2>1, <2>2
<1>5. QED
  BY <1>3, <1>4

LEMMA NextGenerationKeeps ==
  ASSUME StringsInv, NextGeneration
  PROVE  StringsInv'
<1> DEFINE t == Serialized
<1>1. /\ Hydrate(t) /\ fresh' = {} /\ kept' = kept \cup fresh
  BY DEF NextGeneration
<1>2. /\ t \in Seq(Strings \cup {Empty}) /\ Len(t) = Size
      /\ \A id \in 0 .. Size - 1 : t[id + 1] = Normal[Resolve(id)]
  BY SerializedHolds
<1>3. /\ Size \in Nat /\ Size >= 1 /\ Resolve(0) = Empty
      /\ \A id \in 0 .. Size - 1 : Resolve(id) \in Strings \cup {Empty}
  BY Sizes, ResolveTyped DEF StringsInv
<1> HIDE DEF t
<1>4. Len(t) \in 1 .. MaxSize
  BY <1>2, <1>3 DEF StringsInv
<1>5. t[1] = Empty
  BY <1>2, <1>3
<1>6. \A i \in DOMAIN t : i - 1 \in 0 .. Size - 1 /\ (i - 1) + 1 = i
  BY <1>2, <1>3
<1>7. \A i \in DOMAIN t : t[i] = Normal[Resolve(i - 1)]
  BY <1>2, <1>6
<1>8. \A i \in DOMAIN t : Normal[t[i]] = t[i]
  BY <1>3, <1>6, <1>7, ReadsAsTyped
<1>9. ASSUME NEW i \in DOMAIN t, NEW j \in DOMAIN t, t[i] = t[j], Plain(t[i])
      PROVE  i = j
  <2>1. t[i] \in Strings \cup {Empty}
    BY <1>2
  <2>2. Resolve(i - 1) = t[i] /\ Resolve(j - 1) = t[i]
    BY <2>1, <1>3, <1>6, <1>7, <1>9, PlainStays
  <2>3. i - 1 = j - 1
    BY <2>2, <1>6, <1>9 DEF StringsInv, NoTwins
  <2>4. QED
    BY <2>3, <1>2
<1>10. kept' \subseteq [string : Strings \cup {Empty}, id : Nat]
  BY <1>1 DEF StringsInv, StringsTypeOK
<1>11. ASSUME NEW r \in kept'
       PROVE  r.id < Len(t) /\ t[r.id + 1] = Normal[r.string]
  <2>1. r.string \in Strings \cup {Empty} /\ r.id \in Nat
    BY <1>10
  <2>2. r.id < Size /\ Resolve(r.id) \in ReadsAs(r.string)
    BY <1>1 DEF StringsInv, IdsStay, ReadsAs
  <2>3. Normal[Resolve(r.id)] = Normal[r.string]
    BY <2>1, <2>2, ReadsAsTyped
  <2>4. QED
    BY <2>1, <2>2, <2>3, <1>2, <1>3
<1>12. QED
  BY <1>1, <1>2, <1>4, <1>5, <1>8, <1>9, <1>10, <1>11, HydrateKeeps

LEMMA DiscardKeeps ==
  ASSUME StringsInv, Discard
  PROVE  StringsInv'
<1>1. Hydrate(base) /\ fresh' = {} /\ kept' = kept /\ base # <<>>
  BY DEF Discard
<1>2. /\ base \in Seq(Strings \cup {Empty}) /\ BaseCount = Len(base)
      /\ BaseCount \in Nat /\ BaseCount > 1 /\ BaseCount <= Size /\ Size \in Nat
      /\ base[1] = Empty /\ \A i \in DOMAIN base : Normal[base[i]] = base[i]
  BY <1>1, Sizes DEF StringsInv, StringsTypeOK, BaseCount
<1>3. Len(base) \in 1 .. MaxSize
  BY <1>2 DEF StringsInv
<1>4. \A i \in DOMAIN base : i - 1 \in 0 .. Size - 1 /\ Resolve(i - 1) = base[i]
  BY <1>2, ResolveTyped DEF StringsInv
<1>5. ASSUME NEW i \in DOMAIN base, NEW j \in DOMAIN base,
             base[i] = base[j], Plain(base[i])
      PROVE  i = j
  <2>1. i - 1 = j - 1
    BY <1>4, <1>5 DEF StringsInv, NoTwins
  <2>2. QED
    BY <2>1, <1>2
<1>6. kept' \subseteq [string : Strings \cup {Empty}, id : Nat]
  BY <1>1 DEF StringsInv, StringsTypeOK
<1>7. ASSUME NEW r \in kept'
      PROVE  r.id < Len(base) /\ base[r.id + 1] = Normal[r.string]
  <2>1. r.id \in 0 .. Size - 1 /\ r.id < BaseCount /\ Resolve(r.id) = Normal[r.string]
    BY <1>1, <1>2, <1>6 DEF StringsInv, IdsStay, KeptAreInBase
  <2>2. QED
    BY <2>1, <1>2, ResolveTyped DEF StringsInv
<1>8. QED
  BY <1>1, <1>2, <1>3, <1>5, <1>6, <1>7, HydrateKeeps

LEMMA InitHolds == StringsInit => StringsInv
<1> SUFFICES ASSUME StringsInit PROVE StringsInv
  OBVIOUS
<1>1. /\ base = <<>> /\ list = <<Empty>> /\ own = <<>> /\ index = <<>> /\ indexing = 0
      /\ adding = Empty /\ reads = 0 /\ cache = <<>> /\ fresh = {} /\ kept = {}
      /\ got = NotRead
  BY DEF StringsInit
<1>2. BaseCount = 0 /\ Size = 1
  BY <1>1 DEF BaseCount, Size
<1>3. StringsTypeOK
  BY <1>1, <1>2 DEF StringsTypeOK
<1>4. Indexed /\ CacheIsRight /\ GotIsRight /\ KeptAreInBase /\ IdsStay
  BY <1>1 DEF Indexed, CacheIsRight, GotIsRight, KeptAreInBase, IdsStay
<1>5. OwnIsRight /\ NoTwins
  BY <1>1, <1>2 DEF OwnIsRight, NoTwins
<1>6. QED
  BY <1>1, <1>2, <1>3, <1>4, <1>5 DEF StringsInv

LEMMA StepKeeps ==
  ASSUME StringsInv, [StringsNext]_stringsVars
  PROVE  StringsInv'
<1>1. CASE AddEmpty
  BY <1>1, AddEmptyKeeps
<1>2. ASSUME NEW s \in Strings, AddAgain(s) PROVE StringsInv'
  BY <1>2, AddAgainKeeps
<1>3. ASSUME NEW s \in Strings, AddWithoutBase(s) PROVE StringsInv'
  BY <1>3, AddWithoutBaseKeeps
<1>4. ASSUME NEW s \in Strings, LookInBase(s) PROVE StringsInv'
  BY <1>4, LookInBaseKeeps
<1>5. CASE PlaceId
  BY <1>5, PlaceIdKeeps
<1>6. CASE InBase
  BY <1>6, InBaseKeeps
<1>7. CASE NotInBase
  BY <1>7, NotInBaseKeeps
<1>8. \A r \in kept \cup fresh : r.id \in Nat
  BY DEF StringsInv, StringsTypeOK
<1>9. ASSUME NEW id \in {r.id : r \in kept \cup fresh}, GetInBase(id) \/ GetInList(id)
      PROVE  StringsInv'
  <2>1. id \in Nat
    BY <1>8
  <2>2. QED
    BY <1>9, <2>1, GetInBaseKeeps, GetInListKeeps
<1>10. CASE NextGeneration
  BY <1>10, NextGenerationKeeps
<1>11. CASE Discard
  BY <1>11, DiscardKeeps
<1>12. CASE UNCHANGED stringsVars
  <2>1. UNCHANGED <<base, list, own, index, indexing, adding, reads, cache, fresh, kept, got>>
    BY <1>12 DEF stringsVars, interner, stringsHistory
  <2>2. IdsStay' /\ KeptAreInBase' /\ Indexed' /\ OwnIsRight' /\ NoTwins'
        /\ Size' <= MaxSize
    BY <2>1, IdsKept, IndexKept, OwnKept, TablesKept
  <2>3. CacheIsRight' /\ GotIsRight' /\ StringsTypeOK'
    BY <2>1 DEF StringsInv, CacheIsRight, GotIsRight, NotRead, Resolve, Size, BaseCount,
                StringsTypeOK
  <2>4. QED
    BY <2>1, <2>2, <2>3 DEF StringsInv
<1>13. QED
  BY <1>1, <1>2, <1>3, <1>4, <1>5, <1>6, <1>7, <1>9, <1>10, <1>11, <1>12 DEF StringsNext

----------------------------------------------------------------------------

(* The string table and its interner keep the invariant, in any number of  *)
(* generations (strings.ts:20-108, 204-262).                               *)
THEOREM TablesAreRight == StringsSpec => []StringsInv
<1>1. StringsInit => StringsInv
  BY InitHolds
<1>2. StringsInv /\ [StringsNext]_stringsVars => StringsInv'
  BY StepKeeps
<1>3. QED
  BY <1>1, <1>2, PTL DEF StringsSpec

(* The state is of its type (strings.ts:20-108, 204-262).                  *)
THEOREM StringsTypeCorrect == StringsSpec => []StringsTypeOK
<1>1. StringsInv => StringsTypeOK
  BY DEF StringsInv
<1>2. QED
  BY <1>1, TablesAreRight, PTL

(* An id that was handed out stands for its string, then and in every      *)
(* later generation (strings.ts:58-76, 86-108).                            *)
THEOREM IdsAlwaysStay == StringsSpec => []IdsStay
<1>1. StringsInv => IdsStay
  BY DEF StringsInv
<1>2. QED
  BY <1>1, TablesAreRight, PTL

(* A string that is not stored as another one, nor another one as it, has  *)
(* one id (strings.ts:58-76, 231-262).                                     *)
THEOREM OneIdAlways == StringsSpec => []OneIdEach
<1>1. StringsInv => OneIdEach
  <2> SUFFICES ASSUME StringsInv,
                      NEW q \in fresh \cup kept, NEW r \in fresh \cup kept,
                      q.string = r.string, Plain(q.string) \/ q.string = Empty
               PROVE  q.id = r.id
    BY DEF OneIdEach
  <2>1. /\ q.string \in Strings \cup {Empty} /\ q.id \in Nat /\ r.id \in Nat
    BY DEF StringsInv, StringsTypeOK
  <2>2. Plain(q.string)
    BY DEF Plain
  <2>3. /\ q.id < Size /\ Resolve(q.id) \in ReadsAs(q.string)
        /\ r.id < Size /\ Resolve(r.id) \in ReadsAs(q.string)
    BY DEF StringsInv, IdsStay, ReadsAs
  <2>4. Resolve(q.id) = q.string /\ Resolve(r.id) = q.string
    BY <2>1, <2>2, <2>3, PlainStays
  <2>5. q.id \in 0 .. Size - 1 /\ r.id \in 0 .. Size - 1
    BY <2>1, <2>3, Sizes DEF StringsInv
  <2>6. QED
    BY <2>2, <2>4, <2>5 DEF StringsInv, NoTwins
<1>2. QED
  BY <1>1, TablesAreRight, PTL

(* get of an id that was handed out gives its string: from the base, from  *)
(* what is cached of it and from the list (strings.ts:78-91, 204-222).     *)
THEOREM GetsAreRight == StringsSpec => []GetsWhatWasAdded
<1>1. StringsInv => GetsWhatWasAdded
  <2> SUFFICES ASSUME StringsInv, NEW r \in fresh \cup kept,
                      got.id = r.id, got # NotRead
               PROVE  got.string \in ReadsAs(r.string)
    BY DEF GetsWhatWasAdded
  <2>1. got.string = Resolve(r.id)
    BY DEF StringsInv, GotIsRight
  <2>2. Resolve(r.id) \in ReadsAs(r.string)
    BY DEF StringsInv, IdsStay, ReadsAs
  <2>3. QED
    BY <2>1, <2>2
<1>2. QED
  BY <1>1, TablesAreRight, PTL

(* Ids stay, and what get says of one is what it was handed out for        *)
(* (strings.ts:58-91, 204-222).                                            *)
THEOREM IdsAlwaysResolve == StringsSpec => []IdsResolve
<1>1. IdsStay /\ GetsWhatWasAdded <=> IdsResolve
  BY DEF IdsResolve
<1>2. QED
  BY <1>1, IdsAlwaysStay, GetsAreRight, PTL
=============================================================================

-------------------------- MODULE GenerateProofs --------------------------
(***************************************************************************)
(* Proofs about Generate.tla for any layouts.                              *)
(***************************************************************************)
EXTENDS Generate, MigrationProofs

(* A rename the questions led to goes from a field that is gone to a new   *)
(* field of the same type.                                                 *)
LEMMA AnswersFit ==
  ASSUME NEW before, NEW after, NEW r \in Answers(before, after), NEW n \in DOMAIN r
  PROVE  /\ n \in DOMAIN before /\ n \notin DOMAIN after
         /\ r[n] \in DOMAIN after /\ r[n] \notin DOMAIN before
         /\ before[n] = after[r[n]]
<1>1. <<n, r[n]>> \in Candidates(before, after)
  BY DEF Answers
<1>2. QED
  BY <1>1 DEF Candidates, Added, Removed

(* The signature a field arrives with is the one it had, unless the field  *)
(* it verifies through is renamed; and a renamed field is gone.            *)
LEMMA RemapKeeps ==
  ASSUME NEW before, NEW after, NEW r \in Answers(before, after), NEW v,
         NEW k \in DOMAIN after, WellFormed(after), IsLayout(after)
  PROVE  Remap(Generated(v, before, after, r), after[k]) = after[k]
<1> DEFINE m == Generated(v, before, after, r)
<1>1. m.renames = r
  BY DEF Generated
<1> HIDE DEF m
<1>2. CASE after[k].kind = "lookup" /\ after[k].via # ""
  <2>1. after[k].via \in DOMAIN after
    BY <1>2 DEF WellFormed
  <2>2. after[k].via \notin DOMAIN r
    BY <2>1, AnswersFit
  <2>3. NewName(m, after[k].via) = after[k].via
    BY <1>1, <2>2 DEF NewName
  <2>4. after[k] \in Signature
    BY DEF IsLayout
  <2>5. [after[k] EXCEPT !.via = after[k].via] = after[k]
    BY <2>4 DEF Signature
  <2>6. QED
    BY <1>2, <2>3, <2>5 DEF Remap, m
<1>3. CASE ~(after[k].kind = "lookup" /\ after[k].via # "")
  BY <1>3 DEF Remap, m
<1>4. QED
  BY <1>2, <1>3

(* What generate writes leads from the layout it compared with to the      *)
(* layout of the schema, if no two fields were answered to become one.     *)
THEOREM GenerationLands ==
  ASSUME NEW before, NEW after, NEW r \in Answers(before, after), OneToOne(r), NEW v,
         WellFormed(after), IsLayout(after)
  PROVE  /\ Generated(v, before, after, r).listed = {}
         /\ Derivable(Generated(v, before, after, r), before)
         /\ Derived(Generated(v, before, after, r), before) = after
<1> DEFINE m == Generated(v, before, after, r)
<1>1. m.renames = r /\ m.drops = ToDrop(before, after, r) /\ m.listed = {}
      /\ m.defines = [n \in ToDefine(before, after, r) |-> after[n]]
  BY DEF Generated
<1>r. \A k \in DOMAIN after : Remap(m, after[k]) = after[k]
  BY RemapKeeps
<1> HIDE DEF m
<1>2. Kept(m, before) = (DOMAIN before \cap DOMAIN after) \cup DOMAIN r
  <2>1. DOMAIN r \subseteq DOMAIN before
    BY AnswersFit
  <2>2. QED
    BY <1>1, <2>1, AnswersFit DEF Kept, ToDrop, Removed
<1>3. \A n \in Kept(m, before) :
        /\ NewName(m, n) = IF n \in DOMAIN r THEN r[n] ELSE n
        /\ NewName(m, n) \in DOMAIN after
  BY <1>1, <1>2, AnswersFit DEF NewName
<1>4. Derivable(m, before)
  <2> SUFFICES ASSUME NEW n \in Kept(m, before), NEW k \in Kept(m, before),
                      NewName(m, n) = NewName(m, k)
               PROVE  n = k
    BY DEF Derivable
  <2>1. CASE n \in DOMAIN r /\ k \in DOMAIN r
    BY <1>3, <2>1 DEF OneToOne
  <2>2. CASE n \in DOMAIN r /\ k \notin DOMAIN r
    BY <1>2, <1>3, <2>2, AnswersFit
  <2>3. CASE n \notin DOMAIN r /\ k \in DOMAIN r
    BY <1>2, <1>3, <2>3, AnswersFit
  <2>4. CASE n \notin DOMAIN r /\ k \notin DOMAIN r
    BY <1>3, <2>4
  <2>5. QED
    BY <2>1, <2>2, <2>3, <2>4
<1> DEFINE arriving == {NewName(m, n) : n \in Kept(m, before)}
           coming(k) == CHOOSE n \in Kept(m, before) : NewName(m, n) = k
<1>5. Defined(m) = ToDefine(before, after, r)
  BY <1>1 DEF Defined
<1>6. arriving \cup Defined(m) = DOMAIN after
  <2>1. arriving \subseteq DOMAIN after
    BY <1>3
  <2>2. Defined(m) \subseteq DOMAIN after
    BY <1>5 DEF ToDefine, Added, Changed
  <2>3. ASSUME NEW k \in DOMAIN after PROVE k \in arriving \cup Defined(m)
    <3>1. CASE k \in DOMAIN before
      <4>1. k \in Kept(m, before) /\ k \notin DOMAIN r
        BY <1>2, <2>3, <3>1, AnswersFit
      <4>2. NewName(m, k) = k
        BY <1>3, <4>1
      <4>3. QED
        BY <4>1, <4>2
    <3>2. CASE k \notin DOMAIN before /\ k \in Arriving(r)
      <4>1. PICK n \in DOMAIN r : r[n] = k
        BY <3>2 DEF Arriving
      <4>2. n \in Kept(m, before) /\ NewName(m, n) = k
        BY <1>2, <1>3, <4>1
      <4>3. QED
        BY <4>2
    <3>3. CASE k \notin DOMAIN before /\ k \notin Arriving(r)
      BY <1>5, <3>3 DEF ToDefine, Added
    <3>4. QED
      BY <3>1, <3>2, <3>3
  <2>4. QED
    BY <2>1, <2>2, <2>3
<1>7. ASSUME NEW k \in DOMAIN after
      PROVE  (IF k \in Defined(m) THEN Definition(m, k) ELSE Remap(m, before[coming(k)]))
                = after[k]
  <2>1. CASE k \in Defined(m)
    BY <1>1, <1>5, <2>1 DEF Definition
  <2>2. CASE k \notin Defined(m)
    <3>1. PICK n \in Kept(m, before) : NewName(m, n) = k
      BY <1>6, <2>2
    <3>2. coming(k) = n
      BY <1>4, <3>1 DEF Derivable
    <3>3. before[n] = after[k]
      <4>1. CASE n \in DOMAIN r
        BY <1>3, <3>1, <4>1, AnswersFit
      <4>2. CASE n \notin DOMAIN r
        <5>1. n = k /\ n \in DOMAIN before \cap DOMAIN after
          BY <1>2, <1>3, <3>1, <4>2
        <5>2. n \notin Changed(before, after)
          BY <1>5, <2>2, <5>1 DEF ToDefine
        <5>3. QED
          BY <5>1, <5>2 DEF Changed
      <4>3. QED
        BY <4>1, <4>2
    <3>4. QED
      BY <1>r, <2>2, <3>2, <3>3
  <2>3. QED
    BY <2>1, <2>2
<1>8. Derived(m, before) =
        [k \in arriving \cup Defined(m) |->
            IF k \in Defined(m) THEN Definition(m, k) ELSE Remap(m, before[coming(k)])]
  BY DEF Derived
<1>9. Derived(m, before) = [k \in DOMAIN after |-> after[k]]
  <2> HIDE DEF arriving, coming
  <2>1. QED
    BY <1>6, <1>7, <1>8
<1>10. after = [k \in DOMAIN after |-> after[k]]
  BY DEF IsLayout
<1>11. QED
  BY <1>1, <1>4, <1>9, <1>10 DEF m
----------------------------------------------------------------------------
(* A project whose migrations were all generated.                          *)

(* The layout of each version, and the answers between two of them.        *)
IsHistory(layouts, answers, last) ==
    /\ \A v \in 0 .. last : IsLayout(layouts[v]) /\ WellFormed(layouts[v])
    /\ \A v \in 0 .. last - 1 :
          answers[v] \in Answers(layouts[v], layouts[v + 1]) /\ OneToOne(answers[v])

Step(layouts, answers, v) == Generated(v, layouts[v], layouts[v + 1], answers[v])

Steps(layouts, answers, last) == [i \in 1 .. last |-> Step(layouts, answers, i - 1)]

(* A scenario of such a project, with a file from any of its versions.     *)
Managed(s, layouts, answers) ==
    LET last == s.schema.version
    IN  /\ IsHistory(layouts, answers, last)
        /\ s.schema.hash.layout = layouts[last]
        /\ s.schema.migrations = Steps(layouts, answers, last)
        /\ s.file.version \in 0 .. last - 1
        /\ s.file.hash.layout = layouts[s.file.version]

NeverRepointed(layouts, answers, last) ==
    \A v \in 0 .. last - 1 : ~Repointed(layouts[v], layouts[v + 1], answers[v])

(* The bytes are where the next migration starts, and it leads to the next *)
(* layout.                                                                 *)
OnTheWay(layouts) ==
    /\ bytes.version \in 0 .. schema.version - 1
    /\ Layout = layouts[bytes.version]
    /\ IsChain(chain, bytes.version, schema.version)

GenState(layouts, answers) ==
    /\ IsHistory(layouts, answers, schema.version)
    /\ Target = layouts[schema.version]
    /\ schema.migrations = Steps(layouts, answers, schema.version)
    /\ \/ Matches(file)
       \/ /\ file.version \in 0 .. schema.version - 1
          /\ file.hash.layout = layouts[file.version]
    /\ phase \in {"step", "up", "check"} => OnTheWay(layouts)
    /\ phase \in {"up", "check"} => compiled = layouts[bytes.version + 1]
    /\ GeneratedLands

(* The next migration is the generated one that starts at the bytes.       *)
LEMMA NextIsGenerated ==
  ASSUME EngineInv, NEW layouts, NEW answers, GenState(layouts, answers),
         phase \in {"step", "up", "check"}
  PROVE  /\ Migration = Step(layouts, answers, bytes.version)
         /\ bytes.version \in 0 .. schema.version - 1
         /\ chain \in Seq(Declared(schema.migrations)) /\ chain # <<>>
         /\ chain[1] = Migration
         /\ IsLast <=> bytes.version + 1 = schema.version
<1> DEFINE v == bytes.version
           last == schema.version
<1>1. /\ chain \in Seq(Declared(schema.migrations)) /\ chain # <<>>
      /\ last \in Nat /\ chain[Len(chain)].to = last
  BY DEF EngineInv
<1>2. v \in 0 .. last - 1 /\ IsChain(chain, v, last)
  BY DEF GenState, OnTheWay
<1>3. Len(chain) \in Nat /\ Len(chain) >= 1 /\ Head(chain) = chain[1]
      /\ \A i \in 1 .. Len(chain) : chain[i] \in Declared(schema.migrations)
  <2>1. Len(chain) \in Nat \ {0}
    BY <1>1, EmptySeq
  <2>2. Head(chain) = chain[1]
    BY <1>1, HeadTailProperties
  <2>3. QED
    BY <1>1, <2>1, <2>2
<1>4. \A m \in Declared(schema.migrations) :
          \E u \in 0 .. last - 1 :
              m = Step(layouts, answers, u) /\ m.from = u /\ m.to = u + 1
  <2> SUFFICES ASSUME NEW i \in DOMAIN schema.migrations
               PROVE  \E u \in 0 .. last - 1 :
                         /\ schema.migrations[i] = Step(layouts, answers, u)
                         /\ schema.migrations[i].from = u /\ schema.migrations[i].to = u + 1
    BY DEF Declared
  <2>1. schema.migrations = Steps(layouts, answers, last)
    BY DEF GenState
  <2>2. i \in 1 .. last /\ schema.migrations[i] = Step(layouts, answers, i - 1)
    BY <1>1, <2>1 DEF Steps
  <2>3. i - 1 \in 0 .. last - 1 /\ i - 1 \in Int
    BY <1>1, <2>2
  <2>4. \A u \in 0 .. last - 1 : Step(layouts, answers, u).from = u
                                 /\ Step(layouts, answers, u).to = u + 1
    BY DEF Step, Generated
  <2>5. QED
    BY <2>2, <2>3, <2>4
<1>5. chain[1] = Step(layouts, answers, v) /\ chain[1].to = v + 1
  <2>1. chain[1].from = v /\ chain[1] \in Declared(schema.migrations)
    BY <1>1, <1>2, <1>3 DEF IsChain, Leads
  <2>2. QED
    BY <1>4, <2>1
<1>6. IsLast <=> v + 1 = last
  <2>1. CASE Len(chain) = 1
    BY <1>1, <1>5, <2>1 DEF IsLast
  <2>2. CASE Len(chain) # 1
    <3>0. Len(chain) \in Nat /\ Len(chain) >= 1 /\ Len(chain) # 1
      BY <1>3, <2>2
    <3>a. \A k \in Nat : k >= 1 /\ k # 1 => 1 \in 1 .. k - 1 /\ 1 + 1 \in 1 .. k
      OBVIOUS
    <3>1. 1 \in 1 .. Len(chain) - 1 /\ 1 + 1 \in 1 .. Len(chain)
      BY <3>0, <3>a
    <3>2. chain[1].to = chain[1 + 1].from /\ chain[1 + 1].from < last
      BY <1>2, <3>1 DEF IsChain, Leads
    <3>3. QED
      BY <1>1, <1>2, <1>5, <2>2, <3>2 DEF IsLast
  <2>3. QED
    BY <2>1, <2>2
<1>7. QED
  BY <1>1, <1>2, <1>3, <1>5, <1>6 DEF Migration

(* It derives the next layout, and its renames start at fields that are    *)
(* there.                                                                  *)
LEMMA NextLands ==
  ASSUME EngineInv, NEW layouts, NEW answers, GenState(layouts, answers),
         phase \in {"step", "up", "check"}
  PROVE  /\ Migration.listed = {}
         /\ Derivable(Migration, Layout)
         /\ Derived(Migration, Layout) = layouts[bytes.version + 1]
         /\ Careful(Migration, Layout)
<1> DEFINE v == bytes.version
           r == answers[v]
<1>1. /\ Migration = Generated(v, layouts[v], layouts[v + 1], r)
      /\ v \in 0 .. schema.version - 1 /\ v + 1 \in 0 .. schema.version
      /\ Layout = layouts[v]
  <2>1. schema.version \in Nat
    BY DEF EngineInv
  <2>2. Migration = Step(layouts, answers, v) /\ v \in 0 .. schema.version - 1
    BY NextIsGenerated
  <2>3. Layout = layouts[v]
    BY DEF GenState, OnTheWay
  <2>4. QED
    BY <2>1, <2>2, <2>3 DEF Step
<1>2. /\ r \in Answers(layouts[v], layouts[v + 1]) /\ OneToOne(r)
      /\ WellFormed(layouts[v + 1]) /\ IsLayout(layouts[v + 1])
  BY <1>1 DEF GenState, IsHistory
<1>3. Careful(Migration, Layout)
  <2>1. Migration.renames = r /\ Migration.drops = ToDrop(layouts[v], layouts[v + 1], r)
    BY <1>1 DEF Generated
  <2>2. DOMAIN r \subseteq DOMAIN layouts[v]
    BY <1>2, AnswersFit
  <2>3. QED
    BY <1>1, <2>1, <2>2 DEF Careful, Kept, ToDrop
<1>4. QED
  BY <1>1, <1>2, <1>3, GenerationLands

LEMMA FunctionIsSequence ==
  ASSUME NEW S, NEW n \in Nat, NEW f \in [1 .. n -> S]
  PROVE  f \in Seq(S) /\ Len(f) = n
  OBVIOUS

(* Whatever version a file is from, there is a chain.                      *)
LEMMA HistoryResolves ==
  ASSUME NEW layouts, NEW answers, NEW last \in Nat, NEW v \in 0 .. last - 1
  PROVE  /\ Indexable(Steps(layouts, answers, last))
         /\ ChainsIn(Steps(layouts, answers, last), v, last) # {}
<1> DEFINE array == Steps(layouts, answers, last)
           p == [i \in 1 .. last - v |-> array[v + i]]
<1>1. /\ array = [i \in 1 .. last |-> array[i]] /\ DOMAIN array = 1 .. last
      /\ \A i \in 1 .. last : array[i].from = i - 1 /\ array[i].to = i
  BY DEF Steps, Step, Generated
<1>2. Len(array) = last
  <2> HIDE DEF array
  <2>1. QED
    BY <1>1
<1>3. Indexable(array)
  <2> HIDE DEF array
  <2>1. QED
    BY <1>1 DEF Indexable, MovesForward
<1>4. /\ \A i \in 1 .. last - v : v + i \in 1 .. last
      /\ last - v \in Nat /\ last - v >= 1 /\ last - v \in 0 .. last
  OBVIOUS
<1>5. /\ \A i \in 1 .. last - v :
             p[i] \in Declared(array) /\ p[i].from = v + i - 1 /\ p[i].to = v + i
      /\ p \in [1 .. last - v -> Declared(array)]
  <2> HIDE DEF array
  <2>1. QED
    BY <1>1, <1>4 DEF Declared
<1> HIDE DEF p, array
<1>6. Len(p) = last - v /\ p # <<>>
  <2>1. p \in Seq(Declared(array)) /\ Len(p) = last - v
    BY <1>4, <1>5, FunctionIsSequence
  <2>2. QED
    BY <2>1, <1>4
<1>7. IsChain(p, v, last)
  <2>1. p[1].from = v /\ p[Len(p)].to = last
    <3>1. 1 \in 1 .. last - v /\ last - v \in 1 .. last - v
      BY <1>4
    <3>2. p[1].from = v + 1 - 1 /\ p[last - v].to = v + (last - v)
      BY <1>5, <3>1
    <3>3. QED
      BY <1>6, <3>2
  <2>2. \A i \in 1 .. Len(p) - 1 : p[i].to = p[i + 1].from
    <3> SUFFICES ASSUME NEW i \in 1 .. last - v - 1 PROVE p[i].to = p[i + 1].from
      BY <1>6
    <3>1. i \in 1 .. last - v /\ i + 1 \in 1 .. last - v /\ v + (i + 1) - 1 = v + i
      BY <1>4
    <3>2. QED
      BY <1>5, <3>1
  <2>3. \A i \in 1 .. Len(p) : p[i].from < last
    BY <1>4, <1>5, <1>6
  <2>4. QED
    BY <1>6, <2>1, <2>2, <2>3 DEF IsChain, Leads
<1>8. p \in UNION {[1 .. n -> Declared(array)] : n \in 0 .. Len(array)}
  BY <1>2, <1>4, <1>5
<1>9. p \in ChainsIn(array, v, last)
  BY <1>7, <1>8 DEF ChainsIn
<1>10. QED
  BY <1>3, <1>9 DEF array

(* What is left of a chain leads on from where its first migration landed. *)
LEMMA TailIsChain ==
  ASSUME NEW S, NEW c \in Seq(S), c # <<>>, Len(c) # 1, NEW v, NEW w, IsChain(c, v, w)
  PROVE  IsChain(Tail(c), c[1].to, w) /\ c[1].to < w
<1>1. Len(c) \in Nat \ {0}
  BY EmptySeq
<1>2. /\ Tail(c) \in Seq(S) /\ Len(Tail(c)) = Len(c) - 1
      /\ \A i \in 1 .. Len(Tail(c)) : Tail(c)[i] = c[i + 1]
  BY HeadTailProperties
<1>3. /\ c[Len(c)].to = w
      /\ \A i \in 1 .. Len(c) - 1 : c[i].to = c[i + 1].from
      /\ \A i \in 1 .. Len(c) : c[i].from < w
  BY DEF IsChain, Leads
<1>4. /\ 1 \in 1 .. Len(Tail(c)) /\ Len(Tail(c)) \in 1 .. Len(Tail(c))
      /\ Len(Tail(c)) + 1 = Len(c) /\ Len(Tail(c)) \in Nat
  BY <1>1, <1>2
<1>5. Tail(c) # <<>>
  <2>1. Len(<<>>) = 0
    BY EmptySeq
  <2>2. Len(Tail(c)) # 0
    BY <1>4
  <2>3. QED
    BY <2>1, <2>2
<1>6. Tail(c)[1] = c[1 + 1] /\ Tail(c)[Len(Tail(c))] = c[Len(c)]
  BY <1>2, <1>4
<1>7. c[1].to = c[1 + 1].from /\ c[1 + 1].from < w
  BY <1>3, <1>4
<1>8. \A i \in 1 .. Len(Tail(c)) - 1 : Tail(c)[i].to = Tail(c)[i + 1].from
  <2> SUFFICES ASSUME NEW i \in 1 .. Len(Tail(c)) - 1
               PROVE  Tail(c)[i].to = Tail(c)[i + 1].from
    OBVIOUS
  <2>1. i \in 1 .. Len(Tail(c)) /\ i + 1 \in 1 .. Len(Tail(c)) /\ i + 1 \in 1 .. Len(c) - 1
    BY <1>4
  <2>2. QED
    BY <1>2, <1>3, <2>1
<1>9. \A i \in 1 .. Len(Tail(c)) : Tail(c)[i].from < w
  <2> SUFFICES ASSUME NEW i \in 1 .. Len(Tail(c)) PROVE Tail(c)[i].from < w
    OBVIOUS
  <2>1. i + 1 \in 1 .. Len(c)
    BY <1>4
  <2>2. QED
    BY <1>2, <1>3, <2>1
<1>10. QED
  BY <1>3, <1>5, <1>6, <1>7, <1>8, <1>9 DEF IsChain, Leads

(* GenState speaks of the file and, on the way, of the bytes and the chain.*)
LEMMA GenStateKept ==
  ASSUME NEW layouts, NEW answers, GenState(layouts, answers),
         UNCHANGED <<schema, file>>,
         phase' \notin {"step", "up", "check"}, GeneratedLands'
  PROVE  GenState(layouts, answers)'
  BY DEF GenState, Target, Matches

LEMMA RefuseKeepsGen ==
  ASSUME NEW layouts, NEW answers, GenState(layouts, answers),
         NEW why, why \notin {"path", "unlisted", "twice", "misfit"}, Refuse(why)
  PROVE  GenState(layouts, answers)'
  BY GenStateKept DEF Refuse, GeneratedLands

LEMMA ForgetKeepsGen ==
  ASSUME NEW layouts, NEW answers, GenState(layouts, answers), Forget
  PROVE  GenState(layouts, answers)'
  BY GenStateKept DEF Forget, GeneratedLands

LEMMA SteppingKeepsGen ==
  ASSUME NEW layouts, NEW answers, GenState(layouts, answers),
         phase \in {"step", "up", "check"}, phase' \in {"step", "up", "check"},
         phase' # "step" => compiled' = layouts[bytes.version + 1],
         UNCHANGED <<schema, file, bytes, chain, reason>>
  PROVE  GenState(layouts, answers)'
<1>1. OnTheWay(layouts)'
  BY DEF GenState, OnTheWay, Layout
<1>2. QED
  BY <1>1 DEF GenState, Target, Matches, GeneratedLands

LEMMA FinishKeepsGen ==
  ASSUME EngineInv, NEW layouts, NEW answers, GenState(layouts, answers), FinishStep
  PROVE  GenState(layouts, answers)'
<1> DEFINE v == bytes.version
           last == schema.version
<1>1. /\ phase = "check" /\ UNCHANGED <<schema, file, reason>> /\ chain' = Tail(chain)
      /\ bytes'.version = Migration.to /\ bytes'.hash = Stamp
      /\ phase' = IF IsLast THEN "migrated" ELSE "step"
  BY DEF FinishStep, Rest
<1>2. /\ Migration = Step(layouts, answers, v) /\ v \in 0 .. last - 1
      /\ chain \in Seq(Declared(schema.migrations)) /\ chain # <<>>
      /\ chain[1] = Migration
  BY <1>1, NextIsGenerated
<1>3. CASE IsLast
  BY <1>1, <1>3, GenStateKept DEF GenState, GeneratedLands
<1>4. CASE ~IsLast
  <2>1. IsChain(Tail(chain), chain[1].to, last) /\ chain[1].to < last
    BY <1>1, <1>2, <1>4, TailIsChain DEF GenState, OnTheWay, IsLast
  <2>2. chain[1].to = v + 1
    BY <1>2 DEF Step, Generated
  <2>3. bytes'.version = v + 1 /\ v + 1 \in 0 .. last - 1
    <3>1. last \in Nat
      BY DEF EngineInv
    <3>2. QED
      BY <1>1, <1>2, <2>1, <2>2, <3>1
  <2>4. bytes'.hash.layout = layouts[v + 1]
    BY <1>1, <1>4 DEF Stamp, Hash, GenState
  <2>5. OnTheWay(layouts)'
    BY <1>1, <2>1, <2>2, <2>3, <2>4 DEF OnTheWay, Layout
  <2>6. QED
    BY <1>1, <1>4, <2>5 DEF GenState, Target, Matches, GeneratedLands
<1>5. QED
  BY <1>3, <1>4

LEMMA GenStep ==
  ASSUME EngineInv, NEW layouts, NEW answers, GenState(layouts, answers), [Next]_vars
  PROVE  GenState(layouts, answers)'
<1> USE DEF step, history
<1>1. CASE \/ RefuseTorn \/ RefuseMismatch \/ RefuseNoTable \/ RefuseConflict
           \/ RefuseLoss \/ UpThrow
  BY <1>1, RefuseKeepsGen DEF RefuseTorn, RefuseMismatch, RefuseNoTable, RefuseConflict,
     RefuseLoss, UpThrow
<1>2. ~RefusePath
  <2> SUFFICES ASSUME RefusePath PROVE FALSE
    OBVIOUS
  <2>1. /\ schema.version \in Nat /\ file.version \in 0 .. schema.version - 1
        /\ schema.migrations = Steps(layouts, answers, schema.version)
    BY DEF RefusePath, GenState, EngineInv
  <2>2. Resolvable
    BY <2>1, HistoryResolves DEF Resolvable
  <2>3. QED
    BY <2>2 DEF RefusePath
<1>3. ~RefuseUnlisted /\ ~RefuseTwice
  BY NextLands DEF RefuseUnlisted, RefuseTwice, Deriving
<1>4. ~RefuseMisfit
  <2> SUFFICES ASSUME RefuseMisfit PROVE FALSE
    OBVIOUS
  <2>1. phase = "step" /\ IsLast /\ Derived(Migration, Layout) # Target
    BY DEF RefuseMisfit, Deriving
  <2>2. Derived(Migration, Layout) = layouts[schema.version]
    BY <2>1, NextLands, NextIsGenerated
  <2>3. QED
    BY <2>1, <2>2 DEF GenState
<1>5. CASE ServeCurrent
  BY <1>5, GenStateKept DEF ServeCurrent, Read, GenState, GeneratedLands
<1>6. CASE StartMigrating
  <2>1. /\ file.version \in 0 .. schema.version - 1 /\ file.hash.layout = layouts[file.version]
        /\ chain' \in ChainsIn(schema.migrations, file.version, schema.version)
        /\ bytes' = file /\ phase' = "step" /\ UNCHANGED <<schema, file, reason>>
    BY <1>6 DEF StartMigrating, Read, GenState
  <2>2. IsChain(chain', file.version, schema.version)
    BY <2>1 DEF ChainsIn
  <2>3. OnTheWay(layouts)'
    BY <2>1, <2>2 DEF OnTheWay, Layout
  <2>4. QED
    BY <2>1, <2>3 DEF GenState, Target, Matches, GeneratedLands
<1>7. CASE BeginStep
  <2>1. /\ phase = "step" /\ phase' \in {"up", "check"} /\ compiled' = StepLayout
        /\ UNCHANGED <<schema, file, bytes, chain, reason>>
    BY <1>7 DEF BeginStep, Deriving
  <2>2. StepLayout = layouts[bytes.version + 1]
    BY <2>1, NextLands, NextIsGenerated DEF StepLayout, GenState
  <2>3. QED
    BY <2>1, <2>2, SteppingKeepsGen
<1>8. ASSUME NEW n \in DOMAIN builders, NEW content \in Writable, UpWrite(n, content)
      PROVE  GenState(layouts, answers)'
  BY <1>8, SteppingKeepsGen DEF UpWrite, GenState
<1>9. CASE UpReturn
  BY <1>9, SteppingKeepsGen DEF UpReturn, GenState
<1>10. CASE FinishStep
  BY <1>10, FinishKeepsGen
<1>11. CASE ServeMigrated \/ FinishWriting
  BY <1>11, GenStateKept DEF ServeMigrated, FinishWriting, GenState, GeneratedLands
<1>12. CASE StartWriting
  <2>1. /\ Matches(bytes) /\ file' = bytes /\ phase' = "writing" /\ UNCHANGED <<schema, reason>>
    BY <1>12 DEF StartWriting, EngineInv
  <2>2. Matches(file)'
    BY <2>1 DEF Matches
  <2>3. QED
    BY <2>1, <2>2 DEF GenState, Target, GeneratedLands
<1>13. CASE Close \/ Crash
  BY <1>13, ForgetKeepsGen DEF Close, Crash
<1>14. CASE UNCHANGED vars
  <2>1. UNCHANGED <<schema, file, phase, reason, bytes, chain, compiled>>
    BY <1>14 DEF vars
  <2>2. QED
    BY <2>1 DEF GenState, OnTheWay, Layout, Target, Matches, GeneratedLands
<1>15. QED
  BY <1>1, <1>2, <1>3, <1>4, <1>5, <1>6, <1>7, <1>8, <1>9, <1>10, <1>11, <1>12, <1>13, <1>14
  DEF Next, Open, RunStep, Up, WriteBack

LEMMA SchemaStays ==
  ASSUME [Next]_vars
  PROVE  schema' = schema
  BY DEF Next, vars, Open, RefuseTorn, ServeCurrent, RefuseMismatch, RefusePath, StartMigrating,
     Refuse, RunStep, RefuseNoTable, RefuseUnlisted, RefuseTwice, RefuseMisfit, BeginStep,
     RefuseConflict, RefuseLoss, FinishStep, Up, UpWrite, UpReturn, UpThrow, ServeMigrated,
     WriteBack, StartWriting, FinishWriting, Close, Crash, Forget

(* A project of generated migrations stays one; and one in which no field  *)
(* that a hashLookup verifies through was renamed stays that.              *)
GenInv == \E layouts, answers : GenState(layouts, answers)

UnrepointedInv ==
    \E layouts, answers :
        /\ GenState(layouts, answers)
        /\ NeverRepointed(layouts, answers, schema.version)

LEMMA GenStateInit ==
  ASSUME Init, NEW s \in Scenarios, schema = s.schema, file = s.file,
         NEW layouts, NEW answers, Managed(s, layouts, answers)
  PROVE  GenState(layouts, answers)
  BY DEF Init, Managed, GenState, Target, GeneratedLands

THEOREM GenInvariant ==
  ASSUME \A s \in Scenarios : \E layouts, answers : Managed(s, layouts, answers)
  PROVE  Spec => []GenInv
<1>1. Init => GenInv
  BY GenStateInit DEF Init, GenInv
<1>2. EngineInv /\ GenInv /\ [Next]_vars => GenInv'
  <2> SUFFICES ASSUME EngineInv, [Next]_vars,
                      NEW layouts, NEW answers, GenState(layouts, answers)
               PROVE  GenInv'
    BY DEF GenInv
  <2>1. GenState(layouts, answers)'
    BY GenStep
  <2>2. QED
    BY <2>1 DEF GenInv
<1>3. QED
  BY <1>1, <1>2, EngineInvariant, PTL DEF Spec

THEOREM UnrepointedInvariant ==
  ASSUME \A s \in Scenarios : \E layouts, answers :
            /\ Managed(s, layouts, answers)
            /\ NeverRepointed(layouts, answers, s.schema.version)
  PROVE  Spec => []UnrepointedInv
<1>1. Init => UnrepointedInv
  BY GenStateInit DEF Init, UnrepointedInv
<1>2. EngineInv /\ UnrepointedInv /\ [Next]_vars => UnrepointedInv'
  <2> SUFFICES ASSUME EngineInv, [Next]_vars,
                      NEW layouts, NEW answers, GenState(layouts, answers),
                      NeverRepointed(layouts, answers, schema.version)
               PROVE  UnrepointedInv'
    BY DEF UnrepointedInv
  <2>1. GenState(layouts, answers)'
    BY GenStep
  <2>2. schema' = schema
    BY SchemaStays
  <2>3. NeverRepointed(layouts, answers, schema'.version)
    BY <2>2
  <2>4. QED
    BY <2>1, <2>3 DEF UnrepointedInv
<1>3. QED
  BY <1>1, <1>2, EngineInvariant, PTL DEF Spec

(* A chain of generated migrations, however long and from whatever version *)
(* a file is, always fits the schema (generate.ts:120-141,                 *)
(* migrate.ts:225-248).                                                    *)
THEOREM GeneratedChainsLand ==
  ASSUME \A s \in Scenarios : \E layouts, answers : Managed(s, layouts, answers)
  PROVE  Spec => []GeneratedLands
<1>1. GenInv => GeneratedLands
  BY DEF GenInv, GenState
<1>2. QED
  BY <1>1, GenInvariant, PTL

LEMMA GeneratedIsCareful ==
  ASSUME \A s \in Scenarios : \E layouts, answers : Managed(s, layouts, answers)
  PROVE  Spec => []CarryInv
<1>1. EngineInv /\ GenInv => CarefulSteps
  BY NextLands DEF GenInv, CarefulSteps
<1>2. QED
  BY <1>1, GenInvariant, EngineInvariant, CarryInvariant, PTL

----------------------------------------------------------------------------
(* What up() has to fill in.                                               *)

(* A builder that up() did not write holds nothing, and a migration        *)
(* without up() writes none.                                               *)
UntouchedInv ==
    phase \in {"up", "check"} =>
        /\ \A n \in DOMAIN builders \ DOMAIN aux_wrote : builders[n] = Empty
        /\ ~Migration.up => phase = "check" /\ DOMAIN aux_wrote = {}

THEOREM UntouchedInvariant == Spec => []UntouchedInv
<1> USE DEF step, history
<1>1. Init => UntouchedInv
  BY DEF Init, UntouchedInv
<1>2. UntouchedInv /\ [Next]_vars => UntouchedInv'
  <2> SUFFICES ASSUME UntouchedInv, [Next]_vars PROVE UntouchedInv'
    OBVIOUS
  <2>a. ASSUME phase' \notin {"up", "check"} PROVE UntouchedInv'
    BY <2>a DEF UntouchedInv
  <2>1. CASE Open \/ ServeMigrated \/ WriteBack \/ Close \/ Crash
    BY <2>1, <2>a DEF Open, RefuseTorn, ServeCurrent, RefuseMismatch, RefusePath,
       StartMigrating, Refuse, ServeMigrated, WriteBack, StartWriting, FinishWriting, Close,
       Crash, Forget
  <2>2. CASE (RunStep /\ ~BeginStep) \/ UpThrow
    BY <2>2, <2>a DEF RunStep, RefuseNoTable, RefuseUnlisted, RefuseTwice, RefuseMisfit,
       RefuseConflict, RefuseLoss, FinishStep, Refuse, UpThrow
  <2>3. CASE BeginStep
    BY <2>3 DEF BeginStep, UntouchedInv, Nothing, Migration
  <2>4. ASSUME NEW n \in DOMAIN builders, NEW content \in Writable, UpWrite(n, content)
        PROVE  UntouchedInv'
    <3>1. /\ builders' = [builders EXCEPT ![n] = content]
          /\ aux_wrote' = [k \in DOMAIN aux_wrote \cup {n} |->
                              IF k = n THEN content ELSE aux_wrote[k]]
          /\ phase = "up" /\ phase' = "up" /\ Migration' = Migration
      BY <2>4 DEF UpWrite, Migration
    <3>2. Migration.up
      BY <3>1 DEF UntouchedInv
    <3>3. QED
      BY <3>1, <3>2 DEF UntouchedInv
  <2>5. CASE UpReturn
    <3>1. phase = "up" /\ UNCHANGED <<builders, aux_wrote>> /\ Migration' = Migration
      BY <2>5 DEF UpReturn, Migration
    <3>2. QED
      BY <3>1 DEF UntouchedInv
  <2>6. CASE UNCHANGED vars
    <3>1. UNCHANGED <<phase, builders, aux_wrote>> /\ Migration' = Migration
      BY <2>6 DEF vars, Migration
    <3>2. QED
      BY <3>1 DEF UntouchedInv
  <2>7. QED
    BY <2>1, <2>2, <2>3, <2>4, <2>5, <2>6 DEF Next, Up
<1>3. QED
  BY <1>1, <1>2, PTL DEF Spec

(* A field with a source is defined by the migration or carried.           *)
LEMMA DefinedOrCarried ==
  ASSUME EngineInv, CarryInv, NEW layouts, NEW answers, GenState(layouts, answers),
         phase = "check", NEW n \in DOMAIN sourceNameOf
  PROVE  n \in DOMAIN Migration.defines \/ n \in carried
<1> DEFINE v == bytes.version
           before == layouts[v]
           after == layouts[v + 1]
           r == answers[v]
<1>1. /\ Migration = Generated(v, before, after, r) /\ v \in 0 .. schema.version - 1
      /\ Layout = before /\ compiled = after /\ StepInv
      /\ r \in Answers(before, after)
  <2>1. Migration = Step(layouts, answers, v) /\ v \in 0 .. schema.version - 1
    BY NextIsGenerated
  <2>2. Layout = before /\ compiled = after
    BY DEF GenState, OnTheWay
  <2>3. StepInv /\ r \in Answers(before, after)
    BY <2>1 DEF CarryInv, GenState, IsHistory
  <2>4. QED
    BY <2>1, <2>2, <2>3 DEF Step
<1>2. /\ Migration.renames = r /\ Migration.drops = ToDrop(before, after, r)
      /\ DOMAIN Migration.defines = ToDefine(before, after, r)
      /\ Defined(Migration) = ToDefine(before, after, r) /\ Migration.rebuilds = {}
  BY <1>1 DEF Generated, Defined
<1>3. n \in Plain(compiled)
  BY <1>1, SourcesExist
<1>4. SUFFICES ASSUME n \notin ToDefine(before, after, r) PROVE n \in carried
  BY <1>2
<1>5. \E j \in Kept(Migration, Layout) : NewName(Migration, j) = n
  <2>1. n \in DOMAIN after
    BY <1>1, <1>3 DEF Plain
  <2>2. CASE n \in DOMAIN before
    <3>1. n \in Kept(Migration, Layout) /\ n \notin DOMAIN r
      BY <1>1, <1>2, <2>1, <2>2, AnswersFit DEF Kept, ToDrop, Removed
    <3>2. NewName(Migration, n) = n
      BY <1>2, <3>1 DEF NewName
    <3>3. QED
      BY <3>1, <3>2
  <2>3. CASE n \notin DOMAIN before
    <3>1. PICK j \in DOMAIN r : r[j] = n
      BY <1>4, <2>1, <2>3 DEF ToDefine, Added, Arriving
    <3>2. j \in Kept(Migration, Layout) /\ NewName(Migration, j) = n
      BY <1>1, <1>2, <3>1, AnswersFit DEF Kept, ToDrop, NewName
    <3>3. QED
      BY <3>2
  <2>4. QED
    BY <2>2, <2>3
<1>6. PICK j \in Kept(Migration, Layout) : NewName(Migration, j) = n
  BY <1>5
<1>7. QED
  BY <1>1, <1>2, <1>3, <1>4, <1>6, KeptIsCarried

(* A field that the migration defines is not carried, unless it is a       *)
(* hashLookup whose field was renamed.                                     *)
LEMMA DefinedNotCarried ==
  ASSUME EngineInv, CarryInv, NEW layouts, NEW answers, GenState(layouts, answers),
         NeverRepointed(layouts, answers, schema.version),
         phase = "check", NEW n \in carried
  PROVE  n \notin DOMAIN Migration.defines
<1> DEFINE v == bytes.version
           before == layouts[v]
           after == layouts[v + 1]
           r == answers[v]
<1>1. /\ Migration = Generated(v, before, after, r) /\ v \in 0 .. schema.version - 1
      /\ Layout = before /\ compiled = after /\ StepInv
      /\ r \in Answers(before, after) /\ ~Repointed(before, after, r)
  <2>1. Migration = Step(layouts, answers, v) /\ v \in 0 .. schema.version - 1
    BY NextIsGenerated
  <2>2. Layout = before /\ compiled = after
    BY DEF GenState, OnTheWay
  <2>3. StepInv /\ r \in Answers(before, after)
    BY <2>1 DEF CarryInv, GenState, IsHistory
  <2>4. ~Repointed(before, after, r)
    BY <2>1 DEF NeverRepointed
  <2>5. QED
    BY <2>1, <2>2, <2>3, <2>4 DEF Step
<1>2. /\ Migration.renames = r /\ Migration.drops = ToDrop(before, after, r)
      /\ DOMAIN Migration.defines = ToDefine(before, after, r)
  BY <1>1 DEF Generated
<1>3. n \in DOMAIN sourceNameOf /\ Remap(Migration, before[sourceNameOf[n]]) = after[n]
  BY <1>1 DEF StepInv, Carries
<1>4. n \in Plain(compiled) /\ sourceNameOf[n] \in DOMAIN before
  BY <1>1, <1>3, SourcesExist
<1>5. CASE n \in Changed(before, after)
  <2>1. n \in DOMAIN before /\ n \in DOMAIN after /\ before[n] # after[n]
    BY <1>5 DEF Changed
  <2>2. n \in Kept(Migration, Layout) /\ n \notin DOMAIN r
    BY <1>1, <1>2, <2>1, AnswersFit DEF Kept, ToDrop, Removed
  <2>3. NewName(Migration, n) = n
    BY <1>2, <2>2 DEF NewName
  <2>4. sourceNameOf[n] = n
    BY <1>1, <1>4, <2>2, <2>3, KeptIsCarried
  <2>5. Remap(Generated(0, before, after, r), before[n]) = Remap(Migration, before[n])
    BY <1>1 DEF Remap, NewName, Generated
  <2>6. QED
    BY <1>1, <1>3, <2>1, <2>4, <2>5 DEF Repointed
<1>6. CASE n \in Added(before, after) \ Arriving(r)
  <2>1. PICK q \in Reversals(Migration) : sourceNameOf = Sources(compiled, q)
    BY <1>1 DEF StepInv
  <2>2. n \notin DOMAIN q
    BY <1>2, <1>6, <2>1 DEF Reversals, Arriving
  <2>3. sourceNameOf[n] = n
    <3> DEFINE source(k) == IF k \in DOMAIN q THEN q[k] ELSE k
               found == {k \in Plain(compiled) : source(k) \in DOMAIN Layout}
    <3>1. sourceNameOf = [k \in found |-> source(k)]
      BY <2>1 DEF Sources
    <3>2. source(n) = n
      BY <2>2
    <3> HIDE DEF source, found
    <3>3. QED
      BY <1>3, <3>1, <3>2
  <2>4. QED
    BY <1>4, <1>6, <2>3 DEF Added
<1>7. QED
  BY <1>2, <1>5, <1>6 DEF ToDefine

LEMMA CarriedAreBuilders ==
  ASSUME CarryInv, phase = "check"
  PROVE  carried \subseteq DOMAIN builders /\ DOMAIN sourceNameOf \subseteq DOMAIN builders
<1>1. StepInv
  BY DEF CarryInv
<1>2. carried \subseteq DOMAIN sourceNameOf /\ DOMAIN builders = Plain(compiled)
  BY <1>1 DEF StepInv, Carries
<1>3. QED
  BY <1>1, <1>2, SourcesExist

(* A generated migration with nothing pending goes through untouched, for  *)
(* any history of layouts (generate.ts:148-196, migrate.ts:399-418).       *)
THEOREM ReadyStepsRun ==
  ASSUME \A s \in Scenarios : \E layouts, answers : Managed(s, layouts, answers)
  PROVE  Spec => []ReadyRuns
<1>1. ASSUME EngineInv, CarryInv, UntouchedInv, phase = "check", ~Migration.up,
             NEW layouts, NEW answers, GenState(layouts, answers)
      PROVE  ~Conflict /\ ~Loss
  <2>1. \A n \in DOMAIN builders : builders[n] = Empty
    BY <1>1 DEF UntouchedInv
  <2>2. DOMAIN Migration.defines = {}
    <3> DEFINE new == ToDefine(layouts[bytes.version], layouts[bytes.version + 1],
                               answers[bytes.version])
    <3>m. Migration = Generated(bytes.version, layouts[bytes.version],
                                layouts[bytes.version + 1], answers[bytes.version])
      BY <1>1, NextIsGenerated DEF Step
    <3>a. DOMAIN Migration.defines = new
      BY <3>m DEF Generated
    <3>b. Migration.up = (new # {})
      BY <3>m, Zenon DEF Generated
    <3> HIDE DEF new
    <3>1. DOMAIN Migration.defines = new /\ (Migration.up <=> new # {})
      BY <3>a, <3>b
    <3>2. new = {}
      BY <1>1, <3>1
    <3>3. QED
      BY <3>1, <3>2
  <2>3. DOMAIN sourceNameOf \subseteq carried
    BY <1>1, <2>2, DefinedOrCarried
  <2>4. QED
    BY <1>1, <2>1, <2>3, CarriedAreBuilders DEF Conflict, Loss, Loses
<1>2. EngineInv /\ CarryInv /\ UntouchedInv /\ GenInv => ReadyRuns
  BY <1>1 DEF GenInv, ReadyRuns
<1>3. QED
  BY <1>2, EngineInvariant, GeneratedIsCareful, UntouchedInvariant, GenInvariant, PTL

(* Once up() gives every pending field its data, so does any other, unless *)
(* a hashLookup was verified through a field that was renamed              *)
(* (generate.ts:148-196, migrate.ts:399-418).                              *)
THEOREM FilledStepsRun ==
  ASSUME \A s \in Scenarios : \E layouts, answers :
            /\ Managed(s, layouts, answers)
            /\ NeverRepointed(layouts, answers, s.schema.version)
  PROVE  Spec => []FilledRuns
<1>1. ASSUME EngineInv, CarryInv, UntouchedInv, WroteInv, phase = "check",
             DOMAIN aux_wrote = DOMAIN Migration.defines,
             \A n \in DOMAIN aux_wrote : aux_wrote[n] # Empty,
             NEW layouts, NEW answers, GenState(layouts, answers),
             NeverRepointed(layouts, answers, schema.version)
      PROVE  ~Conflict /\ ~Loss
  <2>1. \A n \in DOMAIN builders : builders[n] # Empty <=> n \in DOMAIN Migration.defines
    BY <1>1 DEF UntouchedInv, WroteInv
  <2>2. ~Conflict
    BY <1>1, <2>1, DefinedNotCarried, CarriedAreBuilders DEF Conflict
  <2>3. ASSUME NEW n \in DOMAIN sourceNameOf PROVE ~Loses(n)
    <3>1. n \in DOMAIN builders
      BY <1>1, CarriedAreBuilders
    <3>2. n \in DOMAIN Migration.defines \/ n \in carried
      BY <1>1, DefinedOrCarried
    <3>3. QED
      BY <2>1, <3>1, <3>2 DEF Loses, HasBytes
  <2>4. QED
    BY <2>2, <2>3 DEF Loss
<1>2. EngineInv /\ CarryInv /\ UntouchedInv /\ WroteInv /\ UnrepointedInv => FilledRuns
  BY <1>1 DEF UnrepointedInv, FilledRuns
<1>3. \A s \in Scenarios : \E layouts, answers : Managed(s, layouts, answers)
  OBVIOUS
<1>4. Spec => []CarryInv
  BY <1>3, GeneratedIsCareful
<1>5. QED
  BY <1>2, <1>4, EngineInvariant, UntouchedInvariant, WroteInvariant, UnrepointedInvariant, PTL
=============================================================================

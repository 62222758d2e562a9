---------------------------- MODULE ChainProofs ----------------------------
(***************************************************************************)
(* Proofs about Chain.tla for any bound on the versions and any set of     *)
(* hand-written arrays.                                                    *)
(***************************************************************************)
EXTENDS Chain, TLAPS, SequenceTheorems

(* Every action leaves the declaration alone.                              *)
LEMMA DeclarationFixed == [Next]_vars => UNCHANGED declaration
  BY DEF Next, vars, declaration, Construct, AcceptWithoutMigrations, RejectLatest,
     CheckFromEarliest, Decide, Migrate, Ask, Call, ResolveStep, AnswerEmpty, RefuseNewer,
     StartIndex, RefuseBackward, RefuseDuplicate, IndexMigration, StartWalk,
     RefuseGap, FollowMigration, RefuseOvershoot, AnswerChain, Answer, Return

LEMMA InitTypeOK == Init => TypeOK
<1> SUFFICES ASSUME Init PROVE TypeOK
  OBVIOUS
<1>1. migrations \in Seq(Link)
  <2>1. CASE managed = FALSE
    BY <2>1, ArraysAssumption DEF Init
  <2>2. CASE managed = TRUE
    <3>1. \A i \in 1 .. version : [from |-> i - 1, to |-> i] \in Link
      BY MaxVersionAssumption DEF Init, Link, Versions
    <3>2. BundleMigrations(version) \in Seq(Link)
      BY <3>1, MaxVersionAssumption DEF BundleMigrations, Init, Versions
    <3>3. QED
      BY <2>2, <3>2 DEF Init
  <2>3. QED
    BY <2>1, <2>2 DEF Init
<1>2. DOMAIN byFrom = {} /\ byFrom \in [DOMAIN byFrom -> Link]
  BY DEF Init
<1>3. managed \in BOOLEAN /\ version \in Versions
  BY DEF Init
<1>4. 0 \in Versions /\ position \in 1 .. Len(migrations) + 1
  BY <1>1, MaxVersionAssumption DEF Init, Versions
<1>5. chain \in Seq(Link)
  BY DEF Init
<1>6. QED
  BY <1>1, <1>2, <1>3, <1>4, <1>5 DEF Init, TypeOK, Phases, Outcomes

(* The state of resolveChain and the declaration keep their types: every   *)
(* index the code uses without a check is in range.                        *)
THEOREM Typing == Spec => []TypeOK
<1>1. Init => TypeOK
  BY InitTypeOK
<1>2. TypeOK /\ [Next]_vars => TypeOK'
  <2> SUFFICES ASSUME TypeOK, [Next]_vars PROVE TypeOK'
    OBVIOUS
  <2> USE DEF TypeOK, declaration, call
  <2>0. UNCHANGED declaration
    BY DeclarationFixed
  <2>1. CASE Construct
    BY <2>1, MaxVersionAssumption
    DEF Construct, AcceptWithoutMigrations, RejectLatest, CheckFromEarliest, Decide, Call, Phases
  <2>2. ASSUME NEW v \in Versions, Migrate(v) PROVE TypeOK'
    BY <2>2 DEF Migrate, Call, Phases
  <2>3. ASSUME NEW v \in Versions, NEW w \in Versions, Ask(v, w) PROVE TypeOK'
    BY <2>3 DEF Ask, Call, Phases
  <2>4. CASE AnswerEmpty
    BY <2>4 DEF AnswerEmpty, Answer, Phases, Outcomes
  <2>5. CASE RefuseNewer
    BY <2>5 DEF RefuseNewer, Answer, Phases, Outcomes, Refusals
  <2>6. CASE StartIndex
    BY <2>6 DEF StartIndex, Phases
  <2>7. CASE RefuseBackward
    BY <2>7 DEF RefuseBackward, Answer, Phases, Outcomes, Refusals
  <2>8. CASE RefuseDuplicate
    BY <2>8 DEF RefuseDuplicate, Answer, Phases, Outcomes, Refusals
  <2>9. CASE IndexMigration
    <3> DEFINE start == migrations[position].from
    <3>0. migrations[position] \in Link
      BY <2>9 DEF IndexMigration, Indexing
    <3>1. migrations[position] \in Link /\ start \in Versions
      BY <3>0 DEF Link
    <3>2. DOMAIN byFrom' = DOMAIN byFrom \cup {start}
      BY <2>9 DEF IndexMigration
    <3>3. byFrom' \in [DOMAIN byFrom' -> Link]
      BY <2>9, <3>1, <3>2 DEF IndexMigration
    <3>4. position' \in 1 .. Len(migrations') + 1
      BY <2>9 DEF IndexMigration, Indexing
    <3>5. QED
      BY <2>9, <3>1, <3>2, <3>3, <3>4 DEF IndexMigration
  <2>10. CASE StartWalk
    BY <2>10 DEF StartWalk, Phases
  <2>11. CASE RefuseGap
    BY <2>11 DEF RefuseGap, Answer, Phases, Outcomes, Refusals
  <2>12. CASE FollowMigration
    <3>1. byFrom[cursor] \in Link
      BY <2>12 DEF FollowMigration
    <3>2. chain' \in Seq(Link) /\ cursor' \in Versions
      BY <2>12, <3>1 DEF FollowMigration, Link
    <3>3. QED
      BY <2>12, <3>2 DEF FollowMigration
  <2>13. CASE RefuseOvershoot
    BY <2>13 DEF RefuseOvershoot, Answer, Phases, Outcomes, Refusals
  <2>14. CASE AnswerChain
    BY <2>14 DEF AnswerChain, Answer, Phases, Outcomes
  <2>15. CASE Return
    <3>1. byFrom' \in [DOMAIN byFrom' -> Link] /\ DOMAIN byFrom' = {}
      BY <2>15 DEF Return
    <3>2. position' \in 1 .. Len(migrations') + 1 /\ cursor' \in Versions
      BY <2>15, MaxVersionAssumption DEF Return, Versions
    <3>3. QED
      BY <2>15, <3>1, <3>2 DEF Return, Phases, Outcomes
  <2>16. CASE UNCHANGED vars
    BY <2>16 DEF vars
  <2>17. QED
    BY <2>1, <2>2, <2>3, <2>4, <2>5, <2>6, <2>7, <2>8, <2>9, <2>10, <2>11, <2>12,
       <2>13, <2>14, <2>15, <2>16
    DEF Next, ResolveStep
<1>3. QED
  BY <1>1, <1>2, PTL DEF Spec

----------------------------------------------------------------------------
(* The inductive invariant.                                                *)

(* The index holds exactly the migrations looked at so far.                *)
IndexInv ==
    /\ \A v \in DOMAIN byFrom : byFrom[v] \in Links /\ byFrom[v].from = v
    /\ \A i \in 1 .. position - 1 :
          /\ migrations[i].from \in DOMAIN byFrom
          /\ byFrom[migrations[i].from] = migrations[i]

(* Which outcome is possible where.                                        *)
OutcomeInv ==
    /\ phase = "answered" <=> outcome # "none"
    /\ outcome = "newer" => from > to
    /\ outcome = "gap" => cursor < to /\ cursor \notin DOMAIN byFrom
    /\ outcome = "overshoot" => cursor > to

Walked == phase = "walk" \/ outcome \in {"gap", "overshoot"}

(* The walk follows declared migrations only, each from where the last     *)
(* landed.                                                                 *)
WalkInv ==
    /\ phase \in {"idle", "enter", "index"} => chain = <<>>
    /\ phase \in {"index", "walk"} => from < to
    /\ phase \in {"idle", "enter"} => DOMAIN byFrom = {} /\ position = 1
    /\ Walked => /\ from < to
                 /\ position = Len(migrations) + 1
                 /\ chain \in Seq(Links)
                 /\ Leads(chain, from, cursor, to)

(* It never leaves the one road there is: every chain that could answer    *)
(* the call begins with what the walk has followed.                        *)
RoadInv ==
    Walked => \A p \in Seq(Links) : IsChain(p, from, to) =>
                  /\ Len(chain) <= Len(p)
                  /\ \A i \in 1 .. Len(chain) : chain[i] = p[i]

(* The contract of an answer, over chains of any length.                   *)
AnswerInv ==
    outcome = "resolved" => chain \in Seq(Links) /\ IsChain(chain, from, to)

ChainInv == TypeOK /\ IndexInv /\ OutcomeInv /\ WalkInv /\ RoadInv /\ AnswerInv

(* Where a chain goes on after a part already followed: either it ends     *)
(* there, or its next migration starts there.                              *)
LEMMA NextOnRoad ==
  ASSUME NEW S, NEW c \in Seq(S), NEW p \in Seq(S), NEW v, NEW u, NEW w, v # w,
         Leads(c, v, u, w), IsChain(p, v, w),
         Len(c) <= Len(p), \A i \in 1 .. Len(c) : c[i] = p[i]
  PROVE  \/ Len(p) = Len(c) /\ u = w
         \/ Len(p) > Len(c) /\ p[Len(c) + 1].from = u /\ u < w
<1>0. Len(c) \in Nat /\ Len(p) \in Nat
  OBVIOUS
<1>1. p # <<>>
  BY DEF IsChain, Leads
<1>2. CASE Len(p) = Len(c)
  <2>1. Len(c) # 0 /\ Len(c) \in 1 .. Len(c) /\ c # <<>>
    BY <1>0, <1>1, <1>2
  <2>2. c[Len(c)] = p[Len(p)]
    BY <1>2, <2>1
  <2>3. QED
    BY <1>1, <1>2, <2>1, <2>2 DEF IsChain, Leads
<1>3. CASE Len(p) > Len(c)
  <2>1. Len(c) + 1 \in 1 .. Len(p)
    BY <1>0, <1>3
  <2>2. p[Len(c) + 1].from < w
    BY <2>1 DEF IsChain, Leads
  <2>3. CASE c = <<>>
    BY <1>1, <1>3, <2>2, <2>3 DEF IsChain, Leads
  <2>4. CASE c # <<>>
    <3>1. Len(c) \in 1 .. Len(c) /\ Len(c) \in 1 .. Len(p) - 1
      BY <1>0, <1>3, <2>4
    <3>2. c[Len(c)].to = u /\ c[Len(c)] = p[Len(c)]
      BY <2>4, <3>1 DEF Leads
    <3>3. p[Len(c)].to = p[Len(c) + 1].from
      BY <3>1 DEF IsChain, Leads
    <3>4. QED
      BY <1>3, <2>2, <3>2, <3>3
  <2>5. QED
    BY <2>3, <2>4
<1>4. QED
  BY <1>0, <1>2, <1>3

(* The actions that only record an answer.                                 *)
LEMMA RefusalKeeps ==
  ASSUME TypeOK, ChainInv, NEW r \in {"newer", "backward", "duplicate"}, Answer(r),
         phase # "walk", r = "newer" => from > to
  PROVE  IndexInv' /\ OutcomeInv' /\ WalkInv' /\ RoadInv' /\ AnswerInv'
<1> USE DEF Answer, declaration, call
<1>1. Links' = Links
  BY DEF Links, Declared
<1>2. outcome' = r /\ phase' = "answered" /\ ~Walked'
  BY DEF Walked
<1>3. IndexInv'
  BY <1>1 DEF ChainInv, IndexInv
<1>4. OutcomeInv'
  BY <1>2 DEF OutcomeInv
<1>5. WalkInv' /\ RoadInv' /\ AnswerInv'
  BY <1>2 DEF WalkInv, RoadInv, AnswerInv
<1>6. QED
  BY <1>3, <1>4, <1>5

LEMMA WalkAnswerKeeps ==
  ASSUME TypeOK, ChainInv, NEW r \in {"gap", "overshoot", "resolved"}, Answer(r), phase = "walk",
         r = "gap" => cursor < to /\ cursor \notin DOMAIN byFrom,
         r = "overshoot" => cursor > to,
         r = "resolved" => cursor = to
  PROVE  IndexInv' /\ OutcomeInv' /\ WalkInv' /\ RoadInv' /\ AnswerInv'
<1> USE DEF Answer, declaration, call
<1>1. Links' = Links /\ Walked
  BY DEF Links, Walked
<1>2. outcome' = r /\ phase' = "answered"
  OBVIOUS
<1>3. IndexInv'
  BY <1>1 DEF ChainInv, IndexInv
<1>4. OutcomeInv'
  BY <1>2 DEF OutcomeInv
<1>5. /\ from < to /\ position = Len(migrations) + 1
      /\ chain \in Seq(Links) /\ Leads(chain, from, cursor, to)
  BY <1>1 DEF ChainInv, WalkInv
<1>6. Leads(chain, from, cursor, to)'
  BY <1>5 DEF Leads
<1>7. WalkInv'
  BY <1>1, <1>2, <1>5, <1>6 DEF WalkInv
<1>8. RoadInv'
  BY <1>1, <1>2 DEF ChainInv, RoadInv, IsChain, Leads
<1>9. AnswerInv'
  BY <1>1, <1>2, <1>5 DEF AnswerInv, IsChain, Leads
<1>10. QED
  BY <1>3, <1>4, <1>7, <1>8, <1>9

LEMMA FollowKeeps ==
  ASSUME TypeOK, ChainInv, FollowMigration
  PROVE  IndexInv' /\ OutcomeInv' /\ WalkInv' /\ RoadInv' /\ AnswerInv'
<1> USE DEF FollowMigration, Walking, declaration, call
<1> DEFINE m == byFrom[cursor]
<1>1. Links' = Links /\ Walked /\ Walked'
  BY DEF Links, Walked
<1>2. m \in Links /\ m.from = cursor
  BY DEF ChainInv, IndexInv
<1>3. /\ from < to /\ position = Len(migrations) + 1
      /\ chain \in Seq(Links) /\ Leads(chain, from, cursor, to)
  BY <1>1 DEF ChainInv, WalkInv
<1>4. /\ chain' \in Seq(Links) /\ Len(chain') = Len(chain) + 1 /\ Len(chain) \in Nat
      /\ \A i \in 1 .. Len(chain) : chain'[i] = chain[i]
      /\ chain'[Len(chain')] = m
  BY <1>2, <1>3
<1>5. outcome' = "none" /\ phase' = "walk"
  BY DEF ChainInv, OutcomeInv
<1>6. IndexInv'
  BY <1>1 DEF ChainInv, IndexInv
<1>7. OutcomeInv'
  BY <1>5 DEF OutcomeInv
<1>8. Leads(chain', from, m.to, to)
  <2>1. chain' # <<>>
    BY <1>4
  <2>2. chain'[1].from = from
    <3>1. CASE chain = <<>>
      BY <3>1, <1>2, <1>3, <1>4 DEF Leads
    <3>2. CASE chain # <<>>
      <4>1. 1 \in 1 .. Len(chain)
        BY <3>2, <1>3
      <4>2. QED
        BY <3>2, <4>1, <1>3, <1>4 DEF Leads
    <3>3. QED
      BY <3>1, <3>2
  <2>3. ASSUME NEW i \in 1 .. Len(chain') - 1 PROVE chain'[i].to = chain'[i + 1].from
    <3>1. CASE i < Len(chain)
      <4>1. i \in 1 .. Len(chain) - 1 /\ i \in 1 .. Len(chain) /\ i + 1 \in 1 .. Len(chain)
        BY <3>1, <1>4
      <4>2. QED
        BY <4>1, <1>3, <1>4 DEF Leads
    <3>2. CASE i = Len(chain)
      <4>1. chain # <<>> /\ i \in 1 .. Len(chain)
        BY <3>2, <1>4
      <4>2. chain[i].to = cursor
        BY <3>2, <4>1, <1>3 DEF Leads
      <4>3. QED
        BY <3>2, <4>1, <4>2, <1>2, <1>4
    <3>3. QED
      BY <3>1, <3>2, <1>4
  <2>4. ASSUME NEW i \in 1 .. Len(chain') PROVE chain'[i].from < to
    <3>1. CASE i \in 1 .. Len(chain)
      BY <3>1, <1>3, <1>4 DEF Leads
    <3>2. CASE i = Len(chain')
      BY <3>2, <1>2, <1>4
    <3>3. QED
      BY <3>1, <3>2, <1>4
  <2>5. QED
    BY <2>1, <2>2, <2>3, <2>4, <1>4 DEF Leads
<1>9. WalkInv'
  BY <1>1, <1>3, <1>4, <1>5, <1>8 DEF WalkInv, Leads
<1>10. RoadInv'
  <2> SUFFICES ASSUME NEW p \in Seq(Links), IsChain(p, from, to)
               PROVE  /\ Len(chain') <= Len(p)
                      /\ \A i \in 1 .. Len(chain') : chain'[i] = p[i]
    BY <1>1 DEF RoadInv, IsChain, Leads
  <2>1. Len(chain) <= Len(p) /\ \A i \in 1 .. Len(chain) : chain[i] = p[i]
    BY <1>1 DEF ChainInv, RoadInv
  <2>2. from # to /\ cursor # to
    BY <1>3 DEF TypeOK, Versions
  <2>3. Len(p) > Len(chain) /\ p[Len(chain) + 1].from = cursor
    BY <1>3, <2>1, <2>2, NextOnRoad
  <2>4. Len(p) \in Nat /\ Len(chain) + 1 \in 1 .. Len(p) /\ p[Len(chain) + 1] \in Links
    BY <2>3, <1>4
  <2> DEFINE next == p[Len(chain) + 1]
  <2>9. DOMAIN migrations = 1 .. Len(migrations)
    BY DEF TypeOK
  <2>10. next \in {migrations[i] : i \in 1 .. Len(migrations)}
    BY <2>4, <2>9 DEF Links, Declared
  <2>5. PICK j \in 1 .. Len(migrations) : next = migrations[j]
    <3> HIDE DEF next
    <3> QED
      BY <2>10
  <2>6. byFrom[migrations[j].from] = migrations[j]
    BY <1>3 DEF ChainInv, IndexInv, TypeOK
  <2>7. p[Len(chain) + 1] = m
    BY <2>3, <2>5, <2>6
  <2>8. QED
    BY <2>1, <2>4, <2>7, <1>4
<1>11. AnswerInv'
  BY <1>5 DEF AnswerInv
<1>12. QED
  BY <1>6, <1>7, <1>9, <1>10, <1>11

THEOREM ChainInvariant == Spec => []ChainInv
<1>1. Init => ChainInv
  <2> SUFFICES ASSUME Init, TypeOK PROVE ChainInv
    BY InitTypeOK
  <2>1. ~Walked /\ position - 1 = 0
    BY DEF Init, Walked
  <2>2. IndexInv
    BY <2>1 DEF Init, IndexInv
  <2>3. QED
    BY <2>1, <2>2 DEF Init, ChainInv, OutcomeInv, WalkInv, RoadInv, AnswerInv
<1>2. ChainInv /\ TypeOK' /\ [Next]_vars => ChainInv'
  <2> SUFFICES ASSUME ChainInv, TypeOK', [Next]_vars
               PROVE  IndexInv' /\ OutcomeInv' /\ WalkInv' /\ RoadInv' /\ AnswerInv'
    BY DEF ChainInv
  <2> USE DEF declaration, call
  <2>0. TypeOK /\ Links' = Links
    BY DeclarationFixed DEF ChainInv, Links
  <2>a. ASSUME phase = "idle", phase' \in {"idle", "enter"},
               UNCHANGED <<migrations, position, byFrom, cursor, chain, outcome>>
        PROVE  IndexInv' /\ OutcomeInv' /\ WalkInv' /\ RoadInv' /\ AnswerInv'
    <3>1. outcome = "none" /\ outcome' = "none" /\ ~Walked'
      BY <2>a DEF ChainInv, OutcomeInv, Walked
    <3>2. IndexInv'
      BY <2>a, <2>0 DEF ChainInv, IndexInv
    <3>3. WalkInv'
      BY <2>a, <3>1 DEF ChainInv, WalkInv
    <3>4. QED
      BY <2>a, <3>1, <3>2, <3>3 DEF OutcomeInv, RoadInv, AnswerInv
  <2>1. CASE Construct
    BY <2>1, <2>a DEF Construct, AcceptWithoutMigrations, RejectLatest,
       CheckFromEarliest, Constructing, Decide, Call
  <2>2. ASSUME NEW v \in Versions, Migrate(v) PROVE ChainInv'
    BY <2>2, <2>a DEF Migrate, Call, ChainInv
  <2>3. ASSUME NEW v \in Versions, NEW w \in Versions, Ask(v, w) PROVE ChainInv'
    BY <2>3, <2>a DEF Ask, Call, ChainInv
  <2>4. CASE AnswerEmpty
    <3>1. chain = <<>> /\ from = to /\ outcome' = "resolved" /\ phase' = "answered"
      BY <2>4 DEF AnswerEmpty, Answer, ChainInv, WalkInv
    <3>2. ~Walked' /\ OutcomeInv'
      BY <3>1 DEF Walked, OutcomeInv
    <3>3. IndexInv'
      BY <2>4, <2>0 DEF AnswerEmpty, Answer, ChainInv, IndexInv
    <3>4. WalkInv' /\ RoadInv'
      BY <3>1, <3>2 DEF WalkInv, RoadInv
    <3>5. AnswerInv'
      BY <3>1, <2>4 DEF AnswerEmpty, Answer, AnswerInv, IsChain, Leads
    <3>6. QED
      BY <3>2, <3>3, <3>4, <3>5
  <2>5. CASE RefuseNewer
    BY <2>5, <2>0, RefusalKeeps DEF RefuseNewer
  <2>6. CASE StartIndex
    <3>1. chain = <<>> /\ outcome = "none" /\ ~Walked'
      BY <2>6 DEF StartIndex, ChainInv, WalkInv, OutcomeInv, Walked
    <3>2. IndexInv'
      BY <2>6, <2>0 DEF StartIndex, ChainInv, IndexInv, WalkInv
    <3>3. QED
      BY <2>6, <3>1, <3>2 DEF StartIndex, OutcomeInv, WalkInv, RoadInv, AnswerInv
  <2>7. CASE RefuseBackward
    BY <2>7, <2>0, RefusalKeeps DEF RefuseBackward, Indexing
  <2>8. CASE RefuseDuplicate
    BY <2>8, <2>0, RefusalKeeps DEF RefuseDuplicate, Indexing
  <2>9. CASE IndexMigration
    <3> DEFINE m == migrations[position]
    <3>1. m \in Links /\ position \in Nat
      BY <2>9, <2>0 DEF IndexMigration, Indexing, Links, Declared, TypeOK
    <3>2. outcome = "none" /\ ~Walked' /\ chain = <<>> /\ from < to
      BY <2>9 DEF IndexMigration, Indexing, ChainInv, OutcomeInv, WalkInv, Walked
    <3>3. /\ DOMAIN byFrom' = DOMAIN byFrom \cup {m.from}
          /\ byFrom'[m.from] = m
          /\ \A v \in DOMAIN byFrom : v # m.from /\ byFrom'[v] = byFrom[v]
          /\ position' = position + 1 /\ migrations' = migrations
      BY <2>9 DEF IndexMigration
    <3>4. \A v \in DOMAIN byFrom' : byFrom'[v] \in Links' /\ byFrom'[v].from = v
      BY <2>0, <3>1, <3>3 DEF ChainInv, IndexInv
    <3>5. ASSUME NEW i \in 1 .. position' - 1
          PROVE  /\ migrations[i].from \in DOMAIN byFrom'
                 /\ byFrom'[migrations[i].from] = migrations[i]
      <4>1. CASE i = position
        BY <4>1, <3>3
      <4>2. CASE i \in 1 .. position - 1
        BY <4>2, <3>3 DEF ChainInv, IndexInv
      <4>3. QED
        BY <4>1, <4>2, <3>1, <3>3
    <3>6. IndexInv'
      BY <3>3, <3>4, <3>5 DEF IndexInv
    <3>7. QED
      BY <2>9, <3>2, <3>6 DEF IndexMigration, Indexing, OutcomeInv, WalkInv, RoadInv, AnswerInv
  <2>10. CASE StartWalk
    <3>1. /\ outcome = "none" /\ chain = <<>> /\ from < to
          /\ position = Len(migrations) + 1
      BY <2>10, <2>0 DEF StartWalk, ChainInv, OutcomeInv, WalkInv, TypeOK
    <3>2. IndexInv'
      BY <2>10, <2>0 DEF StartWalk, ChainInv, IndexInv
    <3>3. Leads(chain', from', cursor', to') /\ chain' \in Seq(Links')
      BY <2>10, <3>1 DEF StartWalk, Leads
    <3>4. WalkInv'
      BY <2>10, <3>1, <3>3 DEF StartWalk, WalkInv, Leads
    <3>5. RoadInv'
      BY <2>10, <3>1 DEF StartWalk, RoadInv
    <3>6. QED
      BY <2>10, <3>1, <3>2, <3>4, <3>5 DEF StartWalk, OutcomeInv, AnswerInv
  <2>11. CASE RefuseGap
    BY <2>11, <2>0, WalkAnswerKeeps DEF RefuseGap, Walking
  <2>12. CASE FollowMigration
    BY <2>12, <2>0, FollowKeeps
  <2>13. CASE RefuseOvershoot
    BY <2>13, <2>0, WalkAnswerKeeps DEF RefuseOvershoot
  <2>14. CASE AnswerChain
    BY <2>14, <2>0, WalkAnswerKeeps DEF AnswerChain
  <2>15. CASE Return
    <3>1. outcome' = "none" /\ ~Walked'
      BY <2>15 DEF Return, Walked
    <3>2. IndexInv'
      BY <2>15 DEF Return, IndexInv
    <3>3. QED
      BY <2>15, <3>1, <3>2 DEF Return, OutcomeInv, WalkInv, RoadInv, AnswerInv
  <2>16. CASE UNCHANGED vars
    <3>1. IndexInv' /\ OutcomeInv'
      BY <2>16, <2>0 DEF vars, ChainInv, IndexInv, OutcomeInv
    <3>2. WalkInv' /\ RoadInv' /\ AnswerInv'
      BY <2>16, <2>0 DEF vars, ChainInv, WalkInv, RoadInv, AnswerInv, Walked, IsChain, Leads
    <3>3. QED
      BY <3>1, <3>2
  <2>17. QED
    BY <2>1, <2>2, <2>3, <2>4, <2>5, <2>6, <2>7, <2>8, <2>9, <2>10, <2>11, <2>12,
       <2>13, <2>14, <2>15, <2>16
    DEF Next, ResolveStep, ChainInv
<1>3. QED
  BY <1>1, <1>2, Typing, PTL DEF Spec

(* What has been indexed is fit to be walked; what ended the loop early is *)
(* not.                                                                    *)
UniqueInv ==
    /\ \A v \in DOMAIN byFrom : \E i \in 1 .. position - 1 : migrations[i].from = v
    /\ \A i \in 1 .. position - 1 : MovesForward(migrations[i])
    /\ \A i, j \in 1 .. position - 1 : migrations[i].from = migrations[j].from => i = j
    /\ outcome = "backward" =>
          position <= Len(migrations) /\ ~MovesForward(migrations[position])
    /\ outcome = "duplicate" =>
          position <= Len(migrations) /\ migrations[position].from \in DOMAIN byFrom
    /\ outcome = "resolved" /\ from # to => position = Len(migrations) + 1

LEMMA UniqueInvariant == Spec => []UniqueInv
<1>1. Init => UniqueInv
  <2> SUFFICES ASSUME Init PROVE UniqueInv
    OBVIOUS
  <2>1. DOMAIN byFrom = {} /\ 1 .. position - 1 = {} /\ outcome = "none"
    BY DEF Init
  <2>2. QED
    BY <2>1 DEF UniqueInv
<1>2. ChainInv /\ UniqueInv /\ [Next]_vars => UniqueInv'
  <2> SUFFICES ASSUME ChainInv, UniqueInv, [Next]_vars PROVE UniqueInv'
    OBVIOUS
  <2> USE DEF declaration, call
  <2>0. TypeOK /\ position \in Nat /\ position >= 1
    BY DEF ChainInv, TypeOK
  <2>a. ASSUME UNCHANGED <<migrations, position, byFrom>>,
               outcome' \notin {"backward", "duplicate", "resolved"} PROVE UniqueInv'
    BY <2>a DEF UniqueInv
  <2>b. phase # "answered" => outcome = "none"
    BY DEF ChainInv, OutcomeInv
  <2>1. CASE Construct
    BY <2>1, <2>a, <2>b DEF Construct, AcceptWithoutMigrations, RejectLatest,
       CheckFromEarliest, Constructing, Decide, Call
  <2>2. ASSUME NEW v \in Versions, Migrate(v) PROVE UniqueInv'
    BY <2>2, <2>a, <2>b DEF Migrate, Call
  <2>3. ASSUME NEW v \in Versions, NEW w \in Versions, Ask(v, w) PROVE UniqueInv'
    BY <2>3, <2>a, <2>b DEF Ask, Call
  <2>4. CASE AnswerEmpty
    BY <2>4 DEF AnswerEmpty, Answer, UniqueInv
  <2>5. CASE RefuseNewer \/ RefuseGap \/ RefuseOvershoot
    BY <2>5, <2>a DEF RefuseNewer, RefuseGap, RefuseOvershoot, Answer
  <2>6. CASE StartIndex
    <3>1. position = 1 /\ outcome = "none"
      BY <2>6, <2>b DEF StartIndex, ChainInv, WalkInv
    <3>2. QED
      BY <2>6, <2>a, <3>1 DEF StartIndex
  <2>7. CASE RefuseBackward
    BY <2>7 DEF RefuseBackward, Indexing, Answer, UniqueInv
  <2>8. CASE RefuseDuplicate
    BY <2>8 DEF RefuseDuplicate, Indexing, Answer, UniqueInv
  <2>9. CASE IndexMigration
    <3> DEFINE m == migrations[position]
    <3>1. /\ MovesForward(m) /\ m.from \notin DOMAIN byFrom
          /\ DOMAIN byFrom' = DOMAIN byFrom \cup {m.from}
          /\ position' = position + 1 /\ migrations' = migrations
          /\ outcome' = "none"
      BY <2>9, <2>b DEF IndexMigration, Indexing
    <3>2. 1 .. position' - 1 = (1 .. position - 1) \cup {position}
      BY <3>1, <2>0
    <3>3. \A v \in DOMAIN byFrom' : \E i \in 1 .. position' - 1 : migrations[i].from = v
      BY <3>1, <3>2 DEF UniqueInv
    <3>4. \A i \in 1 .. position' - 1 : MovesForward(migrations[i])
      BY <3>1, <3>2 DEF UniqueInv
    <3>5. \A i \in 1 .. position - 1 : migrations[i].from # m.from
      BY <3>1 DEF ChainInv, IndexInv
    <3>6. \A i, j \in 1 .. position' - 1 : migrations[i].from = migrations[j].from => i = j
      BY <3>2, <3>5 DEF UniqueInv
    <3>7. QED
      BY <3>1, <3>3, <3>4, <3>6 DEF UniqueInv
  <2>10. CASE StartWalk \/ FollowMigration
    BY <2>10, <2>a, <2>b DEF StartWalk, FollowMigration, Walking
  <2>11. CASE AnswerChain
    <3>1. position = Len(migrations) + 1
      BY <2>11 DEF AnswerChain, ChainInv, WalkInv, Walked
    <3>2. QED
      BY <2>11, <3>1 DEF AnswerChain, Answer, UniqueInv
  <2>12. CASE Return
    <3>1. DOMAIN byFrom' = {} /\ 1 .. position' - 1 = {} /\ outcome' = "none"
      BY <2>12 DEF Return
    <3>2. QED
      BY <3>1 DEF UniqueInv
  <2>13. CASE UNCHANGED vars
    BY <2>13 DEF vars, UniqueInv
  <2>14. QED
    BY <2>1, <2>2, <2>3, <2>4, <2>5, <2>6, <2>7, <2>8, <2>9, <2>10, <2>11, <2>12, <2>13
    DEF Next, ResolveStep
<1>3. QED
  BY <1>1, <1>2, ChainInvariant, PTL DEF Spec

(* ResolvedIsChain, for every array and every pair of versions.            *)
THEOREM ResolvedChains == Spec => []ResolvedIsChain
<1>1. ChainInv /\ UniqueInv => ResolvedIsChain
  <2> SUFFICES ASSUME ChainInv, UniqueInv, outcome = "resolved"
               PROVE  /\ \A i \in 1 .. Len(chain) : chain[i] \in Links
                      /\ IsChain(chain, from, to)
                      /\ from # to => Indexable(migrations)
    BY DEF ResolvedIsChain
  <2>1. chain \in Seq(Links) /\ IsChain(chain, from, to)
    BY DEF ChainInv, AnswerInv
  <2>2. \A i \in 1 .. Len(chain) : chain[i] \in Links
    BY <2>1
  <2>3. ASSUME from # to PROVE Indexable(migrations)
    <3>1. position - 1 = Len(migrations) /\ DOMAIN migrations = 1 .. Len(migrations)
      BY <2>3 DEF UniqueInv, ChainInv, TypeOK
    <3>2. QED
      BY <3>1 DEF UniqueInv, Indexable
  <2>4. QED
    BY <2>1, <2>2, <2>3
<1>2. QED
  BY <1>1, ChainInvariant, UniqueInvariant, PTL

(* Where a chain is refused as newer, with a gap or as overshooting, no    *)
(* sequence of declared migrations of whatever length is a chain.          *)
LEMMA NoChainAtAll ==
  ASSUME ChainInv, outcome \in {"newer", "gap", "overshoot"},
         NEW p \in Seq(Links)
  PROVE  ~IsChain(p, from, to)
<1> SUFFICES ASSUME IsChain(p, from, to) PROVE FALSE
  OBVIOUS
<1>0. from \in Nat /\ to \in Nat /\ cursor \in Nat
  BY DEF ChainInv, TypeOK, Versions
<1>1. CASE outcome = "newer"
  <2>1. from > to
    BY <1>1 DEF ChainInv, OutcomeInv
  <2>2. p # <<>>
    BY <2>1, <1>0 DEF IsChain, Leads
  <2>3. 1 \in 1 .. Len(p)
    BY <2>2
  <2>4. p[1].from = from /\ p[1].from < to
    BY <2>2, <2>3 DEF IsChain, Leads
  <2>5. QED
    BY <2>1, <2>4, <1>0
<1>2. CASE outcome \in {"gap", "overshoot"}
  <2>1. Walked
    BY <1>2 DEF Walked
  <2>2. /\ from < to /\ position = Len(migrations) + 1
        /\ chain \in Seq(Links) /\ Leads(chain, from, cursor, to)
    BY <2>1 DEF ChainInv, WalkInv
  <2>3. Len(chain) <= Len(p) /\ \A i \in 1 .. Len(chain) : chain[i] = p[i]
    BY <2>1 DEF ChainInv, RoadInv
  <2>4. cursor # to /\ from # to
    BY <1>0, <1>2, <2>2 DEF ChainInv, OutcomeInv
  <2>5. Len(p) > Len(chain) /\ p[Len(chain) + 1].from = cursor /\ cursor < to
    BY <2>2, <2>3, <2>4, NextOnRoad
  <2>6. outcome = "gap"
    BY <1>0, <1>2, <2>5 DEF ChainInv, OutcomeInv
  <2> DEFINE next == p[Len(chain) + 1]
  <2>7. Len(chain) + 1 \in 1 .. Len(p) /\ next \in Links
    BY <2>2, <2>5
  <2>8. DOMAIN migrations = 1 .. Len(migrations)
    BY DEF ChainInv, TypeOK
  <2>9. PICK j \in 1 .. Len(migrations) : next = migrations[j]
    <3> HIDE DEF next
    <3> QED
      BY <2>7, <2>8 DEF Links, Declared
  <2>10. migrations[j].from \in DOMAIN byFrom
    BY <2>2 DEF ChainInv, IndexInv, TypeOK
  <2>11. QED
    BY <2>5, <2>6, <2>9, <2>10 DEF ChainInv, OutcomeInv
<1>3. QED
  BY <1>1, <1>2

(* RefusedHasNoChain, for every array and every pair of versions.          *)
THEOREM RefusalsAreRight == Spec => []RefusedHasNoChain
<1>1. ChainInv /\ UniqueInv => RefusedHasNoChain
  <2> SUFFICES ASSUME ChainInv, UniqueInv PROVE RefusedHasNoChain
    OBVIOUS
  <2>1. ASSUME outcome \in {"newer", "gap", "overshoot"}, NEW p \in ChainsIn(migrations, from, to)
        PROVE  FALSE
    <3>1. p \in Seq(Links) /\ IsChain(p, from, to)
      BY DEF ChainsIn, Links
    <3>2. QED
      BY <2>1, <3>1, NoChainAtAll
  <2>2. DOMAIN migrations = 1 .. Len(migrations) /\ position \in Nat /\ position >= 1
    BY DEF ChainInv, TypeOK
  <2>3. ASSUME outcome = "backward" PROVE ~Indexable(migrations)
    BY <2>2, <2>3 DEF UniqueInv, Indexable
  <2>4. ASSUME outcome = "duplicate" PROVE ~Indexable(migrations)
    <3>1. position \in DOMAIN migrations /\ migrations[position].from \in DOMAIN byFrom
      BY <2>2, <2>4 DEF UniqueInv
    <3>2. PICK i \in 1 .. position - 1 : migrations[i].from = migrations[position].from
      BY <3>1 DEF UniqueInv
    <3>3. i \in DOMAIN migrations /\ i # position
      BY <2>2, <3>1
    <3>4. QED
      BY <3>1, <3>2, <3>3 DEF Indexable
  <2>5. QED
    BY <2>1, <2>3, <2>4 DEF RefusedHasNoChain
<1>2. QED
  BY <1>1, ChainInvariant, UniqueInvariant, PTL

----------------------------------------------------------------------------
(* Bundles.                                                                *)

(* Entry i of a bundle goes from i-1 to i, so the index it fills is dense  *)
(* and the walk lands on every version up to the schema's.                 *)
ManagedInv ==
    managed =>
        /\ migrations = BundleMigrations(version)
        /\ schema # "rejected"
        /\ phase # "idle" /\ caller # "program" => to = version
        /\ phase # "idle" /\ caller = "constructor" => from <= to
        /\ \A v \in DOMAIN byFrom : v < position - 1
        /\ phase = "walk" /\ caller # "program" => cursor <= version
        /\ caller # "program" => outcome \in {"none", "resolved", "newer"}

LEMMA BundleShape ==
  ASSUME TypeOK, migrations = BundleMigrations(version)
  PROVE  /\ Len(migrations) = version
         /\ \A i \in 1 .. Len(migrations) : migrations[i].from = i - 1 /\ migrations[i].to = i
         /\ \A m \in Links : m.from < version /\ m.to <= version
<1>0. version \in Nat
  BY MaxVersionAssumption DEF TypeOK, Versions
<1>1. Len(migrations) = version /\ DOMAIN migrations = 1 .. version
  BY <1>0 DEF BundleMigrations
<1>2. \A i \in 1 .. version : migrations[i].from = i - 1 /\ migrations[i].to = i
  BY DEF BundleMigrations
<1>3. ASSUME NEW m \in Links PROVE m.from < version /\ m.to <= version
  <2>1. PICK i \in 1 .. version : m = migrations[i]
    BY <1>1 DEF Links, Declared
  <2>2. QED
    BY <2>1, <1>2, <1>0
<1>4. QED
  BY <1>1, <1>2, <1>3

(* ManagedAlwaysResolves, for every number of migrations.                  *)
THEOREM BundlesResolve == Spec => []ManagedAlwaysResolves
<1>1. Init => ManagedInv
  BY DEF Init, ManagedInv
<1>2. ChainInv /\ ManagedInv /\ [Next]_vars => ManagedInv'
  <2> SUFFICES ASSUME ChainInv, ManagedInv, [Next]_vars, managed PROVE ManagedInv'
    BY DeclarationFixed DEF ManagedInv, declaration
  <2> USE DEF declaration, call
  <2>0. TypeOK /\ version \in Nat /\ from \in Nat /\ to \in Nat /\ cursor \in Nat
        /\ position \in Nat /\ position >= 1
    BY MaxVersionAssumption DEF ChainInv, TypeOK, Versions
  <2>b. /\ Len(migrations) = version
        /\ \A i \in 1 .. Len(migrations) : migrations[i].from = i - 1 /\ migrations[i].to = i
        /\ \A m \in Links : m.from < version /\ m.to <= version
    BY <2>0, BundleShape DEF ManagedInv
  <2>1. CASE AcceptWithoutMigrations
    BY <2>1 DEF AcceptWithoutMigrations, Constructing, Decide, ManagedInv
  <2>2. CASE RejectLatest
    <3>1. version >= 1 /\ migrations[version].to = version
      BY <2>2, <2>0, <2>b DEF RejectLatest, ManagedInv, BundleMigrations
    <3>2. migrations[version] \in Links
      BY <3>1, <2>0, <2>b DEF Links, Declared, TypeOK
    <3>3. LatestIsVersion
      BY <3>1, <3>2, <2>b DEF LatestIsVersion
    <3>4. QED
      BY <2>2, <3>3 DEF RejectLatest
  <2>3. CASE CheckFromEarliest
    <3>1. PICK v \in Versions : Earliest(v) /\ Call("constructor", v, version)
      BY <2>3 DEF CheckFromEarliest
    <3>2. v < version
      BY <3>1, <2>b DEF Earliest
    <3>3. QED
      BY <2>0, <3>1, <3>2 DEF Call, ManagedInv, ChainInv, OutcomeInv, Versions
  <2>4. ASSUME NEW v \in Versions, Migrate(v) PROVE ManagedInv'
    BY <2>4 DEF Migrate, Call, ManagedInv, ChainInv, OutcomeInv
  <2>5. ASSUME NEW v \in Versions, NEW w \in Versions, Ask(v, w) PROVE ManagedInv'
    BY <2>5 DEF Ask, Call, ManagedInv
  <2>6. CASE AnswerEmpty \/ RefuseNewer
    BY <2>6 DEF AnswerEmpty, RefuseNewer, Answer, ManagedInv
  <2>7. CASE StartIndex
    BY <2>7 DEF StartIndex, ManagedInv, ChainInv, WalkInv
  <2>8. CASE RefuseBackward
    BY <2>8, <2>0, <2>b DEF RefuseBackward, Indexing, MovesForward
  <2>9. CASE RefuseDuplicate
    <3>1. migrations[position].from = position - 1
      BY <2>9, <2>0, <2>b DEF RefuseDuplicate, Indexing
    <3>2. QED
      BY <2>9, <2>0, <3>1 DEF RefuseDuplicate, ManagedInv
  <2>10. CASE IndexMigration
    <3>1. migrations[position].from = position - 1
      BY <2>10, <2>0, <2>b DEF IndexMigration, Indexing
    <3>2. DOMAIN byFrom' = DOMAIN byFrom \cup {position - 1} /\ position' = position + 1
      BY <2>10, <3>1 DEF IndexMigration
    <3>3. \A v \in DOMAIN byFrom' : v < position' - 1
      BY <2>0, <3>2 DEF ManagedInv, TypeOK, Versions
    <3>4. QED
      BY <2>10, <3>3 DEF IndexMigration, Indexing, ManagedInv
  <2>11. CASE StartWalk
    BY <2>11, <2>0 DEF StartWalk, ManagedInv, ChainInv, WalkInv
  <2>12. CASE RefuseGap
    <3>1. caller = "program"
      <4> SUFFICES ASSUME caller # "program" PROVE FALSE
        OBVIOUS
      <4>1. cursor < version /\ position = version + 1
        BY <2>12, <2>0, <2>b DEF RefuseGap, Walking, ManagedInv, ChainInv, WalkInv, Walked
      <4>2. migrations[cursor + 1].from = cursor
        BY <4>1, <2>0, <2>b
      <4>3. cursor \in DOMAIN byFrom
        BY <4>1, <4>2, <2>0 DEF ChainInv, IndexInv
      <4>4. QED
        BY <4>3, <2>12 DEF RefuseGap
    <3>2. QED
      BY <3>1, <2>12 DEF RefuseGap, Walking, Answer, ManagedInv
  <2>13. CASE FollowMigration
    <3>1. byFrom[cursor].to <= version
      BY <2>13, <2>b DEF FollowMigration, ChainInv, IndexInv
    <3>2. QED
      BY <3>1, <2>13 DEF FollowMigration, Walking, ManagedInv
  <2>14. CASE RefuseOvershoot
    BY <2>14, <2>0 DEF RefuseOvershoot, Answer, ManagedInv
  <2>15. CASE AnswerChain
    BY <2>15 DEF AnswerChain, Answer, ManagedInv
  <2>16. CASE Return
    <3>1. caller = "constructor" => outcome = "resolved"
      <4> SUFFICES ASSUME caller = "constructor" PROVE outcome = "resolved"
        OBVIOUS
      <4>1. phase # "idle" /\ outcome # "none"
        BY <2>16 DEF Return, ChainInv, OutcomeInv
      <4>2. outcome # "newer"
        BY <4>1, <2>0 DEF ManagedInv, ChainInv, OutcomeInv
      <4>3. QED
        BY <4>1, <4>2 DEF ManagedInv
    <3>2. QED
      BY <3>1, <2>16 DEF Return, ManagedInv
  <2>17. CASE UNCHANGED vars
    BY <2>17 DEF vars, ManagedInv
  <2>18. QED
    BY <2>1, <2>2, <2>3, <2>4, <2>5, <2>6, <2>7, <2>8, <2>9, <2>10, <2>11, <2>12,
       <2>13, <2>14, <2>15, <2>16, <2>17
    DEF Next, Construct, ResolveStep
<1>3. ManagedInv => ManagedAlwaysResolves
  BY DEF ManagedInv, ManagedAlwaysResolves
<1>4. QED
  BY <1>1, <1>2, <1>3, ChainInvariant, PTL DEF Spec

----------------------------------------------------------------------------
(* What the constructor's own call is worth to a snapshot.                 *)

Served(v) ==
    v = version \/ (Indexable(migrations) /\ \E p \in Seq(Links) : IsChain(p, v, version))

ServedInv ==
    /\ caller = "constructor" /\ phase # "idle" => to = version /\ Earliest(from)
    /\ caller = "migrate" /\ phase # "idle" => to = version /\ schema = "accepted"
    /\ outcome \in {"backward", "duplicate"} => from < to
    /\ schema = "accepted" => \A v \in Versions : Earliest(v) => Served(v)

(* There is one earliest version.                                          *)
LEMMA OneEarliest ==
  ASSUME TypeOK, NEW v \in Versions, NEW w \in Versions, Earliest(v), Earliest(w)
  PROVE  v = w
<1>1. v <= w /\ w <= v
  BY DEF Earliest
<1>2. QED
  BY <1>1 DEF Versions

(* EarliestAlwaysResolves, for every array the constructor accepts.        *)
THEOREM EarliestResolves == Spec => []EarliestAlwaysResolves
<1>1. Init => ServedInv
  BY DEF Init, ServedInv
<1>2. ChainInv /\ UniqueInv /\ ServedInv /\ [Next]_vars => ServedInv'
  <2> SUFFICES ASSUME ChainInv, UniqueInv, ServedInv, [Next]_vars PROVE ServedInv'
    OBVIOUS
  <2> USE DEF declaration, call
  <2>0. TypeOK /\ migrations' = migrations /\ version' = version
    BY DeclarationFixed DEF ChainInv
  <2>s. \A v : (Earliest(v)' <=> Earliest(v)) /\ (Served(v)' <=> Served(v))
    BY <2>0 DEF Earliest, Served, Links, Declared, Indexable, IsChain, Leads
  <2>a. ASSUME UNCHANGED <<schema, caller, from, to>>,
               phase # "idle",
               outcome' \in {"backward", "duplicate"} => from < to
        PROVE  ServedInv'
    BY <2>a, <2>0, <2>s DEF ServedInv
  <2>b. phase = "idle" => outcome = "none"
    BY DEF ChainInv, OutcomeInv
  <2>1. CASE AcceptWithoutMigrations
    <3>1. \A v : ~Earliest(v)
      BY <2>1 DEF AcceptWithoutMigrations, Earliest, Links, Declared
    <3>2. QED
      BY <2>1, <2>b, <2>s, <3>1 DEF AcceptWithoutMigrations, Constructing, Decide, ServedInv
  <2>2. CASE RejectLatest
    BY <2>2, <2>b DEF RejectLatest, Constructing, Decide, ServedInv
  <2>3. CASE CheckFromEarliest
    BY <2>3, <2>b, <2>s, <2>0 DEF CheckFromEarliest, Constructing, Call, ServedInv
  <2>4. ASSUME NEW v \in Versions, Migrate(v) PROVE ServedInv'
    BY <2>4, <2>b, <2>s, <2>0 DEF Migrate, Call, ServedInv
  <2>5. ASSUME NEW v \in Versions, NEW w \in Versions, Ask(v, w) PROVE ServedInv'
    BY <2>5, <2>b, <2>s, <2>0 DEF Ask, Call, ServedInv
  <2>6. CASE AnswerEmpty \/ RefuseNewer \/ RefuseGap \/ RefuseOvershoot \/ AnswerChain
    BY <2>6, <2>a DEF AnswerEmpty, RefuseNewer, RefuseGap, Walking, RefuseOvershoot,
       AnswerChain, Answer
  <2>7. CASE RefuseBackward \/ RefuseDuplicate
    BY <2>7, <2>a DEF RefuseBackward, RefuseDuplicate, Indexing, Answer, ChainInv, WalkInv
  <2>8. CASE StartIndex \/ IndexMigration \/ StartWalk \/ FollowMigration
    <3>1. phase # "idle" /\ outcome = "none"
      BY <2>8 DEF StartIndex, IndexMigration, Indexing, StartWalk, FollowMigration, Walking,
         ChainInv, OutcomeInv
    <3>2. UNCHANGED <<schema, caller, from, to, outcome>>
      BY <2>8 DEF StartIndex, IndexMigration, StartWalk, FollowMigration
    <3>3. QED
      BY <2>a, <3>1, <3>2
  <2>9. CASE Return
    <3>1. /\ phase' = "idle" /\ outcome' = "none"
          /\ schema' = "accepted" => schema = "accepted" \/ caller = "constructor"
      BY <2>9 DEF Return
    <3>2. ASSUME schema' = "accepted", NEW v \in Versions, Earliest(v) PROVE Served(v)
      <4>1. CASE caller # "constructor"
        BY <2>9, <3>2, <4>1 DEF Return, ServedInv
      <4>2. CASE caller = "constructor"
        <5>1. phase # "idle" /\ outcome = "resolved"
          BY <2>9, <3>2, <4>2 DEF Return
        <5>2. to = version /\ from = v
          BY <2>0, <3>2, <4>2, <5>1, OneEarliest DEF ServedInv, TypeOK
        <5>3. chain \in Seq(Links) /\ IsChain(chain, from, to)
          BY <5>1 DEF ChainInv, AnswerInv
        <5>4. from # to => Indexable(migrations)
          <6>1. from # to => position - 1 = Len(migrations)
            BY <2>0, <5>1 DEF UniqueInv, TypeOK
          <6>2. DOMAIN migrations = 1 .. Len(migrations)
            BY <2>0 DEF TypeOK
          <6>3. QED
            BY <6>1, <6>2 DEF UniqueInv, Indexable
        <5>5. QED
          BY <5>2, <5>3, <5>4 DEF Served
      <4>3. QED
        BY <4>1, <4>2
    <3>3. QED
      BY <3>1, <3>2, <2>s DEF ServedInv
  <2>10. CASE UNCHANGED vars
    BY <2>10, <2>s DEF vars, ServedInv
  <2>11. QED
    BY <2>1, <2>2, <2>3, <2>4, <2>5, <2>6, <2>7, <2>8, <2>9, <2>10
    DEF Next, Construct, ResolveStep
<1>3. ChainInv /\ ServedInv /\ RefusedHasNoChain => EarliestAlwaysResolves
  <2> SUFFICES ASSUME ChainInv, ServedInv, RefusedHasNoChain, caller = "migrate", Earliest(from),
                      outcome \in {"backward", "duplicate", "gap", "overshoot"}
               PROVE  FALSE
    BY DEF EarliestAlwaysResolves, Refusals
  <2>1. phase # "idle" /\ to = version /\ schema = "accepted" /\ from \in Versions
    BY DEF ChainInv, OutcomeInv, ServedInv, TypeOK
  <2>2. Served(from)
    BY <2>1 DEF ServedInv
  <2>3. from < to
    BY DEF ServedInv, ChainInv, WalkInv, Walked
  <2>4. from # version
    BY <2>1, <2>3 DEF Versions
  <2>5. Indexable(migrations) /\ \E p \in Seq(Links) : IsChain(p, from, to)
    BY <2>1, <2>2, <2>4 DEF Served
  <2>6. CASE outcome \in {"backward", "duplicate"}
    BY <2>5, <2>6 DEF RefusedHasNoChain
  <2>7. CASE outcome \in {"gap", "overshoot"}
    BY <2>5, <2>7, NoChainAtAll
  <2>8. QED
    BY <2>6, <2>7
<1>4. QED
  BY <1>1, <1>2, <1>3, ChainInvariant, UniqueInvariant, RefusalsAreRight, PTL DEF Spec
=============================================================================

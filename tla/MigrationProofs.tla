-------------------------- MODULE MigrationProofs --------------------------
(***************************************************************************)
(* Proofs about Migration.tla for any schemas, files and migrations.       *)
(***************************************************************************)
EXTENDS Migration, TLAPS, SequenceTheorems

Phases == {"idle", "step", "up", "check", "migrated", "writing", "served", "refused"}

(* The engine holds a chain that ends at the schema's version, and the     *)
(* file it was opened from stays in place, until a snapshot of this build  *)
(* is there to replace it.                                                 *)
EngineInv ==
    /\ schema.version \in Nat /\ file.version \in Nat /\ Len(schema.migrations) \in Nat
    /\ phase \in Phases
    /\ phase \in {"step", "up", "check"} =>
          /\ chain \in Seq(Declared(schema.migrations))
          /\ chain # <<>>
          /\ chain[Len(chain)].to = schema.version
    /\ phase \in {"step", "up", "check", "migrated"} => ~torn /\ ~Matches(file)
    /\ phase = "writing" => torn /\ file = bytes
    /\ phase \in {"migrated", "writing", "served"} => Matches(bytes)

(* A chain from below the schema's version is not empty and ends there.    *)
LEMMA ChainLands ==
  ASSUME NEW array, NEW v \in Nat, NEW w \in Nat, v < w, Len(array) \in Nat,
         NEW p \in ChainsIn(array, v, w)
  PROVE  p \in Seq(Declared(array)) /\ p # <<>> /\ p[Len(p)].to = w
<1>1. p \in Seq(Declared(array))
  BY DEF ChainsIn
<1>2. IsChain(p, v, w) /\ v # w
  BY DEF ChainsIn
<1>3. QED
  BY <1>1, <1>2 DEF IsChain, Leads

(* So does what is left of it after a step that was not the last.          *)
LEMMA TailLands ==
  ASSUME NEW S, NEW c \in Seq(S), c # <<>>, Len(c) # 1
  PROVE  Tail(c) \in Seq(S) /\ Tail(c) # <<>> /\ Tail(c)[Len(Tail(c))] = c[Len(c)]
<1>1. Len(c) \in Nat \ {0}
  BY EmptySeq
<1>2. Tail(c) \in Seq(S) /\ Len(Tail(c)) = Len(c) - 1
      /\ \A i \in 1 .. Len(Tail(c)) : Tail(c)[i] = c[i + 1]
  BY HeadTailProperties
<1>3. Len(Tail(c)) \in 1 .. Len(Tail(c)) /\ Len(Tail(c)) + 1 = Len(c)
  BY <1>1, <1>2
<1>4. Tail(c) # <<>>
  <2>1. Len(<<>>) = 0
    BY EmptySeq
  <2>2. Len(Tail(c)) # 0
    BY <1>3
  <2>3. QED
    BY <2>1, <2>2
<1>5. QED
  BY <1>2, <1>3, <1>4

LEMMA RefuseKeeps ==
  ASSUME EngineInv, NEW why, Refuse(why)
  PROVE  EngineInv'
  BY DEF EngineInv, Refuse, Phases, Matches

LEMMA ForgetKeeps ==
  ASSUME EngineInv, Forget
  PROVE  EngineInv'
  BY DEF EngineInv, Forget, Phases, Matches

THEOREM EngineInvariant == Spec => []EngineInv
<1>1. Init => EngineInv
  <2> SUFFICES ASSUME Init PROVE EngineInv
    OBVIOUS
  <2>1. PICK s \in Scenarios : schema = s.schema /\ file = s.file
    BY DEF Init
  <2>2. IsSnapshot(s.file) /\ s.schema.version \in Nat
        /\ s.schema.migrations \in Seq(Declared(s.schema.migrations))
    BY ScenariosAssumption
  <2>3. Len(schema.migrations) \in Nat
    BY <2>1, <2>2
  <2>4. QED
    BY <2>1, <2>2, <2>3 DEF Init, EngineInv, Phases, IsSnapshot
<1>2. EngineInv /\ [Next]_vars => EngineInv'
  <2> SUFFICES ASSUME EngineInv, [Next]_vars PROVE EngineInv'
    OBVIOUS
  <2> USE DEF step, history
  <2>1. CASE RefuseTorn \/ RefuseMismatch \/ RefusePath
    BY <2>1, RefuseKeeps DEF RefuseTorn, RefuseMismatch, RefusePath
  <2>2. CASE ServeCurrent
    BY <2>2 DEF ServeCurrent, Read, EngineInv, Phases, Matches
  <2>3. CASE StartMigrating
    <3>1. /\ file.version < schema.version
          /\ chain' \in ChainsIn(schema.migrations, file.version, schema.version)
          /\ schema' = schema
      BY <2>3 DEF StartMigrating, Resolvable
    <3>2. /\ chain' \in Seq(Declared(schema.migrations)) /\ chain' # <<>>
          /\ chain'[Len(chain')].to = schema.version
      BY <3>1, ChainLands DEF EngineInv
    <3>3. QED
      BY <2>3, <3>1, <3>2 DEF StartMigrating, Read, EngineInv, Phases, Matches
  <2>4. CASE RefuseNoTable \/ RefuseUnlisted \/ RefuseTwice \/ RefuseMisfit
    BY <2>4, RefuseKeeps DEF RefuseNoTable, RefuseUnlisted, RefuseTwice, RefuseMisfit
  <2>5. CASE BeginStep
    BY <2>5 DEF BeginStep, Deriving, EngineInv, Phases, Matches
  <2>6. CASE RefuseConflict \/ RefuseLoss \/ UpThrow
    BY <2>6, RefuseKeeps DEF RefuseConflict, RefuseLoss, UpThrow
  <2>7. ASSUME NEW n \in DOMAIN builders, NEW content \in Writable, UpWrite(n, content)
        PROVE  EngineInv'
    BY <2>7 DEF UpWrite, EngineInv, Phases, Matches
  <2>8. CASE UpReturn
    BY <2>8 DEF UpReturn, EngineInv, Phases, Matches
  <2>9. CASE FinishStep
    <3>1. /\ chain \in Seq(Declared(schema.migrations)) /\ chain # <<>>
          /\ chain[Len(chain)].to = schema.version /\ ~torn /\ ~Matches(file)
      BY <2>9 DEF FinishStep, EngineInv
    <3>2. UNCHANGED <<schema, file, torn>> /\ chain' = Tail(chain)
      BY <2>9 DEF FinishStep, Rest
    <3>3. CASE IsLast
      <4>a. Head(chain) = chain[1] /\ Len(chain) = 1
        BY <3>1, <3>3, HeadTailProperties DEF IsLast
      <4>1. Len(chain) = 1 /\ Migration.to = schema.version
        BY <3>1, <4>a DEF Migration
      <4>2. bytes'.version = schema.version /\ bytes'.hash = schema.hash /\ phase' = "migrated"
        BY <2>9, <3>3, <4>1 DEF FinishStep, Stamp
      <4>3. QED
        BY <3>1, <3>2, <4>2 DEF EngineInv, Phases, Matches
    <3>4. CASE ~IsLast
      <4>1. Tail(chain) \in Seq(Declared(schema.migrations)) /\ Tail(chain) # <<>>
            /\ Tail(chain)[Len(Tail(chain))] = chain[Len(chain)]
        BY <3>1, <3>4, TailLands DEF IsLast
      <4>2. phase' = "step"
        BY <2>9, <3>4 DEF FinishStep
      <4>3. chain' \in Seq(Declared(schema.migrations))'
        BY <3>2, <4>1
      <4>4. chain' # <<>> /\ chain'[Len(chain')].to = schema'.version
        BY <3>1, <3>2, <4>1
      <4>5. QED
        BY <3>1, <3>2, <4>2, <4>3, <4>4 DEF EngineInv, Phases, Matches
    <3>5. QED
      BY <3>3, <3>4
  <2>10. CASE ServeMigrated
    BY <2>10 DEF ServeMigrated, EngineInv, Phases, Matches
  <2>11. CASE StartWriting
    BY <2>11 DEF StartWriting, EngineInv, Phases, Matches
  <2>12. CASE FinishWriting
    BY <2>12 DEF FinishWriting, EngineInv, Phases, Matches
  <2>13. CASE Close \/ Crash
    BY <2>13, ForgetKeeps DEF Close, Crash
  <2>14. CASE UNCHANGED vars
    BY <2>14 DEF vars, EngineInv, Matches
  <2>15. QED
    BY <2>1, <2>2, <2>3, <2>4, <2>5, <2>6, <2>7, <2>8, <2>9, <2>10, <2>11, <2>12,
       <2>13, <2>14
    DEF Next, Open, RunStep, Up, WriteBack
<1>3. QED
  BY <1>1, <1>2, PTL DEF Spec

(* ServedMatches, for every schema, file and chain.                        *)
THEOREM OpenGivesThisBuild == Spec => []ServedMatches
<1>1. EngineInv => ServedMatches
  BY DEF EngineInv, ServedMatches
<1>2. QED
  BY <1>1, EngineInvariant, PTL

----------------------------------------------------------------------------
(* Opening a file implements Upgrade.tla.                                  *)

LEMMA RefusalRefines ==
  ASSUME EngineInv, NEW why, Refuse(why), mode = "idle", torn \/ ~Matches(file)
  PROVE  Promise!Refuse
<1>1. disk # "current"
  BY DEF disk
<1>2. disk' = disk
  BY DEF Refuse, disk, Matches
<1>3. mode' = "refused"
  BY DEF Refuse, mode
<1>4. QED
  BY <1>1, <1>2, <1>3 DEF Promise!Refuse

THEOREM Upgrades == Spec => UpgradePromise
<1> USE DEF step, history
<1>1. Init => Promise!Init
  BY DEF Init, Promise!Init, disk, mode
<1>2. EngineInv /\ EngineInv' /\ [Next]_vars => [Promise!Next]_(Promise!vars)
  <2> SUFFICES ASSUME EngineInv, EngineInv', [Next]_vars
               PROVE  Promise!Next \/ UNCHANGED <<disk, mode>>
    BY DEF Promise!vars
  <2> USE DEF Promise!Next
  <2>a. ASSUME UNCHANGED <<schema, file, torn>>,
               phase \notin {"writing", "served", "refused"},
               phase' \notin {"writing", "served", "refused"}
        PROVE  UNCHANGED <<disk, mode>>
    BY <2>a DEF disk, mode, Matches
  <2>1. CASE RefuseTorn \/ RefuseMismatch \/ RefusePath
    <3>1. mode = "idle" /\ (torn \/ ~Matches(file))
      BY <2>1 DEF RefuseTorn, RefuseMismatch, RefusePath, Opening, mode
    <3>2. QED
      BY <2>1, <3>1, RefusalRefines DEF RefuseTorn, RefuseMismatch, RefusePath
  <2>2. CASE ServeCurrent
    <3>1. mode = "idle" /\ mode' = "served"
      BY <2>2 DEF ServeCurrent, Read, Opening, mode
    <3>2. disk # "torn" /\ disk' = disk
      BY <2>2 DEF ServeCurrent, Read, disk, Matches
    <3>3. QED
      BY <3>1, <3>2 DEF Promise!Serve
  <2>3. CASE StartMigrating
    BY <2>3, <2>a DEF StartMigrating, Read, Opening
  <2>4. CASE \/ RefuseNoTable \/ RefuseUnlisted \/ RefuseTwice \/ RefuseMisfit
             \/ RefuseConflict \/ RefuseLoss \/ UpThrow
    <3>1. phase \in {"step", "up", "check"}
      BY <2>4 DEF RefuseNoTable, RefuseUnlisted, RefuseTwice, RefuseMisfit, Deriving,
         RefuseConflict, RefuseLoss, UpThrow
    <3>2. mode = "idle" /\ ~Matches(file)
      BY <3>1 DEF mode, EngineInv
    <3>3. QED
      BY <2>4, <3>2, RefusalRefines DEF RefuseNoTable, RefuseUnlisted, RefuseTwice,
         RefuseMisfit, RefuseConflict, RefuseLoss, UpThrow
  <2>5. CASE BeginStep
    BY <2>5, <2>a DEF BeginStep, Deriving
  <2>6. ASSUME NEW n \in DOMAIN builders, NEW content \in Writable, UpWrite(n, content)
        PROVE  UNCHANGED <<disk, mode>>
    BY <2>6, <2>a DEF UpWrite
  <2>7. CASE UpReturn \/ FinishStep
    BY <2>7, <2>a DEF UpReturn, FinishStep
  <2>8. CASE ServeMigrated
    <3>1. mode = "idle" /\ mode' = "served"
      BY <2>8 DEF ServeMigrated, mode
    <3>2. disk # "torn" /\ disk' = disk
      BY <2>8 DEF ServeMigrated, EngineInv, disk, Matches
    <3>3. QED
      BY <3>1, <3>2 DEF Promise!Serve
  <2>9. CASE StartWriting
    <3>1. mode = "idle" /\ mode' = "saving"
      BY <2>9 DEF StartWriting, mode
    <3>2. disk = "old" /\ disk' = "torn"
      BY <2>9 DEF StartWriting, EngineInv, disk
    <3>3. QED
      BY <3>1, <3>2 DEF Promise!StartSave
  <2>10. CASE FinishWriting
    <3>1. mode = "saving" /\ mode' = "served"
      BY <2>10 DEF FinishWriting, mode
    <3>2. disk' = "current"
      BY <2>10 DEF FinishWriting, EngineInv, disk, Matches
    <3>3. QED
      BY <3>1, <3>2 DEF Promise!FinishSave
  <2>11. CASE Close
    <3>1. mode \in {"served", "refused"} /\ mode' = "idle" /\ disk' = disk
      BY <2>11 DEF Close, Forget, mode, disk, Matches
    <3>2. QED
      BY <3>1 DEF Promise!Close
  <2>12. CASE Crash
    <3>1. mode' = "idle" /\ Matches(file)' = Matches(file)
      BY <2>12 DEF Crash, Forget, mode, Matches
    <3>2. CASE phase = "writing"
      <4>1. mode = "saving" /\ Matches(file)
        BY <3>2 DEF mode, EngineInv
      <4>2. disk' \in {"torn", "current"}
        BY <3>1, <4>1 DEF disk
      <4>3. QED
        BY <3>1, <4>1, <4>2 DEF Promise!Crash
    <3>3. CASE phase # "writing"
      <4>1. mode = "idle" /\ disk' = disk
        BY <2>12, <3>1, <3>3 DEF Crash, mode, disk
      <4>2. QED
        BY <3>1, <4>1
    <3>4. QED
      BY <3>2, <3>3
  <2>13. CASE UNCHANGED vars
    BY <2>13 DEF vars, disk, mode, Matches
  <2>14. QED
    BY <2>1, <2>2, <2>3, <2>4, <2>5, <2>6, <2>7, <2>8, <2>9, <2>10, <2>11, <2>12, <2>13
    DEF Next, Open, RunStep, Up, WriteBack
<1>3. QED
  BY <1>1, <1>2, EngineInvariant, PTL DEF Spec, UpgradePromise, Promise!Spec

----------------------------------------------------------------------------
(* What up() writes.                                                       *)

(* The only step that leaves "check" for what comes next.                  *)
LEMMA StepFinishedIsFinish ==
  ASSUME Next, StepFinished
  PROVE  FinishStep
  BY DEF StepFinished, Next, Open, RefuseTorn, ServeCurrent, RefuseMismatch, RefusePath,
     StartMigrating, Read, Opening, RunStep, RefuseNoTable, RefuseUnlisted, RefuseTwice,
     RefuseMisfit, BeginStep, Deriving, RefuseConflict, RefuseLoss, Refuse, Up, UpWrite,
     UpReturn, UpThrow, ServeMigrated, WriteBack, StartWriting, FinishWriting, Close,
     Crash, Forget

(* The builders hold what up() last wrote to them.                         *)
WroteInv ==
    \A n \in DOMAIN aux_wrote : n \in DOMAIN builders /\ builders[n] = aux_wrote[n]

THEOREM WroteInvariant == Spec => []WroteInv
<1> USE DEF step, history
<1>1. Init => WroteInv
  BY DEF Init, WroteInv, Nothing
<1>2. WroteInv /\ [Next]_vars => WroteInv'
  <2> SUFFICES ASSUME WroteInv, [Next]_vars PROVE WroteInv'
    OBVIOUS
  <2>a. ASSUME ClearStep PROVE WroteInv'
    BY <2>a DEF ClearStep, WroteInv, Nothing
  <2>b. ASSUME UNCHANGED <<builders, aux_wrote>> PROVE WroteInv'
    BY <2>b DEF WroteInv
  <2>1. CASE Open
    BY <2>1, <2>a, <2>b DEF Open, RefuseTorn, ServeCurrent, RefuseMismatch, RefusePath,
       StartMigrating, Refuse
  <2>2. CASE RunStep /\ ~BeginStep
    BY <2>2, <2>a DEF RunStep, RefuseNoTable, RefuseUnlisted, RefuseTwice, RefuseMisfit,
       RefuseConflict, RefuseLoss, FinishStep, Refuse
  <2>3. CASE BeginStep
    BY <2>3 DEF BeginStep, WroteInv, Nothing
  <2>4. ASSUME NEW n \in DOMAIN builders, NEW content \in Writable, UpWrite(n, content)
        PROVE  WroteInv'
    <3>1. /\ builders' = [builders EXCEPT ![n] = content]
          /\ aux_wrote' = [k \in DOMAIN aux_wrote \cup {n} |->
                              IF k = n THEN content ELSE aux_wrote[k]]
      BY <2>4 DEF UpWrite
    <3>2. QED
      BY <3>1 DEF WroteInv
  <2>5. CASE UpReturn \/ UpThrow \/ ServeMigrated \/ WriteBack \/ Close \/ Crash
    BY <2>5, <2>a, <2>b DEF UpReturn, UpThrow, Refuse, ServeMigrated, WriteBack,
       StartWriting, FinishWriting, Close, Crash, Forget
  <2>6. CASE UNCHANGED vars
    BY <2>6, <2>b DEF vars
  <2>7. QED
    BY <2>1, <2>2, <2>3, <2>4, <2>5, <2>6 DEF Next, Up
<1>3. QED
  BY <1>1, <1>2, PTL DEF Spec

(* Whatever up() leaves in a builder is in the snapshot of the step:       *)
(* nothing that is carried replaces it (builder.ts:47-68).                 *)
THEOREM WritesReachTheSnapshot == Spec => WritesArrive
<1> USE DEF step, history
<1>1. WroteInv /\ [Next]_vars =>
        [StepFinished =>
           \A n \in DOMAIN aux_wrote :
              aux_wrote[n] # Empty => bytes'.data[n] = aux_wrote[n]]_vars
  <2> SUFFICES ASSUME WroteInv, Next, StepFinished,
                      NEW n \in DOMAIN aux_wrote, aux_wrote[n] # Empty
               PROVE  bytes'.data[n] = aux_wrote[n]
    OBVIOUS
  <2>1. FinishStep
    BY StepFinishedIsFinish
  <2>2. n \in DOMAIN builders /\ builders[n] = aux_wrote[n]
    BY DEF WroteInv
  <2>3. n \notin carried
    BY <2>1, <2>2 DEF FinishStep, Conflict
  <2>4. bytes'.data[n] = Emitted(n)
    BY <2>1, <2>2 DEF FinishStep
  <2>5. QED
    BY <2>2, <2>3, <2>4 DEF Emitted
<1>2. QED
  BY <1>1, WroteInvariant, PTL DEF Spec, WritesArrive
----------------------------------------------------------------------------
(* What is carried.                                                        *)

(* The migrations are careful: the one that runs next starts its renames   *)
(* at fields that are there.                                               *)
CarefulSteps == phase = "step" => Careful(Migration, Layout)

Typed(s) == IsLayout(s.hash.layout) /\ DOMAIN s.data = Plain(s.hash.layout)

(* What a layout has of the fields of an earlier one.                      *)
Follows(later, m, layout) ==
    \A n \in Kept(m, layout) :
        LET k == NewName(m, n)
        IN  k \in DOMAIN later /\ (k \notin Defined(m) => later[k] = Remap(m, layout[n]))

(* runStep's locals follow from the migration and the bytes it began with. *)
StepInv ==
    /\ Follows(compiled, Migration, Layout)
    /\ IsLayout(compiled)
    /\ IsLast => compiled = Target
    /\ Derivable(Migration, Layout)
    /\ Careful(Migration, Layout)
    /\ \E r \in Reversals(Migration) : sourceNameOf = Sources(compiled, r)
    /\ carried = Carries(Migration, compiled, sourceNameOf)
    /\ DOMAIN builders = Plain(compiled)

CarryInv ==
    /\ Typed(file) /\ Typed(bytes)
    /\ IsLayout(Target)
    /\ \A m \in Declared(schema.migrations) : IsMigration(m)
    /\ phase \in {"up", "check"} => StepInv
    /\ SilenceCarries

(* With careful migrations the field a name stood for is the one the       *)
(* engine looks for.                                                       *)
LEMMA SourceIsFound ==
  ASSUME NEW m, NEW layout, Careful(m, layout), Derivable(m, layout),
         NEW r \in Reversals(m), NEW n \in Kept(m, layout)
  PROVE  (IF NewName(m, n) \in DOMAIN r THEN r[NewName(m, n)] ELSE NewName(m, n)) = n
<1> DEFINE k == NewName(m, n)
<1>1. /\ DOMAIN r = {m.renames[j] : j \in DOMAIN m.renames}
      /\ \A x \in DOMAIN r : r[x] \in DOMAIN m.renames /\ m.renames[r[x]] = x
  BY DEF Reversals
<1>2. CASE k \in DOMAIN r
  <2>1. r[k] \in DOMAIN m.renames /\ m.renames[r[k]] = k
    BY <1>1, <1>2
  <2>2. r[k] \in Kept(m, layout) /\ NewName(m, r[k]) = NewName(m, n)
    BY <2>1 DEF Careful, NewName
  <2>3. r[k] = n
    BY <2>2 DEF Derivable
  <2>4. QED
    BY <1>2, <2>3
<1>3. CASE k \notin DOMAIN r
  <2>1. n \notin DOMAIN m.renames
    BY <1>1, <1>3 DEF NewName
  <2>2. QED
    BY <1>3, <2>1 DEF NewName
<1>4. QED
  BY <1>2, <1>3

LEMMA DerivedFollows ==
  ASSUME NEW m, NEW layout, Derivable(m, layout)
  PROVE  Follows(Derived(m, layout), m, layout)
<1> SUFFICES ASSUME NEW n \in Kept(m, layout)
             PROVE  /\ NewName(m, n) \in DOMAIN Derived(m, layout)
                    /\ NewName(m, n) \notin Defined(m) =>
                           Derived(m, layout)[NewName(m, n)] = Remap(m, layout[n])
  BY DEF Follows
<1> DEFINE arriving == {NewName(m, j) : j \in Kept(m, layout)}
           coming(k) == CHOOSE j \in Kept(m, layout) : NewName(m, j) = k
           signature(k) == IF k \in Defined(m) THEN Definition(m, k)
                                                ELSE Remap(m, layout[coming(k)])
<1>1. Derived(m, layout) = [k \in arriving \cup Defined(m) |-> signature(k)]
  BY DEF Derived
<1>2. coming(NewName(m, n)) = n
  BY DEF Derivable
<1>3. NewName(m, n) \in arriving
  OBVIOUS
<1>4. NewName(m, n) \notin Defined(m) => signature(NewName(m, n)) = Remap(m, layout[n])
  BY <1>2
<1> HIDE DEF arriving, signature
<1>5. QED
  BY <1>1, <1>3, <1>4

LEMMA SourcesExist ==
  ASSUME StepInv, NEW n \in DOMAIN sourceNameOf
  PROVE  n \in Plain(compiled) /\ sourceNameOf[n] \in DOMAIN Layout
<1>1. PICK r \in Reversals(Migration) : sourceNameOf = Sources(compiled, r)
  BY DEF StepInv
<1> DEFINE source(j) == IF j \in DOMAIN r THEN r[j] ELSE j
           found == {j \in Plain(compiled) : source(j) \in DOMAIN Layout}
<1>2. sourceNameOf = [j \in found |-> source(j)]
  BY <1>1 DEF Sources
<1>3. \A j \in found : j \in Plain(compiled) /\ source(j) \in DOMAIN Layout
  OBVIOUS
<1> HIDE DEF source, found
<1>4. QED
  BY <1>2, <1>3

(* A plain field that is kept is found under its new name; one that        *)
(* nothing defines or rebuilds is carried.                                 *)
LEMMA KeptIsCarried ==
  ASSUME CarryInv, StepInv, NEW n \in Kept(Migration, Layout),
         NewName(Migration, n) \in Plain(compiled)
  PROVE  LET k == NewName(Migration, n)
         IN  /\ k \in DOMAIN sourceNameOf /\ sourceNameOf[k] = n
             /\ k \notin Defined(Migration) \cup Migration.rebuilds =>
                   /\ k \in carried
                   /\ compiled[k] = Remap(Migration, Layout[n])
<1> DEFINE k == NewName(Migration, n)
<1>1. PICK r \in Reversals(Migration) : sourceNameOf = Sources(compiled, r)
  BY DEF StepInv
<1>2. (IF k \in DOMAIN r THEN r[k] ELSE k) = n
  BY SourceIsFound DEF StepInv
<1>3. n \in DOMAIN Layout
  BY DEF Kept
<1>4. k \in DOMAIN sourceNameOf /\ sourceNameOf[k] = n
  <2> DEFINE source(j) == IF j \in DOMAIN r THEN r[j] ELSE j
             found == {j \in Plain(compiled) : source(j) \in DOMAIN Layout}
  <2>1. sourceNameOf = [j \in found |-> source(j)]
    BY <1>1 DEF Sources
  <2>2. source(k) = n /\ k \in found
    BY <1>2, <1>3
  <2> HIDE DEF source, found
  <2>3. QED
    BY <2>1, <2>2
<1>5. ASSUME k \notin Defined(Migration) \cup Migration.rebuilds
      PROVE  k \in carried /\ compiled[k] = Remap(Migration, Layout[n])
  <2>1. compiled[k] = Remap(Migration, Layout[n])
    BY <1>5 DEF StepInv, Follows
  <2>2. carried = {j \in DOMAIN sourceNameOf :
                      /\ Remap(Migration, Layout[sourceNameOf[j]]) = compiled[j]
                      /\ j \notin Migration.rebuilds}
    BY DEF StepInv, Carries
  <2>3. QED
    BY <1>4, <1>5, <2>1, <2>2
<1>6. QED
  BY <1>4, <1>5

(* A derived layout is a layout.                                           *)
LEMMA DerivedTyped ==
  ASSUME NEW m, NEW layout, IsLayout(layout), IsMigration(m), IsLayout(Target),
         m.listed \subseteq DOMAIN Target
  PROVE  IsLayout(Derived(m, layout))
<1> DEFINE arriving == {NewName(m, n) : n \in Kept(m, layout)}
           coming(k) == CHOOSE n \in Kept(m, layout) : NewName(m, n) = k
           signature(k) == IF k \in Defined(m) THEN Definition(m, k)
                                                ELSE Remap(m, layout[coming(k)])
<1>1. Derived(m, layout) = [k \in arriving \cup Defined(m) |-> signature(k)]
  BY DEF Derived
<1>2. \A n \in Names \cup {""} : NewName(m, n) \in Names \cup {""}
  BY DEF NewName, IsMigration
<1>3. arriving \cup Defined(m) \subseteq Names
  <2>1. \A n \in Kept(m, layout) : NewName(m, n) \in Names
    BY DEF Kept, NewName, IsMigration, IsLayout
  <2>2. Defined(m) \subseteq Names
    BY DEF Defined, IsMigration, IsLayout
  <2>3. QED
    BY <2>1, <2>2
<1>4. ASSUME NEW k \in arriving \cup Defined(m) PROVE signature(k) \in Signature
  <2>1. CASE k \in Defined(m)
    BY <2>1 DEF Defined, Definition, IsMigration, IsLayout
  <2>2. CASE k \notin Defined(m)
    <3>1. \E n \in Kept(m, layout) : NewName(m, n) = k
      BY <1>4, <2>2
    <3>2. coming(k) \in DOMAIN layout
      BY <3>1 DEF Kept
    <3>3. layout[coming(k)] \in Signature
      BY <3>2 DEF IsLayout
    <3> HIDE DEF coming
    <3>4. \A v \in Signature : Remap(m, v) \in Signature
      BY <1>2 DEF Remap, Signature
    <3>5. QED
      BY <2>2, <3>3, <3>4
  <2>3. QED
    BY <2>1, <2>2
<1> HIDE DEF arriving, signature
<1>5. QED
  BY <1>1, <1>3, <1>4 DEF IsLayout

LEMMA CarryInvInit == Init => CarryInv
<1> SUFFICES ASSUME Init PROVE CarryInv
  OBVIOUS
<1>1. PICK s \in Scenarios : schema = s.schema /\ file = s.file
  BY DEF Init
<1>2. /\ IsSnapshot(s.file) /\ IsLayout(s.schema.hash.layout)
      /\ \A m \in Declared(s.schema.migrations) : IsMigration(m)
  BY ScenariosAssumption
<1>3. Typed(file) /\ bytes = file
  BY <1>1, <1>2 DEF Typed, IsSnapshot, Init
<1>4. IsLayout(Target)
  BY <1>1, <1>2 DEF Target
<1>5. SilenceCarries /\ phase = "idle"
  BY DEF Init, SilenceCarries, Nothing
<1>6. QED
  BY <1>1, <1>2, <1>3, <1>4, <1>5 DEF CarryInv

(* The migration that runs next is one of those declared.                  *)
LEMMA NextIsDeclared ==
  ASSUME EngineInv, CarryInv, phase \in {"step", "up", "check"}
  PROVE  Migration \in Declared(schema.migrations) /\ IsMigration(Migration)
<1>1. chain \in Seq(Declared(schema.migrations)) /\ chain # <<>>
  BY DEF EngineInv
<1>2. Head(chain) \in Declared(schema.migrations)
  BY <1>1, HeadTailProperties
<1>3. QED
  BY <1>2 DEF Migration, CarryInv

LEMMA RefuseKeepsCarry ==
  ASSUME CarryInv, NEW why, Refuse(why)
  PROVE  CarryInv'
<1>1. SilenceCarries'
  BY DEF Refuse, ClearHistory, SilenceCarries, Nothing
<1>2. QED
  BY <1>1 DEF CarryInv, Refuse, Typed, Target

LEMMA ForgetKeepsCarry ==
  ASSUME CarryInv, Forget
  PROVE  CarryInv'
<1>1. SilenceCarries'
  BY DEF Forget, ClearHistory, SilenceCarries, Nothing
<1>2. QED
  BY <1>1 DEF CarryInv, Forget, Typed, Target

LEMMA ReadKeepsCarry ==
  ASSUME CarryInv, Read, UNCHANGED <<schema, file>>, phase' \notin {"up", "check"}
  PROVE  CarryInv'
<1>1. bytes' = file /\ aux_opened' = file
      /\ aux_origin' = [n \in Plain(file.hash.layout) |-> n]
  BY DEF Read
<1>2. DOMAIN file.data = Plain(file.hash.layout)
  BY DEF CarryInv, Typed
<1>3. SilenceCarries'
  BY <1>1, <1>2 DEF SilenceCarries
<1>4. QED
  BY <1>1, <1>3 DEF CarryInv, Typed, Target

(* StepInv speaks of the builders by their names alone.                    *)
LEMMA StepInvKept ==
  ASSUME StepInv, DOMAIN builders' = DOMAIN builders,
         UNCHANGED <<schema, bytes, chain, compiled, sourceNameOf, carried>>
  PROVE  StepInv'
<1>1. Migration' = Migration /\ Layout' = Layout /\ (IsLast => compiled = Target)'
  BY DEF Migration, Layout, Target, IsLast, StepInv
<1>2. (Follows(compiled, Migration, Layout) /\ IsLayout(compiled))'
  BY <1>1 DEF StepInv
<1>3. (Derivable(Migration, Layout) /\ Careful(Migration, Layout))'
  BY <1>1 DEF StepInv
<1>4. (\E r \in Reversals(Migration) : sourceNameOf = Sources(compiled, r))'
  <2>1. PICK r \in Reversals(Migration) : sourceNameOf = Sources(compiled, r)
    BY DEF StepInv
  <2>2. r \in Reversals(Migration)' /\ sourceNameOf' = Sources(compiled, r)'
    BY <2>1 DEF Reversals, Migration, Sources, Plain, Layout
  <2>3. QED
    BY <2>2
<1>5. (carried = Carries(Migration, compiled, sourceNameOf))'
  BY DEF StepInv, Carries, Migration, Layout, Remap, NewName
<1>6. (DOMAIN builders = Plain(compiled))'
  BY DEF StepInv, Plain
<1>7. QED
  BY <1>1, <1>2, <1>3, <1>4, <1>5, <1>6 DEF StepInv
(* A step begins with every field at its source.                           *)
LEMMA BeginStepSets ==
  ASSUME EngineInv, CarryInv, CarefulSteps, BeginStep
  PROVE  CarryInv'
<1>1. /\ phase = "step" /\ Migration.listed \subseteq DOMAIN Target
      /\ Derivable(Migration, Layout)
      /\ IsLast => Derived(Migration, Layout) = Target
      /\ compiled' = StepLayout
      /\ \E r \in Reversals(Migration) : sourceNameOf' = Sources(StepLayout, r)
      /\ carried' = Carries(Migration, StepLayout, sourceNameOf')
      /\ builders' = [n \in Plain(StepLayout) |-> Empty]
      /\ UNCHANGED <<schema, file, bytes, chain, aux_opened, aux_origin>>
  BY DEF BeginStep, Deriving, history
<1>2. IsMigration(Migration) /\ Careful(Migration, Layout)
  BY <1>1, NextIsDeclared DEF CarefulSteps
<1>z. compiled' = Derived(Migration, Layout)
  BY <1>1 DEF StepLayout
<1>4. Follows(compiled', Migration, Layout)
  BY <1>1, <1>z, DerivedFollows
<1>5. IsLayout(compiled')
  <2>1. IsLayout(Layout) /\ IsLayout(Target)
    BY <1>1 DEF CarryInv, Typed, Layout
  <2>2. QED
    BY <1>1, <1>2, <1>z, <2>1, DerivedTyped
<1>6. /\ Migration' = Migration /\ Layout' = Layout /\ Target' = Target
      /\ IsLast' = IsLast
  BY <1>1 DEF Migration, Layout, Target, IsLast
<1>7. (\E r \in Reversals(Migration) : sourceNameOf = Sources(compiled, r))'
  <2>1. PICK r \in Reversals(Migration) : sourceNameOf' = Sources(compiled', r)
    BY <1>1
  <2>2. r \in Reversals(Migration)'
    BY <1>6, <2>1
  <2>3. Sources(compiled', r) = Sources(compiled, r)'
    BY <1>1 DEF Sources, Layout
  <2>4. QED
    BY <2>1, <2>2, <2>3
<1>8. (carried = Carries(Migration, compiled, sourceNameOf))'
  BY <1>1 DEF Carries, Migration, Layout
<1>9. (DOMAIN builders = Plain(compiled))'
  BY <1>1
<1>10. (IsLast => compiled = Target)'
  BY <1>1, <1>6 DEF StepLayout
<1>11. StepInv'
  BY <1>1, <1>2, <1>4, <1>5, <1>6, <1>7, <1>8, <1>9, <1>10 DEF StepInv
<1>12. SilenceCarries'
  BY <1>1 DEF SilenceCarries, CarryInv
<1>13. QED
  BY <1>1, <1>11, <1>12 DEF CarryInv, Typed, Target

(* A field that a migration is silent about comes out with its bytes.      *)
LEMMA ArrivesCarried ==
  ASSUME CarryInv, StepInv, FinishStep, NEW n \in DOMAIN bytes.data, NEW k \in Plain(compiled),
         Arrives(Migration, n, k)
  PROVE  k \in carried /\ k \in DOMAIN bytes'.data /\ bytes'.data[k] = bytes.data[n]
<1>1. n \in Kept(Migration, Layout) /\ NewName(Migration, n) = k
  BY DEF CarryInv, Typed, Layout, Plain, Kept, Arrives
<1>2. /\ sourceNameOf[k] = n
      /\ k \in carried
  BY <1>1, KeptIsCarried DEF Arrives
<1>3. k \in DOMAIN builders
  BY DEF StepInv
<1>4. bytes'.data = [j \in DOMAIN builders |-> Emitted(j)]
  BY DEF FinishStep
<1>5. QED
  BY <1>2, <1>3, <1>4 DEF Emitted

LEMMA FinishKeepsCarry ==
  ASSUME EngineInv, CarryInv, FinishStep
  PROVE  CarryInv'
<1>0. StepInv
  BY DEF FinishStep, CarryInv
<1>1. /\ UNCHANGED <<schema, file, aux_opened>> /\ phase' \notin {"up", "check"}
      /\ bytes' = [version |-> Migration.to, hash |-> Stamp,
                   data |-> [n \in DOMAIN builders |-> Emitted(n)]]
      /\ aux_origin' = Origin
  BY DEF FinishStep
<1>2. bytes'.hash.layout = compiled
  BY <1>0, <1>1 DEF Stamp, Hash, Target, StepInv
<1>3. Typed(bytes)'
  BY <1>0, <1>1, <1>2 DEF StepInv, Typed
<1>4. ASSUME NEW k \in DOMAIN Origin
      PROVE  k \in DOMAIN bytes'.data /\ bytes'.data[k] = aux_opened.data[Origin[k]]
  <2> DEFINE source == CHOOSE n \in DOMAIN aux_origin : Arrives(Migration, n, k)
  <2>1. /\ k \in Plain(compiled)
        /\ \E n \in DOMAIN aux_origin : Arrives(Migration, n, k)
        /\ Origin[k] = aux_origin[source]
    BY <1>4 DEF Origin
  <2>2. source \in DOMAIN aux_origin /\ Arrives(Migration, source, k)
    BY <2>1
  <2> HIDE DEF source
  <2>3. source \in DOMAIN bytes.data /\ bytes.data[source] = aux_opened.data[aux_origin[source]]
    BY <2>2 DEF CarryInv, SilenceCarries
  <2>4. k \in DOMAIN bytes'.data /\ bytes'.data[k] = bytes.data[source]
    BY <1>0, <2>1, <2>2, <2>3, ArrivesCarried
  <2>5. QED
    BY <2>1, <2>3, <2>4
<1>5. SilenceCarries'
  BY <1>1, <1>4 DEF SilenceCarries
<1>6. QED
  BY <1>1, <1>3, <1>5 DEF CarryInv, Typed, Target

LEMMA CarryStep ==
  ASSUME EngineInv, CarryInv, CarefulSteps, [Next]_vars
  PROVE  CarryInv'
<1> USE DEF step, history
<1>1. CASE \/ RefuseTorn \/ RefuseMismatch \/ RefusePath
           \/ RefuseNoTable \/ RefuseUnlisted \/ RefuseTwice \/ RefuseMisfit
           \/ RefuseConflict \/ RefuseLoss \/ UpThrow
  BY <1>1, RefuseKeepsCarry DEF RefuseTorn, RefuseMismatch, RefusePath, RefuseNoTable,
     RefuseUnlisted, RefuseTwice, RefuseMisfit, RefuseConflict, RefuseLoss, UpThrow
<1>2. CASE ServeCurrent \/ StartMigrating
  BY <1>2, ReadKeepsCarry DEF ServeCurrent, StartMigrating
<1>3. CASE BeginStep
  BY <1>3, BeginStepSets
<1>4. ASSUME NEW n \in DOMAIN builders, NEW content \in Writable, UpWrite(n, content)
      PROVE  CarryInv'
  <2>1. /\ DOMAIN builders' = DOMAIN builders /\ phase = "up"
        /\ UNCHANGED <<schema, file, bytes, chain, compiled, sourceNameOf, carried, phase,
                       aux_opened, aux_origin>>
    BY <1>4 DEF UpWrite
  <2>2. StepInv'
    BY <2>1, StepInvKept DEF CarryInv
  <2>3. QED
    BY <2>1, <2>2 DEF CarryInv, SilenceCarries, Typed, Target
<1>5. CASE UpReturn
  <2>1. /\ UNCHANGED <<schema, file, bytes, chain, compiled, sourceNameOf, carried, builders,
                       aux_opened, aux_origin>>
        /\ phase = "up" /\ phase' = "check"
    BY <1>5 DEF UpReturn
  <2>2. StepInv'
    BY <2>1, StepInvKept DEF CarryInv
  <2>3. QED
    BY <2>1, <2>2 DEF CarryInv, SilenceCarries, Typed, Target
<1>6. CASE FinishStep
  BY <1>6, FinishKeepsCarry
<1>7. CASE ServeMigrated \/ WriteBack
  <2>1. /\ UNCHANGED <<schema, bytes, aux_opened, aux_origin>> /\ file' \in {file, bytes}
        /\ phase' \notin {"up", "check"}
    BY <1>7 DEF ServeMigrated, WriteBack, StartWriting, FinishWriting
  <2>2. QED
    BY <2>1 DEF CarryInv, SilenceCarries, Typed, Target
<1>8. CASE Close \/ Crash
  BY <1>8, ForgetKeepsCarry DEF Close, Crash
<1>9. CASE UNCHANGED vars
  <2>1. UNCHANGED <<schema, file, bytes, chain, compiled, sourceNameOf, carried, builders,
                    phase, aux_opened, aux_origin>>
    BY <1>9 DEF vars
  <2>2. StepInv => StepInv'
    BY <2>1, StepInvKept
  <2>3. QED
    BY <2>1, <2>2 DEF CarryInv, SilenceCarries, Typed, Target
<1>10. QED
  BY <1>1, <1>2, <1>3, <1>4, <1>5, <1>6, <1>7, <1>8, <1>9
  DEF Next, Open, RunStep, Up

THEOREM CarryInvariant == Spec /\ []CarefulSteps => []CarryInv
  BY CarryInvInit, CarryStep, EngineInvariant, PTL DEF Spec

(* However many careful migrations there are and whatever their up() does: *)
(* a field that only renames and silence led to holds the bytes of the     *)
(* field of the opened file that it began as (migrate.ts:355-371).         *)
THEOREM SilentFieldsKeepTheirBytes == Spec /\ []CarefulSteps => []SilenceCarries
<1>1. CarryInv => SilenceCarries
  BY DEF CarryInv
<1>2. QED
  BY <1>1, CarryInvariant, PTL
(* A field that had bytes is lost with an error or not at all, by careful  *)
(* migrations, whatever up() does (migrate.ts:402-418).                    *)
THEOREM LossIsNoticed == Spec /\ []CarefulSteps => NoSilentLoss
<1> USE DEF step, history
<1>1. ASSUME CarryInv, FinishStep, NEW n \in DOMAIN bytes.data, bytes.data[n] # Empty,
             n \notin Migration.drops, NewName(Migration, n) \notin Migration.drops
      PROVE  LET k == NewName(Migration, n)
             IN  \/ compiled[k].kind = "table"
                 \/ k \in DOMAIN bytes'.data /\ HasBytes(compiled[k], bytes'.data[k])
  <2> DEFINE k == NewName(Migration, n)
  <2>1. StepInv
    BY <1>1 DEF FinishStep, CarryInv
  <2>2. n \in Kept(Migration, Layout)
    BY <1>1 DEF CarryInv, Typed, Layout, Plain, Kept
  <2>3. k \in DOMAIN compiled
    BY <2>1, <2>2 DEF StepInv, Follows
  <2>4. SUFFICES ASSUME compiled[k].kind # "table"
                 PROVE  k \in DOMAIN bytes'.data /\ HasBytes(compiled[k], bytes'.data[k])
    OBVIOUS
  <2>5. k \in DOMAIN sourceNameOf /\ sourceNameOf[k] = n
    BY <1>1, <2>1, <2>2, <2>3, <2>4, KeptIsCarried DEF Plain
  <2>6. bytes'.data = [j \in DOMAIN builders |-> Emitted(j)] /\ ~Loses(k)
    BY <1>1, <2>5 DEF FinishStep, Loss
  <2>7. k \in DOMAIN builders
    BY <2>1, <2>3, <2>4 DEF StepInv, Plain
  <2>8. CASE k \in carried
    BY <1>1, <2>5, <2>6, <2>7, <2>8 DEF Emitted, HasBytes
  <2>9. CASE k \notin carried
    BY <1>1, <2>5, <2>6, <2>7, <2>9 DEF Emitted, HasBytes, Loses
  <2>10. QED
    BY <2>8, <2>9
<1>2. CarryInv /\ [Next]_vars =>
        [StepFinished =>
           \A n \in DOMAIN bytes.data :
              LET k == NewName(Migration, n)
              IN  bytes.data[n] # Empty /\ n \notin Migration.drops /\ k \notin Migration.drops
                  => \/ compiled[k].kind = "table"
                     \/ k \in DOMAIN bytes'.data /\ HasBytes(compiled[k], bytes'.data[k])]_vars
  <2> SUFFICES ASSUME CarryInv, Next, StepFinished, NEW n \in DOMAIN bytes.data,
                      bytes.data[n] # Empty,
                      n \notin Migration.drops, NewName(Migration, n) \notin Migration.drops
               PROVE  \/ compiled[NewName(Migration, n)].kind = "table"
                      \/ /\ NewName(Migration, n) \in DOMAIN bytes'.data
                         /\ HasBytes(compiled[NewName(Migration, n)],
                                     bytes'.data[NewName(Migration, n)])
    OBVIOUS
  <2>1. FinishStep
    BY StepFinishedIsFinish
  <2>2. QED
    BY <1>1, <2>1
<1>3. QED
  BY <1>2, CarryInvariant, PTL DEF Spec, NoSilentLoss

(* A carried hashLookup verifies its keys through the bytes it was built   *)
(* with (migrate.ts:159-163, 365-371).                                     *)
THEOREM LookupsFollow == Spec /\ []CarefulSteps => LookupFollows
<1> USE DEF step, history
<1>1. ASSUME CarryInv, FinishStep, NEW n \in carried, compiled[n].kind = "lookup",
             Layout[sourceNameOf[n]].via \in DOMAIN bytes.data,
             Layout[sourceNameOf[n]].via \notin Migration.drops,
             compiled[n].via \notin Defined(Migration) \cup Migration.rebuilds
      PROVE  /\ compiled[n].via \in DOMAIN bytes'.data
             /\ bytes'.data[compiled[n].via] = bytes.data[Layout[sourceNameOf[n]].via]
  <2> DEFINE was == Layout[sourceNameOf[n]].via
             is == compiled[n].via
             source == Layout[sourceNameOf[n]]
  <2>1. StepInv
    BY <1>1 DEF FinishStep, CarryInv
  <2>2. was \in Kept(Migration, Layout) /\ was # "" /\ Layout[was].kind # "table"
    <3>1. IsLayout(Layout) /\ was \in Plain(Layout)
      BY <1>1 DEF CarryInv, Typed, Layout
    <3>2. was \in Names
      BY <3>1 DEF IsLayout, Plain
    <3>3. was # ""
      BY <3>2, NamesAssumption
    <3>4. QED
      BY <1>1, <3>1, <3>3 DEF Plain, Kept
  <2>3. n \in DOMAIN sourceNameOf /\ Remap(Migration, source) = compiled[n]
    BY <2>1 DEF StepInv, Carries
  <2>t. source \in Signature /\ Layout[was] \in Signature
    BY <1>1, <2>1, <2>2, <2>3, SourcesExist DEF CarryInv, Typed, Layout, Kept, IsLayout
  <2>4. source.kind = "lookup"
    BY <1>1, <2>3, <2>t DEF Remap, Signature
  <2>5. is = NewName(Migration, was)
    BY <2>2, <2>3, <2>4, <2>t, <1>1 DEF Remap, Signature
  <2>6. is \in DOMAIN compiled /\ compiled[is] = Remap(Migration, Layout[was])
    BY <1>1, <2>1, <2>2, <2>5 DEF StepInv, Follows
  <2>7. is \in Plain(compiled)
    BY <2>2, <2>6, <2>t DEF Plain, Remap, Signature
  <2>8. Arrives(Migration, was, is)
    BY <1>1, <2>5 DEF Arrives
  <2>9. QED
    BY <1>1, <2>1, <2>7, <2>8, ArrivesCarried
<1>2. CarryInv /\ [Next]_vars =>
        [StepFinished =>
           \A n \in carried :
              LET was == Layout[sourceNameOf[n]].via
                  is  == compiled[n].via
              IN  /\ compiled[n].kind = "lookup"
                  /\ was \in DOMAIN bytes.data
                  /\ was \notin Migration.drops
                  /\ is \notin Defined(Migration) \cup Migration.rebuilds
                  => is \in DOMAIN bytes'.data /\ bytes'.data[is] = bytes.data[was]]_vars
  <2> SUFFICES ASSUME CarryInv, Next, StepFinished, NEW n \in carried,
                      compiled[n].kind = "lookup",
                      Layout[sourceNameOf[n]].via \in DOMAIN bytes.data,
                      Layout[sourceNameOf[n]].via \notin Migration.drops,
                      compiled[n].via \notin Defined(Migration) \cup Migration.rebuilds
               PROVE  /\ compiled[n].via \in DOMAIN bytes'.data
                      /\ bytes'.data[compiled[n].via] = bytes.data[Layout[sourceNameOf[n]].via]
    OBVIOUS
  <2>1. FinishStep
    BY StepFinishedIsFinish
  <2>2. QED
    BY <1>1, <2>1
<1>3. QED
  BY <1>2, CarryInvariant, PTL DEF Spec, LookupFollows
=============================================================================

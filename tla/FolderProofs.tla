---------------------------- MODULE FolderProofs ----------------------------
(***************************************************************************)
(* Proofs about Folder.tla for any shapes, any edits and any crashes.      *)
(***************************************************************************)
EXTENDS Folder, TLAPS

Entries == journal.entries

\* The bundle lists versions: it is not a stub, nor missing.
Listed == bundle.hash # NoShape

StepFile == [whole : BOOLEAN, before : Shapes, after : Shapes, pending : BOOLEAN]
SnapshotFile == [whole : BOOLEAN, shape : Shapes]

FolderTyped ==
    /\ journal \in [whole : BOOLEAN, entries : Seq(Shapes)]
    /\ ~journal.whole => Entries = <<>>
    /\ DOMAIN snapshots \subseteq Nat /\ snapshots \in [DOMAIN snapshots -> SnapshotFile]
    /\ DOMAIN steps \subseteq Nat /\ steps \in [DOMAIN steps -> StepFile]
    /\ bundle \in [there : BOOLEAN, whole : BOOLEAN, hash : Shapes \cup {NoShape}, entries : Nat]
    /\ ~bundle.there => ~Listed
    /\ ~Listed => bundle.entries = 0

CommandTyped ==
    /\ stage \in {"none", "load", "plan", "write"}
    /\ command = "none" <=> stage = "none"
    /\ stage = "load" => files = <<>> \/ (files = <<"stub">> /\ ~bundle.there)
    /\ stage \in {"none", "plan"} => files = <<>>
    /\ stage \in {"plan", "write"} => loaded.shape \in Shapes

\* What the journal lists is what the files of its versions say.
JournalTells ==
    /\ \A v \in 0 .. Version : snapshots[v].shape = Entries[v + 1]
    /\ \A v \in 1 .. Version :
           steps[v].before = Entries[v] /\ steps[v].after = Entries[v + 1]

\* The migration of the version that is written, once its file is complete.
StepReady ==
    target > 0 =>
        /\ target \in DOMAIN steps /\ steps[target].whole
        /\ steps[target].before = Entries[target]
        /\ steps[target].after = loaded.shape

SnapshotReady ==
    target \in DOMAIN snapshots /\ snapshots[target] = [whole |-> TRUE, shape |-> loaded.shape]

\* How far the files of a version are written.
Writing ==
    stage = "write" =>
        /\ journal.whole
        /\ target \in Nat /\ todo \in BOOLEAN
        /\ \/ files = VersionFiles /\ target = Len(Entries) /\ target > 0
           \/ /\ files = <<"snapshot", "journal", "bundle">>
              /\ target = Len(Entries) /\ StepReady
           \/ /\ files = <<"journal", "bundle">>
              /\ target = Len(Entries) /\ StepReady /\ SnapshotReady
           \/ /\ files = <<"bundle">>
              /\ Len(Entries) = target + 1 /\ loaded.shape = Entries[target + 1]
           \/ files = <<>>

\* The bundle lists versions of the journal, or did before that was lost,
\* and their migrations follow each other.
BundleFollows ==
    /\ journal.whole /\ Listed =>
           bundle.entries + 1 \in 1 .. Len(Entries) /\ bundle.hash = Entries[bundle.entries + 1]
    /\ \A v \in 1 .. bundle.entries : v \in DOMAIN steps
    /\ \A v \in 1 .. bundle.entries - 1 : steps[v].after = steps[v + 1].before
    /\ bundle.entries > 0 => steps[bundle.entries].after = bundle.hash

\* A version the bundle lists has this shape.
HasShape(v, shape) ==
    /\ v \in 0 .. bundle.entries
    /\ v > 0 => steps[v].after = shape
    /\ v < bundle.entries => steps[v + 1].before = shape
    /\ v = bundle.entries => bundle.hash = shape

\* What was written by the application, and what it would write, is of a
\* version that the bundle lists.
FilesListed ==
    /\ \A f \in written : HasShape(f.version, f.shape)
    /\ app.state = "started" =>
           /\ HasShape(app.version, app.shape)
           /\ \A f \in written : f.version <= app.version
    /\ app.state = "started" \/ written # {} => Listed

OnDisk ==
    /\ FolderTyped
    /\ JournalBacked
    /\ JournalTells
    /\ BundleFollows
    /\ FilesListed

\* Where no command died the bundle is of the last version in the journal.
BundleCurrent ==
    /\ Entries = <<>> => ~Listed
    /\ Entries # <<>> => Listed /\ bundle.entries = Version

InStep ==
    crashes = 0 =>
        /\ journal.whole
        /\ (stage = "write" /\ files = <<"bundle">>) \/ BundleCurrent

FolderInv ==
    /\ fields \in Shapes
    /\ crashes \in Nat
    /\ OnDisk
    /\ CommandTyped
    /\ Writing
    /\ InStep

----------------------------------------------------------------------------
(* What a file that is written does to the folder.                         *)

(* The lists of files that are still to be written differ.                 *)
LEMMA FilesDiffer ==
  /\ Len(VersionFiles) = 4 /\ Len(<<"snapshot", "journal", "bundle">>) = 3
  /\ Len(<<"journal", "bundle">>) = 2 /\ Len(<<"bundle">>) = 1 /\ Len(<<>>) = 0
  /\ Tail(VersionFiles) = <<"snapshot", "journal", "bundle">>
  /\ Tail(<<"snapshot", "journal", "bundle">>) = <<"journal", "bundle">>
  /\ Tail(<<"journal", "bundle">>) = <<"bundle">>
  /\ Tail(<<"bundle">>) = <<>>
  /\ Len(<<"stub">>) = 1 /\ <<"bundle">> # <<"stub">>
BY DEF VersionFiles

(* What is known of a version while its files are written.                 *)
LEMMA WhileWriting ==
  ASSUME FolderInv, stage = "write"
  PROVE  /\ journal.whole /\ target \in Nat /\ todo \in BOOLEAN
         /\ loaded.shape \in Shapes /\ Entries \in Seq(Shapes)
         /\ Len(files) = 4 => files = VersionFiles /\ target = Len(Entries) /\ target > 0
         /\ Len(files) = 3 => target = Len(Entries) /\ StepReady
         /\ Len(files) = 2 => target = Len(Entries) /\ StepReady /\ SnapshotReady
         /\ Len(files) = 1 => Len(Entries) = target + 1 /\ loaded.shape = Entries[target + 1]
<1>1. CommandTyped /\ Writing /\ FolderTyped
  BY DEF FolderInv, OnDisk
<1>2. Entries \in Seq(Shapes) /\ loaded.shape \in Shapes
  BY <1>1 DEF CommandTyped, FolderTyped, Entries
<1>3. journal.whole /\ target \in Nat /\ todo \in BOOLEAN
  BY <1>1 DEF Writing
<1>4. CASE files = VersionFiles /\ target = Len(Entries) /\ target > 0
  BY <1>2, <1>3, <1>4, FilesDiffer
<1>5. CASE files = <<"snapshot", "journal", "bundle">> /\ target = Len(Entries) /\ StepReady
  BY <1>2, <1>3, <1>5, FilesDiffer
<1>6. CASE /\ files = <<"journal", "bundle">> /\ target = Len(Entries)
           /\ StepReady /\ SnapshotReady
  BY <1>2, <1>3, <1>6, FilesDiffer
<1>7. CASE /\ files = <<"bundle">> /\ Len(Entries) = target + 1
           /\ loaded.shape = Entries[target + 1]
  BY <1>2, <1>3, <1>7, FilesDiffer
<1>8. CASE files = <<>>
  BY <1>2, <1>3, <1>8, FilesDiffer
<1>9. QED
  BY <1>1, <1>4, <1>5, <1>6, <1>7, <1>8 DEF Writing

LEMMA StepWritten ==
  ASSUME FolderInv, NEW whole \in BOOLEAN, stage = "write", files = VersionFiles,
         WriteStep(whole), UNCHANGED <<journal, snapshots, bundle, app, written>>
  PROVE  /\ OnDisk'
         /\ target \in DOMAIN steps'
         /\ steps'[target] = [whole |-> whole, before |-> Entries[target],
                              after |-> loaded.shape, pending |-> todo]
<1>1. /\ journal.whole /\ target = Len(Entries) /\ target > 0 /\ target \in Nat
      /\ todo \in BOOLEAN /\ loaded.shape \in Shapes /\ Entries \in Seq(Shapes)
  BY WhileWriting, FilesDiffer
<1> DEFINE file == [whole |-> whole, before |-> Entries[target], after |-> loaded.shape,
                    pending |-> todo]
<1>2. file \in StepFile
  BY <1>1 DEF StepFile
<1>3. steps' = [i \in DOMAIN steps \cup {target} |-> IF i = target THEN file ELSE steps[i]]
  BY DEF WriteStep, Put, Entries
<1> HIDE DEF file
<1>4. /\ DOMAIN steps' = DOMAIN steps \cup {target}
      /\ steps'[target] = file
      /\ \A v \in DOMAIN steps : v # target => steps'[v] = steps[v]
  BY <1>3
<1>5. FolderTyped /\ JournalBacked /\ JournalTells /\ BundleFollows /\ FilesListed
  BY DEF FolderInv, OnDisk
<1>6. FolderTyped'
  <2>1. DOMAIN steps' \subseteq Nat /\ steps' \in [DOMAIN steps' -> StepFile]
    BY <1>1, <1>2, <1>3, <1>5 DEF FolderTyped
  <2>2. QED
    BY <1>5, <2>1 DEF FolderTyped, Entries, Listed
<1>7. Version' = Version /\ Version = target - 1 /\ Entries' = Entries
  BY <1>1 DEF Version, Entries
<1>8. JournalBacked' /\ JournalTells'
  <2>1. \A v \in 1 .. Version : v \in DOMAIN steps /\ v # target
    BY <1>1, <1>5, <1>7 DEF JournalBacked
  <2>2. QED
    BY <1>4, <1>5, <1>7, <2>1 DEF JournalBacked, JournalTells
<1>9. bundle.entries \in Nat /\ bundle.entries < target
  BY <1>1, <1>5 DEF FolderTyped, BundleFollows
<1>10. \A v \in 1 .. bundle.entries : v \in DOMAIN steps' /\ steps'[v] = steps[v]
  BY <1>1, <1>4, <1>5, <1>9 DEF BundleFollows
<1>11. BundleFollows'
  BY <1>5, <1>9, <1>10 DEF BundleFollows, Entries, Listed
<1>12. ASSUME NEW v, NEW shape, HasShape(v, shape) PROVE HasShape(v, shape)'
  BY <1>9, <1>10, <1>12 DEF HasShape
<1>13. FilesListed'
  BY <1>5, <1>12 DEF FilesListed, Listed
<1>14. QED
  BY <1>4, <1>6, <1>8, <1>11, <1>13 DEF OnDisk, file

LEMMA SnapshotWritten ==
  ASSUME FolderInv, NEW whole \in BOOLEAN, stage = "write",
         files = Tail(VersionFiles) \/ files = <<"snapshot", "journal", "bundle">>,
         WriteSnapshot(whole), UNCHANGED <<journal, steps, bundle, app, written>>
  PROVE  /\ OnDisk'
         /\ target \in DOMAIN snapshots'
         /\ snapshots'[target] = [whole |-> whole, shape |-> loaded.shape]
<1>1. /\ journal.whole /\ target = Len(Entries) /\ target \in Nat
      /\ loaded.shape \in Shapes /\ Entries \in Seq(Shapes)
  BY WhileWriting, FilesDiffer
<1> DEFINE file == [whole |-> whole, shape |-> loaded.shape]
<1>2. file \in SnapshotFile
  BY <1>1 DEF SnapshotFile
<1>3. snapshots' = [i \in DOMAIN snapshots \cup {target} |->
                        IF i = target THEN file ELSE snapshots[i]]
  BY DEF WriteSnapshot, Put
<1> HIDE DEF file
<1>4. /\ DOMAIN snapshots' = DOMAIN snapshots \cup {target}
      /\ snapshots'[target] = file
      /\ \A v \in DOMAIN snapshots : v # target => snapshots'[v] = snapshots[v]
  BY <1>3
<1>5. FolderTyped /\ JournalBacked /\ JournalTells /\ BundleFollows /\ FilesListed
  BY DEF FolderInv, OnDisk
<1>6. FolderTyped'
  <2>1. DOMAIN snapshots' \subseteq Nat /\ snapshots' \in [DOMAIN snapshots' -> SnapshotFile]
    BY <1>1, <1>2, <1>3, <1>5 DEF FolderTyped
  <2>2. QED
    BY <1>5, <2>1 DEF FolderTyped, Entries, Listed
<1>7. Version' = Version /\ Version = target - 1 /\ Entries' = Entries
  BY <1>1 DEF Version, Entries
<1>8. JournalBacked' /\ JournalTells'
  <2>1. \A v \in 0 .. Version : v \in DOMAIN snapshots /\ v # target
    BY <1>1, <1>5, <1>7 DEF JournalBacked
  <2>2. QED
    BY <1>4, <1>5, <1>7, <2>1 DEF JournalBacked, JournalTells
<1>9. BundleFollows' /\ FilesListed'
  BY <1>5 DEF BundleFollows, FilesListed, HasShape, Entries, Listed
<1>10. QED
  BY <1>4, <1>6, <1>8, <1>9 DEF OnDisk, file

LEMMA JournalWritten ==
  ASSUME FolderInv, NEW whole \in BOOLEAN, stage = "write", files = <<"journal", "bundle">>,
         WriteJournal(whole), UNCHANGED <<snapshots, steps, bundle, app, written>>
  PROVE  /\ OnDisk'
         /\ whole => /\ journal'.whole
                     /\ Len(Entries') = target + 1 /\ Entries'[target + 1] = loaded.shape
<1>1. /\ journal.whole /\ target = Len(Entries) /\ target \in Nat
      /\ loaded.shape \in Shapes /\ Entries \in Seq(Shapes)
      /\ StepReady /\ SnapshotReady
  BY WhileWriting, FilesDiffer
<1>2. FolderTyped /\ JournalBacked /\ JournalTells /\ BundleFollows /\ FilesListed
  BY DEF FolderInv, OnDisk
<1>3. /\ journal'.whole = whole
      /\ Entries' = IF whole THEN Append(Entries, loaded.shape) ELSE <<>>
      /\ journal' \in [whole : BOOLEAN, entries : Seq(Shapes)]
  BY <1>1 DEF WriteJournal, Entries
<1>4. FolderTyped'
  BY <1>2, <1>3 DEF FolderTyped, Listed, Entries
<1>5. FilesListed'
  BY <1>2 DEF FilesListed, HasShape, Listed
<1>6. CASE ~whole
  <2>1. Entries' = <<>> /\ Version' = 0 - 1 /\ ~journal'.whole
    BY <1>3, <1>6 DEF Version, Entries
  <2>2. JournalBacked' /\ JournalTells'
    BY <2>1 DEF JournalBacked, JournalTells
  <2>3. BundleFollows'
    BY <1>2, <2>1 DEF BundleFollows, Listed
  <2>4. QED
    BY <1>4, <1>5, <1>6, <2>2, <2>3 DEF OnDisk
<1>7. CASE whole
  <2>1. /\ Len(Entries') = target + 1 /\ Entries'[target + 1] = loaded.shape
        /\ \A i \in 1 .. target : Entries'[i] = Entries[i]
    BY <1>1, <1>3, <1>7
  <2>2. Version' = target /\ Version = target - 1
    BY <1>1, <2>1 DEF Version, Entries
  <2>3. ASSUME NEW v \in 0 .. Version'
        PROVE  /\ v \in DOMAIN snapshots /\ snapshots[v].whole
               /\ snapshots[v].shape = Entries'[v + 1]
    <3>1. CASE v = target
      BY <1>1, <2>1, <3>1 DEF SnapshotReady
    <3>2. CASE v # target
      BY <1>1, <1>2, <2>1, <2>2, <3>2 DEF JournalBacked, JournalTells
    <3>3. QED
      BY <3>1, <3>2
  <2>4. ASSUME NEW v \in 1 .. Version'
        PROVE  /\ v \in DOMAIN steps /\ steps[v].whole
               /\ steps[v].before = Entries'[v] /\ steps[v].after = Entries'[v + 1]
    <3>1. CASE v = target
      BY <1>1, <2>1, <2>2, <3>1 DEF StepReady
    <3>2. CASE v # target
      BY <1>1, <1>2, <2>1, <2>2, <3>2 DEF JournalBacked, JournalTells
    <3>3. QED
      BY <3>1, <3>2
  <2>5. JournalBacked' /\ JournalTells'
    BY <2>3, <2>4 DEF JournalBacked, JournalTells
  <2>6. BundleFollows'
    <3>1. Listed => bundle.entries + 1 \in 1 .. target
                    /\ Entries'[bundle.entries + 1] = Entries[bundle.entries + 1]
      BY <1>1, <1>2, <2>1 DEF BundleFollows
    <3>2. QED
      BY <1>1, <1>2, <2>1, <3>1 DEF BundleFollows, Listed
  <2>7. QED
    BY <1>3, <1>4, <1>5, <2>1, <2>5, <2>6 DEF OnDisk
<1>8. QED
  BY <1>6, <1>7

LEMMA BundleWritten ==
  ASSUME FolderInv, NEW whole \in BOOLEAN, stage = "write", files = <<"bundle">>,
         WriteBundle(whole, loaded.shape, target),
         UNCHANGED <<journal, snapshots, steps, app, written>>
  PROVE  OnDisk' /\ BundleCurrent' /\ Listed'
<1>1. /\ journal.whole /\ Len(Entries) = target + 1 /\ target \in Nat
      /\ loaded.shape \in Shapes /\ Entries \in Seq(Shapes)
      /\ loaded.shape = Entries[target + 1]
  BY WhileWriting, FilesDiffer
<1>2. FolderTyped /\ JournalBacked /\ JournalTells /\ BundleFollows /\ FilesListed
  BY DEF FolderInv, OnDisk
<1>3. /\ bundle'.entries = target /\ bundle'.hash = loaded.shape /\ bundle'.there
      /\ bundle' \in [there : BOOLEAN, whole : BOOLEAN, hash : Shapes \cup {NoShape},
                      entries : Nat]
      /\ Listed'
  BY <1>1, ShapesAssumption DEF WriteBundle, Listed
<1>4. Version = target /\ Entries' = Entries /\ Version' = Version
  BY <1>1 DEF Version, Entries
<1>5. FolderTyped' /\ JournalBacked' /\ JournalTells'
  BY <1>2, <1>3, <1>4 DEF FolderTyped, JournalBacked, JournalTells
<1>6. \A v \in 1 .. target :
          /\ v \in DOMAIN steps
          /\ steps[v].before = Entries[v] /\ steps[v].after = Entries[v + 1]
  BY <1>2, <1>4 DEF JournalBacked, JournalTells
<1>7. BundleFollows'
  <2>1. \A v \in 1 .. target - 1 : v \in 1 .. target /\ v + 1 \in 1 .. target
    BY <1>1
  <2>2. target > 0 => target \in 1 .. target
    BY <1>1
  <2>3. QED
    BY <1>1, <1>3, <1>4, <1>6, <2>1, <2>2 DEF BundleFollows
<1>8. ASSUME NEW v, NEW shape, HasShape(v, shape), Listed
      PROVE  HasShape(v, shape)'
  <2>1. /\ bundle.entries \in 0 .. target /\ bundle.hash = Entries[bundle.entries + 1]
        /\ v \in 0 .. bundle.entries
    BY <1>1, <1>2, <1>8 DEF BundleFollows, FolderTyped, HasShape
  <2>2. v < target => steps[v + 1].before = shape
    <3>1. CASE v < bundle.entries
      BY <1>8, <3>1 DEF HasShape
    <3>2. CASE v = bundle.entries
      BY <1>1, <1>6, <1>8, <2>1, <3>2 DEF HasShape
    <3>3. QED
      BY <2>1, <3>1, <3>2
  <2>3. v = target => loaded.shape = shape
    BY <1>1, <1>8, <2>1 DEF HasShape
  <2>4. QED
    BY <1>3, <1>8, <2>1, <2>2, <2>3 DEF HasShape
<1>9. FilesListed'
  BY <1>2, <1>3, <1>8 DEF FilesListed
<1>10. BundleCurrent'
  BY <1>1, <1>3, <1>4 DEF BundleCurrent
<1>11. QED
  BY <1>3, <1>5, <1>7, <1>9, <1>10 DEF OnDisk

LEMMA StubWritten ==
  ASSUME FolderInv, NEW whole \in BOOLEAN, ~bundle.there, WriteBundle(whole, NoShape, 0),
         UNCHANGED <<journal, snapshots, steps, app, written>>
  PROVE  OnDisk' /\ ~Listed /\ ~Listed'
<1>1. FolderTyped /\ JournalBacked /\ JournalTells /\ BundleFollows /\ FilesListed
  BY DEF FolderInv, OnDisk
<1>2. ~Listed
  BY <1>1 DEF FolderTyped
<1>3. /\ bundle'.entries = 0 /\ bundle'.hash = NoShape /\ bundle'.there
      /\ bundle' \in [there : BOOLEAN, whole : BOOLEAN, hash : Shapes \cup {NoShape},
                      entries : Nat]
      /\ ~Listed'
  BY DEF WriteBundle, Listed
<1>4. FolderTyped' /\ JournalBacked' /\ JournalTells'
  BY <1>1, <1>3 DEF FolderTyped, JournalBacked, JournalTells, Version, Entries
<1>5. BundleFollows' /\ FilesListed'
  BY <1>1, <1>2, <1>3 DEF BundleFollows, FilesListed
<1>6. QED
  BY <1>2, <1>3, <1>4, <1>5 DEF OnDisk

\* The files of a version as they get fewer, and the stub.
Lists ==
    {VersionFiles, Tail(VersionFiles), <<"journal", "bundle">>, <<"bundle">>, <<"stub">>}

(* What a command that writes has before it.                               *)
LEMMA WritesOne ==
  ASSUME FolderInv, files # <<>>
  PROVE  /\ files \in Lists
         /\ files # <<"stub">> => stage = "write"
         /\ files = <<"stub">> => stage = "load" /\ ~bundle.there
<1>1. CommandTyped /\ Writing
  BY DEF FolderInv
<1>2. CASE stage = "write"
  <2>1. files \in Lists \ {<<"stub">>}
    <3>1. \/ files = VersionFiles \/ files = Tail(VersionFiles)
          \/ files = <<"journal", "bundle">> \/ files = <<"bundle">>
      <4>1. \/ files = VersionFiles \/ files = <<"snapshot", "journal", "bundle">>
            \/ files = <<"journal", "bundle">> \/ files = <<"bundle">>
        BY <1>1, <1>2 DEF Writing
      <4>2. QED
        BY <4>1, FilesDiffer, Zenon
    <3>2. Len(files) \in {2, 3, 4} \/ files = <<"bundle">>
      BY <3>1, FilesDiffer
    <3>3. files # <<"stub">>
      BY <3>2, FilesDiffer
    <3>4. QED
      BY <3>1, <3>3 DEF Lists
  <2>2. QED
    BY <1>2, <2>1
<1>3. CASE stage = "load"
  BY <1>1, <1>3 DEF CommandTyped, Lists
<1>4. QED
  BY <1>1, <1>2, <1>3 DEF CommandTyped

LEMMA Heads ==
  /\ Head(VersionFiles) = "step" /\ Head(Tail(VersionFiles)) = "snapshot"
  /\ Head(<<"journal", "bundle">>) = "journal" /\ Head(<<"bundle">>) = "bundle"
  /\ Head(<<"stub">>) = "stub" /\ Tail(<<"stub">>) = <<>>
BY DEF VersionFiles

(* Whatever is written, in part or as a whole, keeps the folder in order.  *)
LEMMA WriteKeeps ==
  ASSUME FolderInv, files # <<>>, NEW whole \in BOOLEAN, Write(Head(files), whole),
         UNCHANGED <<app, written>>
  PROVE  OnDisk'
<1>1. CASE files = VersionFiles
  <2>1. Head(files) = "step" /\ stage = "write"
    BY <1>1, Heads, WritesOne, FilesDiffer
  <2>2. WriteStep(whole) /\ UNCHANGED <<journal, snapshots, bundle>>
    BY <2>1 DEF Write
  <2>3. QED
    BY <1>1, <2>1, <2>2, StepWritten
<1>2. CASE files = Tail(VersionFiles)
  <2>1. Head(files) = "snapshot" /\ stage = "write"
    BY <1>2, Heads, WritesOne, FilesDiffer
  <2>2. WriteSnapshot(whole) /\ UNCHANGED <<journal, steps, bundle>>
    BY <2>1 DEF Write
  <2>3. QED
    BY <1>2, <2>1, <2>2, SnapshotWritten
<1>3. CASE files = <<"journal", "bundle">>
  <2>1. Head(files) = "journal" /\ stage = "write"
    BY <1>3, Heads, WritesOne, FilesDiffer
  <2>2. WriteJournal(whole) /\ UNCHANGED <<snapshots, steps, bundle>>
    BY <2>1 DEF Write
  <2>3. QED
    BY <1>3, <2>1, <2>2, JournalWritten
<1>4. CASE files = <<"bundle">>
  <2>1. Head(files) = "bundle" /\ stage = "write"
    BY <1>4, Heads, WritesOne
  <2>2. WriteBundle(whole, loaded.shape, target) /\ UNCHANGED <<journal, snapshots, steps>>
    BY <2>1 DEF Write
  <2>3. QED
    BY <1>4, <2>1, <2>2, BundleWritten
<1>5. CASE files = <<"stub">>
  <2>1. Head(files) = "stub" /\ ~bundle.there
    BY <1>5, Heads, WritesOne
  <2>2. WriteBundle(whole, NoShape, 0) /\ UNCHANGED <<journal, snapshots, steps>>
    BY <2>1 DEF Write
  <2>3. QED
    BY <2>1, <2>2, StubWritten
<1>6. QED
  BY <1>1, <1>2, <1>3, <1>4, <1>5, WritesOne DEF Lists

----------------------------------------------------------------------------
(* The steps.                                                              *)

LEMMA FolderInitHolds == Init => FolderInv
<1> SUFFICES ASSUME Init PROVE FolderInv
  OBVIOUS
<1>1. /\ Entries = <<>> /\ Version = 0 - 1 /\ journal.whole /\ ~Listed /\ ~bundle.there
      /\ bundle.entries = 0
  BY DEF Init, Entries, Version, Listed
<1>2. FolderTyped
  <2>1. journal \in [whole : BOOLEAN, entries : Seq(Shapes)]
    BY DEF Init
  <2>2. DOMAIN snapshots = {} /\ snapshots \in [DOMAIN snapshots -> SnapshotFile]
    BY DEF Init
  <2>3. DOMAIN steps = {} /\ steps \in [DOMAIN steps -> StepFile]
    BY DEF Init
  <2>4. bundle \in [there : BOOLEAN, whole : BOOLEAN, hash : Shapes \cup {NoShape},
                    entries : Nat]
    BY DEF Init
  <2>5. QED
    BY <1>1, <2>1, <2>2, <2>3, <2>4 DEF FolderTyped
<1>3. JournalBacked /\ JournalTells /\ BundleFollows
  BY <1>1 DEF JournalBacked, JournalTells, BundleFollows
<1>4. FilesListed
  BY DEF Init, FilesListed, Stopped
<1>5. QED
  BY <1>1, <1>2, <1>3, <1>4 DEF Init, FolderInv, OnDisk, CommandTyped, Writing, InStep,
                                BundleCurrent

(* Nothing that is known of the folder changes unless a file does, or the  *)
(* application starts or writes.                                           *)
LEMMA FolderStays ==
  ASSUME FolderInv, UNCHANGED <<folder, app, written>>
  PROVE  OnDisk' /\ (BundleCurrent => BundleCurrent')
<1>1. UNCHANGED <<journal, snapshots, steps, bundle>>
  BY DEF folder
<1>2. QED
  BY <1>1 DEF FolderInv, OnDisk, FolderTyped, JournalBacked, JournalTells, BundleFollows,
              FilesListed, HasShape, BundleCurrent, Entries, Version, Listed

LEMMA FillKeeps ==
  ASSUME FolderInv, NEW v \in DOMAIN steps, Fill(v)
  PROVE  FolderInv'
<1>1. /\ steps' = [steps EXCEPT ![v].pending = FALSE]
      /\ UNCHANGED <<fields, journal, snapshots, bundle, cli, app, written, crashes>>
      /\ FolderTyped
  BY DEF Fill, FolderInv, OnDisk
<1>2. steps \in [DOMAIN steps -> StepFile]
  BY <1>1 DEF FolderTyped
<1>3. /\ DOMAIN steps' = DOMAIN steps
      /\ steps' \in [DOMAIN steps' -> StepFile]
      /\ \A u \in DOMAIN steps : /\ steps'[u].whole = steps[u].whole
                                 /\ steps'[u].before = steps[u].before
                                 /\ steps'[u].after = steps[u].after
  BY <1>1, <1>2 DEF StepFile
<1>4. FolderTyped'
  BY <1>1, <1>3 DEF FolderTyped, Entries, Listed
<1>5. JournalBacked' /\ JournalTells'
  BY <1>1, <1>3 DEF FolderInv, OnDisk, JournalBacked, JournalTells, Version, Entries
<1>6. bundle.entries \in Nat /\ \A u \in 1 .. bundle.entries : u \in DOMAIN steps
  BY <1>1 DEF FolderInv, OnDisk, FolderTyped, BundleFollows
<1>7. BundleFollows'
  BY <1>1, <1>3, <1>6 DEF FolderInv, OnDisk, BundleFollows, Entries, Listed
<1>8. ASSUME NEW u, NEW shape, HasShape(u, shape) PROVE HasShape(u, shape)'
  BY <1>1, <1>3, <1>6, <1>8 DEF HasShape
<1>9. FilesListed'
  BY <1>1, <1>8 DEF FolderInv, OnDisk, FilesListed, Listed
<1>10. StepReady => StepReady'
  BY <1>1, <1>3 DEF StepReady, cli, Entries
<1>11. CommandTyped' /\ Writing' /\ InStep'
  BY <1>1, <1>10 DEF FolderInv, CommandTyped, Writing, SnapshotReady, InStep, BundleCurrent,
                     Version, Entries, Listed, cli
<1>12. QED
  BY <1>1, <1>4, <1>5, <1>7, <1>9, <1>11 DEF FolderInv, OnDisk

(* A command that is over leaves nothing behind but what is on disk.       *)
LEMMA EndKeeps ==
  ASSUME FolderInv, EndCommand, OnDisk', fields' = fields,
         \/ crashes' = crashes + 1
         \/ crashes' = crashes /\ (crashes = 0 => journal'.whole /\ BundleCurrent')
  PROVE  FolderInv'
<1>1. stage' = "none" /\ command' = "none" /\ files' = <<>>
  BY DEF EndCommand
<1>2. CommandTyped' /\ Writing'
  BY <1>1 DEF CommandTyped, Writing
<1>3. fields' \in Shapes /\ crashes' \in Nat /\ (crashes' = 0 => crashes' = crashes)
  BY DEF FolderInv
<1>4. InStep'
  BY <1>3 DEF InStep, FolderInv
<1>5. QED
  BY <1>2, <1>3, <1>4 DEF FolderInv

LEMMA StopKeeps ==
  ASSUME FolderInv, Stop, files = <<>>
  PROVE  FolderInv'
<1>1. EndCommand /\ UNCHANGED <<fields, folder, app, written, crashes>>
  BY DEF Stop
<1>2. files # <<"bundle">>
  BY FilesDiffer
<1>3. crashes = 0 => journal.whole /\ BundleCurrent
  BY <1>2 DEF FolderInv, InStep
<1>4. journal' = journal
  BY <1>1 DEF folder
<1>5. QED
  BY <1>1, <1>3, <1>4, FolderStays, EndKeeps

LEMMA CrashKeeps ==
  ASSUME FolderInv, Crash
  PROVE  FolderInv'
<1>1. EndCommand /\ crashes' = crashes + 1 /\ UNCHANGED <<fields, app, written>>
  BY DEF Crash
<1>2. CASE UNCHANGED folder
  BY <1>1, <1>2, FolderStays, EndKeeps
<1>3. ASSUME files # <<>>, NEW whole \in BOOLEAN, Write(Head(files), whole)
      PROVE  FolderInv'
  BY <1>1, <1>3, WriteKeeps, EndKeeps
<1>4. QED
  BY <1>2, <1>3 DEF Crash

LEMMA WriteFileKeeps ==
  ASSUME FolderInv, WriteFile
  PROVE  FolderInv'
<1>1. /\ files # <<>> /\ Write(Head(files), TRUE) /\ files' = Tail(files)
      /\ UNCHANGED <<fields, command, stage, loaded, target, todo, app, written, crashes>>
  BY DEF WriteFile
<1>2. OnDisk'
  BY <1>1, WriteKeeps
<1>3. fields' \in Shapes /\ crashes' \in Nat
  BY <1>1 DEF FolderInv
<1>4. CommandTyped /\ Writing /\ InStep
  BY DEF FolderInv
<1>5. CASE files = VersionFiles
  <2>1. /\ stage = "write" /\ Head(files) = "step" /\ files' = Tail(VersionFiles)
        /\ files' # <<"bundle">> /\ files # <<"bundle">>
    BY <1>1, <1>5, WritesOne, Heads, FilesDiffer
  <2>2. WriteStep(TRUE) /\ UNCHANGED <<journal, snapshots, bundle>>
    BY <1>1, <2>1 DEF Write
  <2>3. /\ target \in DOMAIN steps'
        /\ steps'[target] = [whole |-> TRUE, before |-> Entries[target],
                             after |-> loaded.shape, pending |-> todo]
    BY <1>1, <1>5, <2>1, <2>2, StepWritten
  <2>4. StepReady'
    BY <1>1, <2>2, <2>3 DEF StepReady, Entries
  <2>5. journal.whole /\ target \in Nat /\ todo \in BOOLEAN /\ target = Len(Entries)
    BY <1>5, <2>1, WhileWriting, FilesDiffer
  <2>6. Writing'
    BY <1>1, <2>1, <2>2, <2>4, <2>5, FilesDiffer DEF Writing, Entries
  <2>7. CommandTyped' /\ InStep'
    BY <1>1, <1>4, <2>1, <2>2 DEF CommandTyped, InStep, BundleCurrent, Entries, Version, Listed
  <2>8. QED
    BY <1>2, <1>3, <2>6, <2>7 DEF FolderInv
<1>6. CASE files = Tail(VersionFiles)
  <2>1. /\ stage = "write" /\ Head(files) = "snapshot" /\ files' = <<"journal", "bundle">>
        /\ files' # <<"bundle">> /\ files # <<"bundle">>
    BY <1>1, <1>6, WritesOne, Heads, FilesDiffer
  <2>2. WriteSnapshot(TRUE) /\ UNCHANGED <<journal, steps, bundle>>
    BY <1>1, <2>1 DEF Write
  <2>3. target \in DOMAIN snapshots' /\ snapshots'[target] = [whole |-> TRUE, shape |-> loaded.shape]
    BY <1>1, <1>6, <2>1, <2>2, SnapshotWritten
  <2>4. SnapshotReady'
    BY <1>1, <2>3 DEF SnapshotReady
  <2>5. /\ journal.whole /\ target \in Nat /\ todo \in BOOLEAN /\ target = Len(Entries)
        /\ StepReady
    BY <1>6, <2>1, WhileWriting, FilesDiffer
  <2>6. StepReady'
    BY <1>1, <2>2, <2>5 DEF StepReady, Entries
  <2>7. Writing'
    BY <1>1, <2>1, <2>2, <2>4, <2>5, <2>6 DEF Writing, Entries
  <2>8. CommandTyped' /\ InStep'
    BY <1>1, <1>4, <2>1, <2>2 DEF CommandTyped, InStep, BundleCurrent, Entries, Version, Listed
  <2>9. QED
    BY <1>2, <1>3, <2>7, <2>8 DEF FolderInv
<1>7. CASE files = <<"journal", "bundle">>
  <2>1. /\ stage = "write" /\ Head(files) = "journal" /\ files' = <<"bundle">>
    BY <1>1, <1>7, WritesOne, Heads, FilesDiffer
  <2>2. WriteJournal(TRUE) /\ UNCHANGED <<snapshots, steps, bundle>>
    BY <1>1, <2>1 DEF Write
  <2>3. /\ journal'.whole
        /\ Len(Entries') = target + 1 /\ Entries'[target + 1] = loaded.shape
    BY <1>1, <1>7, <2>1, <2>2, JournalWritten
  <2>4. target \in Nat /\ todo \in BOOLEAN
    BY <2>1, WhileWriting
  <2>5. Writing'
    BY <1>1, <2>1, <2>3, <2>4 DEF Writing
  <2>6. CommandTyped' /\ InStep'
    BY <1>1, <1>4, <2>1, <2>2, <2>3 DEF CommandTyped, InStep
  <2>7. QED
    BY <1>2, <1>3, <2>5, <2>6 DEF FolderInv
<1>8. CASE files = <<"bundle">>
  <2>1. /\ stage = "write" /\ Head(files) = "bundle" /\ files' = <<>>
    BY <1>1, <1>8, WritesOne, Heads, FilesDiffer
  <2>2. WriteBundle(TRUE, loaded.shape, target) /\ UNCHANGED <<journal, snapshots, steps>>
    BY <1>1, <2>1 DEF Write
  <2>3. BundleCurrent'
    BY <1>1, <1>8, <2>1, <2>2, BundleWritten
  <2>4. journal.whole /\ target \in Nat /\ todo \in BOOLEAN
    BY <2>1, WhileWriting
  <2>5. Writing' /\ CommandTyped' /\ InStep'
    BY <1>1, <1>4, <2>1, <2>2, <2>3, <2>4 DEF Writing, CommandTyped, InStep
  <2>6. QED
    BY <1>2, <1>3, <2>5 DEF FolderInv
<1>9. CASE files = <<"stub">>
  <2>1. /\ stage = "load" /\ ~bundle.there /\ Head(files) = "stub" /\ files' = <<>>
        /\ files # <<"bundle">>
    BY <1>1, <1>9, WritesOne, Heads, FilesDiffer
  <2>2. WriteBundle(TRUE, NoShape, 0) /\ UNCHANGED <<journal, snapshots, steps>>
    BY <1>1, <2>1 DEF Write
  <2>3. ~Listed /\ ~Listed'
    BY <1>1, <2>1, <2>2, StubWritten
  <2>4. BundleCurrent => BundleCurrent'
    BY <2>2, <2>3 DEF BundleCurrent, Entries
  <2>5. Writing' /\ CommandTyped' /\ InStep'
    BY <1>1, <1>4, <2>1, <2>2, <2>4 DEF Writing, CommandTyped, InStep
  <2>6. QED
    BY <1>2, <1>3, <2>5 DEF FolderInv
<1>10. QED
  BY <1>1, <1>5, <1>6, <1>7, <1>8, <1>9, WritesOne DEF Lists

(* The command starts, loads the schema or plans what to write.            *)
LEMMA CommandKeeps ==
  ASSUME FolderInv,
         \/ \E c \in {"generate", "status"} : StartCommand(c)
         \/ Load
         \/ PlanInitial
         \/ PlanVersion
  PROVE  FolderInv'
<1>1. UNCHANGED <<fields, folder, app, written, crashes>>
  BY DEF StartCommand, Load, PlanInitial, PlanVersion, Plan
<1>2. UNCHANGED <<journal, snapshots, steps, bundle>>
  BY <1>1 DEF folder
<1>3. OnDisk' /\ (BundleCurrent => BundleCurrent')
  BY <1>1, FolderStays
<1>4. fields' \in Shapes /\ crashes' \in Nat /\ CommandTyped /\ InStep /\ fields \in Shapes
  BY <1>1 DEF FolderInv
<1>5. ASSUME NEW c \in {"generate", "status"}, StartCommand(c)
      PROVE  FolderInv'
  <2>1. /\ stage = "none" /\ stage' = "load" /\ command' = c
        /\ files' = IF bundle.there THEN <<>> ELSE <<"stub">>
    BY <1>4, <1>5 DEF StartCommand, CommandTyped
  <2>2. CommandTyped' /\ Writing' /\ InStep'
    BY <1>2, <1>3, <1>4, <2>1, <1>1 DEF CommandTyped, Writing, InStep
  <2>3. QED
    BY <1>3, <1>4, <2>2 DEF FolderInv
<1>6. CASE Load
  <2>1. /\ stage = "load" /\ stage' = "plan" /\ files' = <<>> /\ UNCHANGED command
        /\ loaded'.shape = fields
    BY <1>6 DEF Load
  <2>2. CommandTyped' /\ Writing' /\ InStep'
    BY <1>2, <1>3, <1>4, <2>1, <1>1 DEF CommandTyped, Writing, InStep
  <2>3. QED
    BY <1>3, <1>4, <2>2 DEF FolderInv
<1>7. CASE PlanInitial \/ PlanVersion
  <2>1. /\ stage = "plan" /\ stage' = "write" /\ command = "generate" /\ journal.whole
        /\ UNCHANGED <<command, loaded>>
        /\ files' # <<"bundle">>
    BY <1>7, FilesDiffer DEF PlanInitial, PlanVersion, Plan, Generating, Readable
  <2>2. CommandTyped' /\ InStep'
    BY <1>1, <1>2, <1>3, <1>4, <2>1 DEF CommandTyped, InStep
  <2>3. Entries \in Seq(Shapes) /\ Len(Entries) \in Nat /\ Entries' = Entries
    BY <1>2 DEF FolderInv, OnDisk, FolderTyped, Entries
  <2>4. Writing'
    <3>1. CASE PlanInitial
      <4>1. /\ target' = 0 /\ todo' = FALSE /\ Entries = <<>>
            /\ files' = <<"snapshot", "journal", "bundle">>
        BY <3>1 DEF PlanInitial, Plan, Entries
      <4>2. StepReady'
        BY <4>1 DEF StepReady
      <4>3. QED
        BY <1>2, <2>1, <2>3, <4>1, <4>2 DEF Writing
    <3>2. CASE PlanVersion
      <4>1. /\ target' = Version + 1 /\ todo' \in BOOLEAN /\ Entries # <<>>
            /\ files' = VersionFiles
        BY <3>2 DEF PlanVersion, Plan, Entries
      <4>2. target' = Len(Entries) /\ Len(Entries) > 0
        BY <2>3, <4>1 DEF Version, Entries
      <4>3. QED
        BY <1>2, <2>1, <2>3, <4>1, <4>2 DEF Writing
    <3>3. QED
      BY <1>7, <3>1, <3>2
  <2>5. QED
    BY <1>3, <1>4, <2>2, <2>4 DEF FolderInv
<1>8. QED
  BY <1>5, <1>6, <1>7

(* An application starts with what the bundle lists, and writes that.      *)
LEMMA ApplicationKeeps ==
  ASSUME FolderInv, Application
  PROVE  FolderInv'
<1>1. UNCHANGED <<fields, folder, cli, crashes>>
  BY DEF Application, StartApp, Save, StopApp
<1>2. UNCHANGED <<journal, snapshots, steps, bundle, command, stage, loaded, files, target, todo>>
  BY <1>1 DEF folder, cli
<1>3. FolderTyped' /\ JournalBacked' /\ JournalTells' /\ BundleFollows'
  BY <1>2 DEF FolderInv, OnDisk, FolderTyped, JournalBacked, JournalTells, BundleFollows,
              Entries, Version, Listed
<1>4. FilesListed /\ bundle.entries \in Nat
  BY DEF FolderInv, OnDisk, FolderTyped
<1>5. \A v, shape : HasShape(v, shape) => HasShape(v, shape)'
  BY <1>2 DEF HasShape
<1>6. FilesListed'
  <2>1. CASE StartApp
    <3>1. /\ app' = [state |-> Import(fields), version |-> bundle.entries, shape |-> fields]
          /\ UNCHANGED written
      BY <2>1 DEF StartApp
    <3>2. ASSUME app'.state = "started" PROVE bundle.hash = fields /\ Listed
      <4>1. Import(fields) = "started"
        BY <3>1, <3>2
      <4>2. bundle.hash = fields
        BY <4>1 DEF Import, Refusal
      <4>3. QED
        BY <4>2, ShapesAssumption DEF Listed, FolderInv
    <3>3. ASSUME app'.state = "started" PROVE HasShape(bundle.entries, fields)
      BY <1>4, <3>2, <3>3 DEF HasShape, FolderInv, OnDisk, BundleFollows
    <3>4. \A f \in written : f.version <= bundle.entries
      BY <1>4 DEF FilesListed, HasShape
    <3>5. Listed' = Listed
      BY <1>2 DEF Listed
    <3>6. QED
      BY <1>4, <1>5, <3>1, <3>2, <3>3, <3>4, <3>5 DEF FilesListed
  <2>2. CASE Save
    <3>1. /\ app.state = "started" /\ UNCHANGED app
          /\ written' = written \cup {[version |-> app.version, shape |-> app.shape]}
      BY <2>2 DEF Save
    <3>2. HasShape(app.version, app.shape) /\ app.version \in Nat
      BY <1>4, <3>1 DEF FilesListed, HasShape
    <3>3. Listed' = Listed
      BY <1>2 DEF Listed
    <3>4. QED
      BY <1>4, <1>5, <3>1, <3>2, <3>3 DEF FilesListed
  <2>3. CASE StopApp
    <3>1. app'.state # "started" /\ UNCHANGED written
      BY <2>3 DEF StopApp, Stopped
    <3>2. Listed' = Listed
      BY <1>2 DEF Listed
    <3>3. QED
      BY <1>4, <1>5, <3>1, <3>2 DEF FilesListed
  <2>4. QED
    BY <2>1, <2>2, <2>3 DEF Application
<1>7. CommandTyped' /\ Writing' /\ InStep'
  BY <1>1, <1>2 DEF FolderInv, CommandTyped, Writing, StepReady, SnapshotReady, InStep,
                    BundleCurrent, Entries, Version, Listed
<1>8. QED
  BY <1>1, <1>3, <1>6, <1>7 DEF FolderInv, OnDisk

(* What changes neither the folder nor the command nor the application.    *)
LEMMA RestKeeps ==
  ASSUME FolderInv, UNCHANGED <<folder, cli, app, written, crashes>>, fields' \in Shapes
  PROVE  FolderInv'
<1>1. OnDisk' /\ (BundleCurrent => BundleCurrent')
  BY FolderStays
<1>2. UNCHANGED <<journal, snapshots, steps, bundle, command, stage, loaded, files, target, todo>>
  BY DEF folder, cli
<1>3. CommandTyped' /\ Writing' /\ InStep'
  BY <1>1, <1>2 DEF FolderInv, CommandTyped, Writing, StepReady, SnapshotReady, InStep, Entries
<1>4. QED
  BY <1>1, <1>3 DEF FolderInv

LEMMA FolderStep ==
  ASSUME FolderInv, [Next]_vars
  PROVE  FolderInv'
<1>1. ASSUME NEW shape \in Shapes, Edit(shape) PROVE FolderInv'
  BY <1>1, RestKeeps DEF Edit
<1>2. ASSUME NEW v \in DOMAIN steps, Fill(v) PROVE FolderInv'
  BY <1>2, FillKeeps
<1>3. CASE WriteFile
  BY <1>3, WriteFileKeeps
<1>4. CASE FailToLoad \/ AllWritten
  BY <1>4, StopKeeps DEF FailToLoad, AllWritten
<1>5. CASE FailToRead \/ UpToDate \/ Status
  <2>1. stage = "plan" /\ Stop
    BY <1>5 DEF FailToRead, UpToDate, Status, Generating, Reporting
  <2>2. files = <<>>
    BY <2>1 DEF FolderInv, CommandTyped
  <2>3. QED
    BY <2>1, <2>2, StopKeeps
<1>6. CASE \/ \E c \in {"generate", "status"} : StartCommand(c)
           \/ Load \/ PlanInitial \/ PlanVersion
  BY <1>6, CommandKeeps
<1>7. CASE Crash
  BY <1>7, CrashKeeps
<1>8. CASE Application
  BY <1>8, ApplicationKeeps
<1>9. CASE UNCHANGED vars
  <2>1. UNCHANGED <<fields, folder, cli, app, written, crashes>>
    BY <1>9 DEF vars
  <2>2. QED
    BY <2>1, RestKeeps DEF FolderInv
<1>10. QED
  BY <1>1, <1>2, <1>3, <1>4, <1>5, <1>6, <1>7, <1>8, <1>9 DEF Next, Developer, Run

THEOREM FolderInvariant == Spec => []FolderInv
<1>1. QED
  BY FolderInitHolds, FolderStep, PTL DEF Spec

----------------------------------------------------------------------------

(* generate and status never fail on a snapshot or a migration that the    *)
(* journal lists, wherever commands died (cli/load.ts, generate.ts).       *)
THEOREM JournalIsBacked == Spec => []JournalBacked
<1>1. FolderInv => JournalBacked
  BY DEF FolderInv, OnDisk
<1>2. QED
  BY <1>1, FolderInvariant, PTL

(* A version keeps its number: the journal is only appended to, until a    *)
(* crash loses it.                                                         *)
THEOREM VersionsArePositions == Spec => JournalGrows
<1>1. ASSUME FolderInv, [Next]_vars
      PROVE  journal'.whole =>
                 /\ Len(journal.entries) <= Len(journal'.entries)
                 /\ \A i \in DOMAIN journal.entries : journal'.entries[i] = journal.entries[i]
  <2> DEFINE Grows ==
         journal'.whole =>
             /\ Len(Entries) <= Len(Entries')
             /\ \A i \in DOMAIN Entries : Entries'[i] = Entries[i]
  <2> SUFFICES Grows
    BY DEF Entries
  <2>1. Entries \in Seq(Shapes)
    BY <1>1 DEF FolderInv, OnDisk, FolderTyped, Entries
  <2>2. CASE UNCHANGED journal
    BY <2>1, <2>2 DEF Entries
  <2>3. ASSUME files # <<>>, NEW whole \in BOOLEAN, Write(Head(files), whole)
        PROVE  Grows
    <3>1. CASE Head(files) = "journal"
      <4>1. WriteJournal(whole)
        BY <2>3, <3>1 DEF Write
      <4>2. files = <<"journal", "bundle">>
        BY <1>1, <2>3, <3>1, WritesOne, Heads DEF Lists
      <4>3. loaded.shape \in Shapes
        BY <1>1, <2>3, <4>2, WritesOne, WhileWriting, FilesDiffer
      <4>4. whole => Entries' = Append(Entries, loaded.shape)
        BY <4>1 DEF WriteJournal, Entries
      <4>5. journal'.whole = whole
        BY <4>1 DEF WriteJournal
      <4>6. QED
        BY <2>1, <4>3, <4>4, <4>5
    <3>2. CASE Head(files) # "journal"
      BY <2>2, <2>3, <3>2 DEF Write
    <3>3. QED
      BY <3>1, <3>2
  <2>4. CASE WriteFile
    BY <2>3, <2>4 DEF WriteFile
  <2>5. CASE Crash
    BY <2>2, <2>3, <2>5 DEF Crash, folder
  <2>6. CASE Developer \/ Application \/ UNCHANGED vars
    BY <2>2, <2>6 DEF Developer, Edit, Fill, StartCommand, Application, StartApp, Save, StopApp,
                      folder, vars
  <2>7. CASE \/ Load \/ FailToLoad \/ FailToRead
             \/ PlanInitial \/ PlanVersion \/ UpToDate \/ AllWritten \/ Status
    BY <2>2, <2>7 DEF Load, FailToLoad, FailToRead, PlanInitial, PlanVersion, UpToDate,
                      AllWritten, Status, Plan, Stop, folder
  <2>8. QED
    BY <1>1, <2>4, <2>5, <2>6, <2>7 DEF Next, Run
<1>2. QED
  BY <1>1, FolderInvariant, PTL DEF Spec, JournalGrows

(* A file that any earlier start of the application wrote is of a version  *)
(* from which the migrations of the bundle lead to the one that runs,      *)
(* whatever was edited and wherever commands died in between.              *)
THEOREM EveryFileFits == Spec => []OldFilesFit
<1>1. ASSUME FolderInv PROVE OldFilesFit
  <2>1. BundleFollows /\ FilesListed /\ bundle.entries \in Nat
    BY <1>1 DEF FolderInv, OnDisk, FolderTyped
  <2>2. SUFFICES ASSUME app.state = "started", NEW f \in written
                 PROVE  /\ f.version <= app.version
                        /\ f.version = app.version => f.shape = app.shape
                        /\ f.version < app.version =>
                               /\ steps[f.version + 1].before = f.shape
                               /\ steps[app.version].after = app.shape
                        /\ \A v \in f.version + 1 .. app.version - 1 :
                               steps[v].after = steps[v + 1].before
    BY DEF OldFilesFit
  <2>3. /\ HasShape(f.version, f.shape) /\ HasShape(app.version, app.shape)
        /\ f.version <= app.version
    BY <2>1, <2>2 DEF FilesListed
  <2>4. f.version = app.version => f.shape = app.shape
    BY <2>1, <2>3 DEF HasShape
  <2>5. f.version < app.version =>
            steps[f.version + 1].before = f.shape /\ steps[app.version].after = app.shape
    BY <2>1, <2>3 DEF HasShape
  <2>6. ASSUME NEW v \in f.version + 1 .. app.version - 1
        PROVE  steps[v].after = steps[v + 1].before
    <3>1. v \in 1 .. bundle.entries - 1
      BY <2>1, <2>3 DEF HasShape
    <3>2. QED
      BY <2>1, <3>1 DEF BundleFollows
  <2>7. QED
    BY <2>3, <2>4, <2>5, <2>6
<1>2. QED
  BY <1>1, FolderInvariant, PTL

(* While no command dies, status reports what the application would be     *)
(* refused for, with the schema and the bundle that status imported.       *)
THEOREM StatusIsRight == Spec => []StatusAgreesUncrashed
<1>1. ASSUME FolderInv PROVE StatusAgreesUncrashed
  <2>1. SUFFICES ASSUME crashes = 0, Reporting
                 PROVE  Report = Refusal(loaded.shape, loaded.unfinished)
    BY DEF StatusAgreesUncrashed, StatusAgrees
  <2>2. stage = "plan" /\ BundleCurrent
    BY <1>1, <2>1 DEF FolderInv, InStep, Reporting
  <2>3. FolderTyped /\ JournalTells /\ BundleFollows /\ journal.whole
    BY <1>1, <2>1 DEF FolderInv, OnDisk, InStep
  <2>4. CASE Entries = <<>>
    BY <2>2, <2>3, <2>4 DEF BundleCurrent, FolderTyped, Report, Refusal, Entries, Listed
  <2>5. CASE Entries # <<>>
    <3>1. bundle.entries = Version /\ Listed
      BY <2>2, <2>5 DEF BundleCurrent
    <3>2. Version \in 0 .. Version /\ bundle.hash = Entries[Version + 1]
      BY <2>3, <3>1 DEF BundleFollows, FolderTyped
    <3>3. snapshots[Version].shape = bundle.hash
      BY <2>3, <3>2 DEF JournalTells
    <3>4. QED
      BY <2>5, <3>1, <3>3 DEF Report, Refusal, Entries, Listed
  <2>6. QED
    BY <2>4, <2>5
<1>2. QED
  BY <1>1, FolderInvariant, PTL
=============================================================================

------------------------------- MODULE Folder -------------------------------
(***************************************************************************)
(* The migrations folder of one schema and those who work on it: the       *)
(* developer, who edits the schema module and fills in migrations; the     *)
(* CLI, whose generate and status commands are load of cli/load.ts,        *)
(* generateOne and planGeneration, and statusOne; and the application,     *)
(* which is refused or started by Schema.enforce when it imports the       *)
(* schema, and then writes snapshots.                                      *)
(*                                                                         *)
(* The folder is a few files, written one after the other: a migration for *)
(* every version, the schema as it was at every version (meta/NNNN), the   *)
(* journal that lists the versions, and the bundle (index.ts) that the     *)
(* schema module imports.  The CLI may crash at any file and leave a part  *)
(* of it.                                                                  *)
(*                                                                         *)
(* Abstractions.  A shape stands for a layout and its hash; two shapes     *)
(* differ.  What a migration does is Generate.tla's: here it leads from a  *)
(* shape to a shape, and either has pending fields or has none.  No name   *)
(* and no --rename is given, and a generate that stops at a question has   *)
(* written nothing yet.  Nobody else edits the files, and no two commands  *)
(* run at once.                                                            *)
(***************************************************************************)
EXTENDS Naturals, Sequences, FiniteSets

CONSTANTS
    Shapes,         \* what the fields of the schema may be
    NoShape,        \* the hash "0" of a stub
    MaxEdits,       \* bound: how often the schema is edited
    MaxCrashes      \* bound: how often the CLI dies

ASSUME ShapesAssumption == Shapes # {} /\ NoShape \notin Shapes
ASSUME BoundsAssumption == MaxEdits \in Nat /\ MaxCrashes \in Nat

VARIABLES
    fields,     \* the schema module's fields
    journal,    \* meta/_journal.json: [whole, entries], the shape of each version
    snapshots,  \* meta/NNNN_snapshot.json: version -> [whole, shape]
    steps,      \* the migration files: version -> [whole, before, after, pending]
    bundle,     \* index.ts: [there, whole, hash, entries]
    command,    \* the command that runs: "none", "generate" or "status"
    stage,      \* where it is: "none", "load", "plan" or "write"
    loaded,     \* what it imported: [shape, unfinished]
    files,      \* the files it still has to write
    target,     \* the version it generates ...
    todo,       \* ... and whether that one needs filling in
    app,        \* the application: [state, version, shape]
    written,    \* the snapshot files written by it: [version, shape]
    edits, crashes

folder == <<journal, snapshots, steps, bundle>>
cli == <<command, stage, loaded, files, target, todo>>
vars == <<fields, folder, cli, app, written, edits, crashes>>

Unloaded == [shape |-> NoShape, unfinished |-> FALSE]
Stopped == [state |-> "stopped", version |-> 0, shape |-> NoShape]

Put(f, k, x) == [i \in DOMAIN f \cup {k} |-> IF i = k THEN x ELSE f[i]]

Init ==
    /\ fields \in Shapes
    /\ journal = [whole |-> TRUE, entries |-> <<>>]
    /\ snapshots = [v \in {} |-> [whole |-> TRUE, shape |-> NoShape]]
    /\ steps = [v \in {} |-> [whole |-> TRUE, before |-> NoShape, after |-> NoShape,
                              pending |-> FALSE]]
    /\ bundle = [there |-> FALSE, whole |-> FALSE, hash |-> NoShape, entries |-> 0]
    /\ command = "none"
    /\ stage = "none"
    /\ loaded = Unloaded
    /\ files = <<>>
    /\ target = 0
    /\ todo = FALSE
    /\ app = Stopped
    /\ written = {}
    /\ edits = 0
    /\ crashes = 0

----------------------------------------------------------------------------
(* The developer.                                                          *)

Edit(shape) ==
    /\ edits < MaxEdits
    /\ shape # fields
    /\ fields' = shape
    /\ edits' = edits + 1
    /\ UNCHANGED <<folder, cli, app, written, crashes>>

(* Real code in up(), and no more pending names.                           *)
Fill(v) ==
    /\ v \in DOMAIN steps
    /\ steps[v].whole /\ steps[v].pending
    /\ steps' = [steps EXCEPT ![v].pending = FALSE]
    /\ UNCHANGED <<fields, journal, snapshots, bundle, cli, app, written, edits, crashes>>

----------------------------------------------------------------------------
(* The schema module imports the bundle, and the bundle its migrations.    *)

Imports ==
    /\ bundle.there /\ bundle.whole
    /\ \A v \in 1 .. bundle.entries : v \in DOMAIN steps /\ steps[v].whole

Unfinished == \E v \in 1 .. bundle.entries : steps[v].pending

(* Schema.enforce, for a schema of this shape.                             *)
Refusal(shape, unfinished) ==
    IF bundle.hash = NoShape /\ bundle.entries = 0 THEN "missing"
    ELSE IF bundle.hash # shape THEN "drift"
    ELSE IF unfinished THEN "unfinished"
    ELSE "started"

Import(shape) == IF Imports THEN Refusal(shape, Unfinished) ELSE "broken"

(* A refused application has thrown: all that is left is what it said.     *)
StartApp ==
    /\ app.state # "started"
    /\ app' = [state |-> Import(fields), version |-> bundle.entries, shape |-> fields]
    /\ UNCHANGED <<fields, folder, cli, written, edits, crashes>>

Save ==
    /\ app.state = "started"
    /\ written' = written \cup {[version |-> app.version, shape |-> app.shape]}
    /\ UNCHANGED <<fields, folder, cli, app, edits, crashes>>

StopApp ==
    /\ app.state = "started"
    /\ app' = Stopped
    /\ UNCHANGED <<fields, folder, cli, written, edits, crashes>>

----------------------------------------------------------------------------
(* A command.                                                              *)

(* ensureBundleStub: without a bundle the schema module cannot be loaded.  *)
StartCommand(c) ==
    /\ command = "none"
    /\ command' = c
    /\ stage' = "load"
    /\ files' = IF bundle.there THEN <<>> ELSE <<"stub">>
    /\ UNCHANGED <<fields, folder, loaded, target, todo, app, written, edits, crashes>>

(* What is in a file once it is written; less, if only a part is.          *)
WriteStep(whole) ==
    steps' = Put(steps, target,
                 [whole |-> whole, before |-> journal.entries[target], after |-> loaded.shape,
                  pending |-> todo])

WriteSnapshot(whole) ==
    snapshots' = Put(snapshots, target, [whole |-> whole, shape |-> loaded.shape])

\* mutant: an entry takes the place of the last one
WriteJournalOver(whole) == journal' = [whole |-> whole, entries |-> <<loaded.shape>>]

WriteJournal(whole) ==
    journal' = [whole |-> whole,
                entries |-> IF whole THEN Append(journal.entries, loaded.shape) ELSE <<>>]

WriteBundle(whole, hash, entries) ==
    bundle' = [there |-> TRUE, whole |-> whole, hash |-> hash, entries |-> entries]

Write(file, whole) ==
    /\ IF file = "step" THEN WriteStep(whole) ELSE UNCHANGED steps
    /\ IF file = "snapshot" THEN WriteSnapshot(whole) ELSE UNCHANGED snapshots
    /\ IF file = "journal" THEN WriteJournal(whole) ELSE UNCHANGED journal
    /\ CASE file = "bundle" -> WriteBundle(whole, loaded.shape, target)
         [] file = "stub" -> WriteBundle(whole, NoShape, 0)
         [] OTHER -> UNCHANGED bundle

WriteFile ==
    /\ files # <<>>
    /\ Write(Head(files), TRUE)
    /\ files' = Tail(files)
    /\ UNCHANGED <<fields, command, stage, loaded, target, todo, app, written, edits, crashes>>

EndCommand ==
    /\ command' = "none"
    /\ stage' = "none"
    /\ loaded' = Unloaded
    /\ files' = <<>>
    /\ target' = 0
    /\ todo' = FALSE

(* The command dies: before a file is written, within it or after it.      *)
Crash ==
    /\ command # "none"
    /\ crashes < MaxCrashes
    /\ crashes' = crashes + 1
    /\ \/ UNCHANGED folder
       \/ files # <<>> /\ \E whole \in BOOLEAN : Write(Head(files), whole)
    /\ EndCommand
    /\ UNCHANGED <<fields, app, written, edits>>

Stop ==
    /\ EndCommand
    /\ UNCHANGED <<fields, folder, app, written, edits, crashes>>

(* load: the schema module is imported, with enforcement off.              *)
Load ==
    /\ stage = "load" /\ files = <<>>
    /\ Imports
    /\ loaded' = [shape |-> fields, unfinished |-> Unfinished]
    /\ stage' = "plan"
    /\ UNCHANGED <<fields, folder, command, files, target, todo, app, written, edits, crashes>>

FailToLoad == stage = "load" /\ files = <<>> /\ ~Imports /\ Stop

(* readJournal and lastSnapshot.                                           *)
Version == Len(journal.entries) - 1

Readable ==
    /\ journal.whole
    /\ journal.entries # <<>> => Version \in DOMAIN snapshots /\ snapshots[Version].whole

FailToRead == stage = "plan" /\ ~Readable /\ Stop

Generating == command = "generate" /\ stage = "plan" /\ Readable

Plan(version, pending, list) ==
    /\ stage' = "write"
    /\ target' = version
    /\ todo' = pending
    /\ files' = list
    /\ UNCHANGED <<fields, folder, command, loaded, app, written, edits, crashes>>

PlanInitial ==
    /\ Generating
    /\ journal.entries = <<>>
    /\ Plan(0, FALSE, <<"snapshot", "journal", "bundle">>)

\* mutants: other orders, a file left out
BundleFirst == <<"step", "snapshot", "bundle", "journal">>
JournalFirst == <<"step", "journal", "snapshot", "bundle">>
BundleForgotten == <<"step", "snapshot", "journal">>

VersionFiles == <<"step", "snapshot", "journal", "bundle">>

PlanVersion ==
    /\ Generating
    /\ journal.entries # <<>>
    /\ snapshots[Version].shape # loaded.shape
    /\ \E pending \in BOOLEAN : Plan(Version + 1, pending, VersionFiles)

UpToDate ==
    /\ Generating
    /\ journal.entries # <<>>
    /\ snapshots[Version].shape = loaded.shape
    /\ Stop

AllWritten == stage = "write" /\ files = <<>> /\ Stop

\* mutant: unfinished migrations are not looked for
ReportDriftOnly ==
    IF journal.entries = <<>> THEN "missing"
    ELSE IF snapshots[Version].shape # loaded.shape THEN "drift"
    ELSE "started"

(* What statusOne finds, in the words of Refusal.  The bundle it looks at   *)
(* is the one that was imported with the schema.                           *)
Report ==
    IF journal.entries = <<>> THEN "missing"
    ELSE IF snapshots[Version].shape # loaded.shape THEN "drift"
    ELSE IF loaded.unfinished THEN "unfinished"
    ELSE "started"

Reporting == command = "status" /\ stage = "plan" /\ Readable

Status == Reporting /\ Stop

----------------------------------------------------------------------------
Developer ==
    \/ \E shape \in Shapes : Edit(shape)
    \/ \E v \in DOMAIN steps : Fill(v)
    \/ \E c \in {"generate", "status"} : StartCommand(c)

Run ==
    \/ WriteFile \/ Load \/ FailToLoad \/ FailToRead
    \/ PlanInitial \/ PlanVersion \/ UpToDate \/ AllWritten \/ Status

Application == StartApp \/ Save \/ StopApp

Next == Developer \/ Run \/ Crash \/ Application

Spec == Init /\ [][Next]_vars

(* A command ends; an application that is not running is started again;    *)
(* and the developer does what its last refusal says, whenever no other    *)
(* command runs: run generate, or fill in the migration it names.          *)
Advised == app.state \in {"broken", "missing", "drift"} /\ StartCommand("generate")

FairSpec ==
    /\ Spec
    /\ WF_vars(Run)
    /\ WF_vars(StartApp)
    /\ SF_vars(Advised)
    /\ \A v \in 1 .. MaxEdits : WF_vars(Fill(v))

----------------------------------------------------------------------------
(* A file any earlier start of the application wrote can be opened by the  *)
(* one that runs: its version is the place of its shape in the chain of    *)
(* migrations the bundle holds, wherever the CLI died in between.          *)
OldFilesFit ==
    app.state = "started" =>
        \A f \in written :
            /\ f.version <= app.version
            /\ f.version = app.version => f.shape = app.shape
            /\ f.version < app.version =>
                  /\ steps[f.version + 1].before = f.shape
                  /\ steps[app.version].after = app.shape
            /\ \A v \in f.version + 1 .. app.version - 1 : steps[v].after = steps[v + 1].before

(* What the journal lists is there and whole: generate and status never    *)
(* fail on a snapshot or a migration, though they may on a journal that    *)
(* was only partly written.                                                *)
JournalBacked ==
    /\ \A v \in 0 .. Version : v \in DOMAIN snapshots /\ snapshots[v].whole
    /\ \A v \in 1 .. Version : v \in DOMAIN steps /\ steps[v].whole

(* README.md: version numbers are positions in the journal.  An entry      *)
(* never changes and never goes, but with the whole file.                  *)
JournalGrows ==
    [][journal'.whole =>
          /\ Len(journal.entries) <= Len(journal'.entries)
          /\ \A i \in DOMAIN journal.entries : journal'.entries[i] = journal.entries[i]]_vars

(* README.md: status reports the same three states the application is      *)
(* refused for, for the schema and the bundle it imported ...              *)
StatusAgrees == Reporting => Report = Refusal(loaded.shape, loaded.unfinished)

(* ... as it does while no command has died.                               *)
StatusAgreesUncrashed == crashes = 0 => StatusAgrees

(* An application that is refused is started in the end, by a developer    *)
(* who does what the error says, if no command dies.                       *)
AdviceHelps ==
    [](crashes = 0) =>
        (app.state \in {"broken", "missing", "drift", "unfinished"} ~> app.state = "started")
=============================================================================

----------------------------- MODULE Migration -----------------------------
(***************************************************************************)
(* Opening a snapshot file with a schema: openSnapshotFile of io.ts,       *)
(* Schema.open of schema.ts, and the engine they run on a snapshot that    *)
(* does not match, migrateSnapshot and runStep of migrate.ts with the      *)
(* SnapshotBuilder of builder.ts.                                          *)
(*                                                                         *)
(* One program opens one file again and again.  It may crash anywhere, and *)
(* a crash while the file is rewritten leaves a part of it.  The user's    *)
(* up() is any code: it writes any builder, in any order, with anything it *)
(* read or made up, and returns or throws.                                 *)
(*                                                                         *)
(* Abstractions.  The signature of a field is its kind and, for a          *)
(* hashLookup, the field it verifies its keys through.  The bytes of a     *)
(* field are a token: Empty is what an untouched builder emits, which is   *)
(* no byte at all for the kinds "flat" and "lookup" and a few for "boxed"  *)
(* (a bucketArray's first pointer, a singleStringRef's id 0).  Every       *)
(* schema hash is distinct.  String tables are interned in the new         *)
(* snapshot by hydration, never carried, and are not followed here; nor is *)
(* the order of fields, but for what it means to the hash.                 *)
(***************************************************************************)
EXTENDS ChainPath, FiniteSets

CONSTANTS
    Names,      \* the names of fields
    Empty,      \* what an untouched builder emits
    Fresh,      \* what up() makes up
    Scenarios   \* the schemas and the files they meet: [schema, file]

VARIABLES
    schema,     \* [version, hash, migrations]: the build's defineSchema()
    file,       \* the snapshot on disk ...
    torn,       \* ... of which only a part may be there
    phase,      \* where open is, "idle" when nothing is open
    reason,     \* the error it ended with
    bytes,      \* migrateSnapshot's `bytes`: what the steps so far produced
    chain,      \* the migrations still to run
    compiled,   \* runStep's locals: the layout it builds ...
    sourceNameOf,   \* ... the field of the input each field comes from ...
    carried,    \* ... the fields carried as bytes ...
    builders,   \* ... and what the builders hold
    aux_opened, \* history: the snapshot this open started from
    aux_origin, \* history: by the declarations alone, which field of it
                \*   each field still stands for
    aux_wrote   \* history: the fields up() wrote in this step, and what

step == <<compiled, sourceNameOf, carried, builders, aux_wrote>>
history == <<aux_opened, aux_origin>>
vars == <<schema, file, torn, phase, reason, bytes, chain, step, history>>

Nothing == [n \in {} |-> Empty]

----------------------------------------------------------------------------
(* Layouts, snapshots and migrations.                                      *)

Kinds == {"table", "flat", "boxed", "lookup"}

Signature == [kind : Kinds, via : Names \cup {""}]

(* The fields whose bytes are followed: all but string tables.             *)
Plain(layout) == {n \in DOMAIN layout : layout[n].kind # "table"}

HasTable(layout) == \E n \in DOMAIN layout : layout[n].kind = "table"

(* A field with this signature and content takes up bytes in the file.     *)
HasBytes(signature, content) == content # Empty \/ signature.kind = "boxed"

IsLayout(l) == DOMAIN l \subseteq Names /\ l \in [DOMAIN l -> Signature]

IsSnapshot(s) ==
    /\ s.version \in Nat
    /\ IsLayout(s.hash.layout)
    /\ DOMAIN s.data = Plain(s.hash.layout)

(* Schemas, and the files they wrote, have one string table: the Schema    *)
(* constructor insists on it.                                              *)
OneTable(layout) == \E n \in DOMAIN layout : Plain(layout) = DOMAIN layout \ {n}

(* What a migration names are fields, and what it defines them as.         *)
IsMigration(m) ==
    /\ IsLayout(m.defines)
    /\ m.renames \in [DOMAIN m.renames -> Names]

(* "" stands for the field of a hashLookup that verifies through none.     *)
ASSUME NamesAssumption == "" \notin Names

ASSUME ScenariosAssumption ==
    \A s \in Scenarios :
        /\ IsSnapshot(s.file) /\ IsLayout(s.schema.hash.layout)
        /\ OneTable(s.file.hash.layout) /\ OneTable(s.schema.hash.layout)
        /\ s.schema.version \in Nat
        /\ s.schema.migrations \in Seq(Declared(s.schema.migrations))
        /\ \A m \in Declared(s.schema.migrations) : IsMigration(m)

(* A schema hash stands for the layout and the order of its fields.        *)
Hash(layout, order) == [layout |-> layout, order |-> order]

(* Schema.matches.                                                         *)
Matches(snapshot) == snapshot.version = schema.version /\ snapshot.hash = schema.hash

Target == schema.hash.layout

NewName(m, n) == IF n \in DOMAIN m.renames THEN m.renames[n] ELSE n

(* remapSignature: a hashLookup follows the field it verifies through.     *)
Remap(m, signature) ==
    IF signature.kind = "lookup" /\ signature.via # ""
    THEN [signature EXCEPT !.via = NewName(m, signature.via)]
    ELSE signature

(* definitionEntries: `defines` either maps names to fields, or lists      *)
(* names that mean what the current schema says.                           *)
Defined(m) == DOMAIN m.defines \cup m.listed

Definition(m, n) == IF n \in m.listed THEN Target[n] ELSE m.defines[n]

(* deriveFields.                                                           *)
Kept(m, layout) == DOMAIN layout \ m.drops

(* All renames of a migration start at a field that is there and stays:    *)
(* the engine does not ask for it, and looks for the bytes of a field only *)
(* under the name that `renames` gives.                                    *)
Careful(m, layout) == DOMAIN m.renames \subseteq Kept(m, layout)

Derivable(m, layout) ==
    \A n, k \in Kept(m, layout) : NewName(m, n) = NewName(m, k) => n = k

Derived(m, layout) ==
    LET arriving == {NewName(m, n) : n \in Kept(m, layout)}
        coming(k) == CHOOSE n \in Kept(m, layout) : NewName(m, n) = k
    IN  [k \in arriving \cup Defined(m) |->
            IF k \in Defined(m) THEN Definition(m, k)
                                ELSE Remap(m, layout[coming(k)])]

(* The inverse of `renames`.  When two fields are renamed to one name, the *)
(* entry written last wins.                                                *)
Reversals(m) ==
    {r \in [{m.renames[n] : n \in DOMAIN m.renames} -> DOMAIN m.renames] :
        \A k \in DOMAIN r : m.renames[r[k]] = k}

----------------------------------------------------------------------------
Init ==
    /\ \E s \in Scenarios : schema = s.schema /\ file = s.file
    /\ torn = FALSE
    /\ phase = "idle"
    /\ reason = "none"
    /\ bytes = file
    /\ chain = <<>>
    /\ compiled = Nothing
    /\ sourceNameOf = Nothing
    /\ carried = {}
    /\ builders = Nothing
    /\ aux_opened = file
    /\ aux_origin = Nothing
    /\ aux_wrote = Nothing

ClearStep ==
    /\ compiled' = Nothing
    /\ sourceNameOf' = Nothing
    /\ carried' = {}
    /\ builders' = Nothing
    /\ aux_wrote' = Nothing

ClearHistory ==
    /\ aux_opened' = file
    /\ aux_origin' = Nothing

(* open throws, and what it had built is gone.                             *)
Refuse(why) ==
    /\ phase' = "refused"
    /\ reason' = why
    /\ bytes' = file
    /\ chain' = <<>>
    /\ ClearStep
    /\ ClearHistory
    /\ UNCHANGED <<schema, file, torn>>

----------------------------------------------------------------------------
(* readSnapshotFile, Schema.open and the head of migrateSnapshot.          *)

Opening == phase = "idle"

(* Part of a snapshot: the header, or a section the table places past the  *)
(* end of the buffer, cannot be read.                                      *)
RefuseTorn == Opening /\ torn /\ Refuse("format")

Read ==
    /\ Opening
    /\ ~torn
    /\ bytes' = file
    /\ aux_opened' = file
    /\ aux_origin' = [n \in Plain(file.hash.layout) |-> n]

ServeCurrent ==
    /\ Read
    /\ Matches(file)
    /\ phase' = "served"
    /\ UNCHANGED <<schema, file, torn, reason, chain, step>>

\* mutant: migrate: false is looked at before the hashes
RefuseBeforeMatching == Opening /\ ~torn /\ Refuse("mismatch")

RefuseMismatch ==
    /\ Opening
    /\ ~torn
    /\ ~Matches(file)
    /\ Refuse("mismatch")

(* The program asked for migrate: false, or resolveChain refuses, or the   *)
(* snapshot has this build's version and not its layout: the chain is      *)
(* empty.                                                                  *)
Resolvable ==
    /\ file.version < schema.version
    /\ Indexable(schema.migrations)
    /\ ChainsIn(schema.migrations, file.version, schema.version) # {}

RefusePath ==
    /\ Opening
    /\ ~torn
    /\ ~Matches(file)
    /\ ~Resolvable
    /\ Refuse("path")

StartMigrating ==
    /\ Read
    /\ ~Matches(file)
    /\ Resolvable
    /\ chain' \in ChainsIn(schema.migrations, file.version, schema.version)
    /\ phase' = "step"
    /\ UNCHANGED <<schema, file, torn, reason, step>>

----------------------------------------------------------------------------
(* runStep, up to the call of up().                                        *)

Migration == Head(chain)
IsLast == Len(chain) = 1
Layout == bytes.hash.layout
StepLayout == IF IsLast THEN Target ELSE Derived(Migration, Layout)

RefuseNoTable == phase = "step" /\ ~HasTable(Layout) /\ Refuse("format")

RefuseUnlisted ==
    /\ phase = "step"
    /\ HasTable(Layout)
    /\ ~(Migration.listed \subseteq DOMAIN Target)
    /\ Refuse("unlisted")

Deriving ==
    /\ phase = "step"
    /\ HasTable(Layout)
    /\ Migration.listed \subseteq DOMAIN Target

RefuseTwice == Deriving /\ ~Derivable(Migration, Layout) /\ Refuse("twice")

RefuseMisfit ==
    /\ Deriving
    /\ Derivable(Migration, Layout)
    /\ IsLast
    /\ Derived(Migration, Layout) # Target
    /\ Refuse("misfit")

\* mutant: renames are not looked up
SourcesByOwnName(layout, r) ==
    [n \in {k \in Plain(layout) : k \in DOMAIN Layout} |-> n]

(* The field of the input each field of the output comes from, by name.    *)
Sources(layout, r) ==
    LET source(n) == IF n \in DOMAIN r THEN r[n] ELSE n
        found == {n \in Plain(layout) : source(n) \in DOMAIN Layout}
    IN  [n \in found |-> source(n)]

\* mutant: the field a hashLookup verifies through is not compared
CarriesSameKind(m, layout, sources) ==
    {n \in DOMAIN sources :
        /\ Layout[sources[n]].kind = layout[n].kind
        /\ n \notin m.rebuilds}

(* Fields of the same type are carried, unless `rebuilds` names them.      *)
Carries(m, layout, sources) ==
    {n \in DOMAIN sources :
        /\ Remap(m, Layout[sources[n]]) = layout[n]
        /\ n \notin m.rebuilds}

BeginStep ==
    /\ Deriving
    /\ Derivable(Migration, Layout)
    /\ IsLast => Derived(Migration, Layout) = Target
    /\ compiled' = StepLayout
    /\ \E r \in Reversals(Migration) : sourceNameOf' = Sources(StepLayout, r)
    /\ carried' = Carries(Migration, StepLayout, sourceNameOf')
    /\ builders' = [n \in Plain(StepLayout) |-> Empty]
    /\ aux_wrote' = Nothing
    /\ phase' = IF Migration.up THEN "up" ELSE "check"
    /\ UNCHANGED <<schema, file, torn, reason, bytes, chain, history>>

----------------------------------------------------------------------------
(* up(), the user's code.                                                  *)

(* What there is to write: what it makes up, nothing, or a field it read.  *)
Writable == {Empty, Fresh} \cup {bytes.data[n] : n \in DOMAIN bytes.data}

UpWrite(n, content) ==
    /\ phase = "up"
    /\ builders' = [builders EXCEPT ![n] = content]
    /\ aux_wrote' = [k \in DOMAIN aux_wrote \cup {n} |->
                        IF k = n THEN content ELSE aux_wrote[k]]
    /\ UNCHANGED <<schema, file, torn, phase, reason, bytes, chain,
                   compiled, sourceNameOf, carried, history>>

UpReturn ==
    /\ phase = "up"
    /\ phase' = "check"
    /\ UNCHANGED <<schema, file, torn, reason, bytes, chain, step, history>>

UpThrow == phase = "up" /\ Refuse("up")

----------------------------------------------------------------------------
(* runStep, from the return of up().                                       *)

\* mutant: nobody looks
ConflictUnseen == FALSE

(* A carried field whose builder no longer emits what an untouched one     *)
(* does.                                                                   *)
Conflict == \E n \in carried : builders[n] # Empty

RefuseConflict == phase = "check" /\ Conflict /\ Refuse("conflict")

(* What SnapshotBuilder.emit gives for a field.                            *)
Emitted(n) == IF n \in carried THEN bytes.data[sourceNameOf[n]] ELSE builders[n]

\* mutant: a renamed field counts as new
LosesUnderItsName(n) ==
    /\ n \notin carried
    /\ sourceNameOf[n] = n
    /\ n \notin Migration.drops
    /\ ~HasBytes(compiled[n], builders[n])

(* A field that had bytes in the input and has none, and is not in drops   *)
(* under either name.                                                      *)
Loses(n) ==
    /\ n \notin carried
    /\ sourceNameOf[n] \notin Migration.drops
    /\ n \notin Migration.drops
    /\ sourceNameOf[n] \in DOMAIN bytes.data =>
          HasBytes(Layout[sourceNameOf[n]], bytes.data[sourceNameOf[n]])
    /\ ~HasBytes(compiled[n], builders[n])

Loss == \E n \in DOMAIN sourceNameOf : Loses(n)

RefuseLoss == phase = "check" /\ ~Conflict /\ Loss /\ Refuse("loss")

(* By its declarations alone, what a migration does to the fields.         *)
Arrives(m, n, k) ==
    /\ n \notin m.drops
    /\ NewName(m, n) = k
    /\ k \notin Defined(m) \cup m.rebuilds

Origin ==
    LET still == {k \in Plain(compiled) :
                    \E n \in DOMAIN aux_origin : Arrives(Migration, n, k)}
    IN  [k \in still |->
            aux_origin[CHOOSE n \in DOMAIN aux_origin : Arrives(Migration, n, k)]]

\* mutant: the last step is stamped like the others
StampDerived == Hash(compiled, "derived")

(* The hash assembleSnapshot is given.                                     *)
Stamp == IF IsLast THEN schema.hash ELSE Hash(compiled, "derived")

\* mutant: the loop does not go on to the next migration
Again == chain

Rest == Tail(chain)

FinishStep ==
    /\ phase = "check"
    /\ ~Conflict
    /\ ~Loss
    /\ bytes' = [version |-> Migration.to,
                 hash |-> Stamp,
                 data |-> [n \in DOMAIN builders |-> Emitted(n)]]
    /\ chain' = Rest
    /\ phase' = IF IsLast THEN "migrated" ELSE "step"
    /\ aux_origin' = Origin
    /\ ClearStep
    /\ UNCHANGED <<schema, file, torn, reason, aux_opened>>

----------------------------------------------------------------------------
(* Back in openSnapshotFile.                                               *)

(* Schema.open read the migrated bytes, which need a string table: the     *)
(* constructor saw to it that the target has one.                          *)
ServeMigrated ==
    /\ phase = "migrated"
    /\ phase' = "served"
    /\ UNCHANGED <<schema, file, torn, reason, bytes, chain, step, history>>

(* With writeBack the file is rewritten in place before open returns.      *)
StartWriting ==
    /\ phase = "migrated"
    /\ phase' = "writing"
    /\ file' = bytes
    /\ torn' = TRUE
    /\ UNCHANGED <<schema, reason, bytes, chain, step, history>>

FinishWriting ==
    /\ phase = "writing"
    /\ phase' = "served"
    /\ torn' = FALSE
    /\ UNCHANGED <<schema, file, reason, bytes, chain, step, history>>

(* The program is done with the snapshot or the error, or dies: what open  *)
(* had in memory is gone.                                                  *)
Forget ==
    /\ phase' = "idle"
    /\ reason' = "none"
    /\ bytes' = file
    /\ chain' = <<>>
    /\ ClearStep
    /\ ClearHistory
    /\ UNCHANGED <<schema, file>>

Close == phase \in {"served", "refused"} /\ Forget /\ UNCHANGED torn

(* The last byte of a file being written may be there or not.              *)
Crash ==
    /\ phase \notin {"idle", "served", "refused"}
    /\ Forget
    /\ IF phase = "writing" THEN torn' \in BOOLEAN ELSE UNCHANGED torn

----------------------------------------------------------------------------
Open ==
    \/ RefuseTorn \/ ServeCurrent \/ RefuseMismatch \/ RefusePath \/ StartMigrating

RunStep ==
    \/ RefuseNoTable \/ RefuseUnlisted \/ RefuseTwice \/ RefuseMisfit \/ BeginStep
    \/ RefuseConflict \/ RefuseLoss \/ FinishStep

Up ==
    \/ \E n \in DOMAIN builders, content \in Writable : UpWrite(n, content)
    \/ UpReturn
    \/ UpThrow

WriteBack == StartWriting \/ FinishWriting

Next == Open \/ RunStep \/ Up \/ ServeMigrated \/ WriteBack \/ Close \/ Crash

Spec == Init /\ [][Next]_vars

(* The engine's own steps and the writing of a file are calls that end;    *)
(* up() is assumed to end, by returning or throwing, whatever it writes    *)
(* before.                                                                 *)
FairSpec ==
    /\ Spec
    /\ WF_vars(RunStep)
    /\ WF_vars(UpReturn \/ UpThrow)
    /\ WF_vars(ServeMigrated \/ WriteBack)

----------------------------------------------------------------------------
(* A step of the chain has just been finished.                             *)
StepFinished == phase = "check" /\ phase' \in {"step", "migrated"}

(* What open gives out, with or without migrating, is a snapshot of this   *)
(* build's version and layout: the readers are made from the schema's      *)
(* compiled layout and never look at the snapshot's manifest.              *)
ServedMatches == phase \in {"migrated", "writing", "served"} => Matches(bytes)

(* README.md: everything a migration does not mention is carried over as   *)
(* raw bytes, and a renamed field too.  After any number of steps a field  *)
(* that only renames and silence led to still holds the bytes of the field *)
(* it began as, whatever up() did meanwhile.                               *)
SilenceCarries ==
    \A n \in DOMAIN aux_origin :
        n \in DOMAIN bytes.data /\ bytes.data[n] = aux_opened.data[aux_origin[n]]

(* README.md: a field that had bytes before and none after throws, unless  *)
(* drops lists it.  A field that is made the string table has the table's. *)
NoSilentLoss ==
    [][StepFinished =>
         \A n \in DOMAIN bytes.data :
            LET k == NewName(Migration, n)
            IN  bytes.data[n] # Empty /\ n \notin Migration.drops /\ k \notin Migration.drops
                => \/ compiled[k].kind = "table"
                   \/ k \in DOMAIN bytes'.data /\ HasBytes(compiled[k], bytes'.data[k])]_vars

(* Whatever up() leaves in a builder is in the finished step's snapshot:   *)
(* it never loses a write to the bytes that were carried for the field.    *)
WritesArrive ==
    [][StepFinished =>
         \A n \in DOMAIN aux_wrote :
            aux_wrote[n] # Empty => bytes'.data[n] = aux_wrote[n]]_vars

(* A hashLookup that is carried verifies its keys through the bytes it was *)
(* built with, under whatever name they have now, unless the migration     *)
(* replaces that field.                                                    *)
LookupFollows ==
    [][StepFinished =>
         \A n \in carried :
            LET was == Layout[sourceNameOf[n]].via
                is  == compiled[n].via
            IN  /\ compiled[n].kind = "lookup"
                /\ was \in DOMAIN bytes.data
                /\ was \notin Migration.drops
                /\ is \notin Defined(Migration) \cup Migration.rebuilds
                => is \in DOMAIN bytes'.data /\ bytes'.data[is] = bytes.data[was]]_vars

(* An open that starts to migrate ends: with a snapshot, an error or the   *)
(* death of the program.                                                   *)
MigrationEnds == phase = "step" ~> phase \in {"served", "refused", "idle"}

(* Seen from the file, all of this is one serving, one refusal or one      *)
(* replacement.                                                            *)
disk == IF torn THEN "torn" ELSE IF Matches(file) THEN "current" ELSE "old"

mode == CASE phase = "writing" -> "saving"
          [] phase \in {"served", "refused"} -> phase
          [] OTHER -> "idle"

Promise == INSTANCE Upgrade WITH disk <- disk, mode <- mode

(* Opening a file keeps the promise of Upgrade.tla: a file that matches is *)
(* served without a migration and never rewritten, a chain that fails      *)
(* halfway leaves the file as it was, only a snapshot that matches is      *)
(* written, and a half-written file is refused.                            *)
UpgradePromise == Promise!Spec
=============================================================================

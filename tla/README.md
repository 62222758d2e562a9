# bursztyn in TLA+

bursztyn writes binary snapshots of typed fields, opens them without parsing,
and migrates old ones to the schema a build declares. This directory holds TLA+
models of the parts of it whose correctness depends on an order of events, on
combinations of declarations or on what a crash leaves behind; TLC
configurations that check them on small instances; and proofs, checked by
TLAPS, for instances of any size. Paths such as `migrate.ts` are relative to
`src/src/`; `README.md:N` is the repository's own README (`src/README.md`).

## 1. Inventory

| Component | State | Operations | What must hold |
|---|---|---|---|
| Chain resolution (`migrate.ts` `resolveChain`, `schema.ts` constructor, `bundle.ts`) | the declared array, the index by start version, the walk's cursor and chain | construct a schema, resolve for a snapshot's version | finds a chain iff there is one; every step starts where the last one landed; a bundle always resolves |
| Migration engine (`migrate.ts`, `builder.ts`, `schema.ts` `open`) | the bytes so far, the rest of the chain; per step: derived layout, sources, carried fields, builders | open, run a step, user `up()`, check, emit | fields nobody mentions keep their bytes; no loss and no discarded write goes unnoticed; what is served is this build's |
| Snapshot files (`io.ts`) | the file, in memory and on disk | open, write back in place | the file is replaced as a whole or the program died within the write |
| Migration generation (`generate.ts`, `diffManifest`) | none: a function of two layouts and the answers about renames | diff, ask, describe, render | what it writes fits the engine: it runs untouched if nothing is pending, and once filled in otherwise |
| Managed folder (`cli/generate.ts`, `cli/status.ts`, `cli/load.ts`, `journal.ts`, `bundle.ts`, `schema.ts` `enforce`) | journal, schema snapshots, migration files, bundle; the schema module; the running command | generate, status, start-up check, edit, fill in | old files stay readable; whatever is refused can be repaired as advised; `status` agrees with the application |
| Snapshot format (`format.ts`, `layout.ts`) | header, section table, manifest | assemble, read header, make readers, diff, inspect | sections do not overlap, are aligned, stay inside the file |
| String interner (`strings.ts`) | ids, text buffer, probe table | add, hydrate, grow, emit | an id never changes and is never given twice |
| Hash lookup (`fields/hashLookup.ts`, `hash.ts`) | probe table of key halves and values | add, finalize, get, verified get | finds exactly what was added; every probe ends |
| Keyed and pair index, bucket arrays (`fields/keyedIndex.ts`, `pairIndex.ts`, `bucketArray.ts`) | a lookup plus buckets or columns | add, push, endBucket, get | key *n* finds row *n*, also after a failed add |
| Columns, growable arrays (`columns.ts`, `growable.ts`) | typed arrays and a length | push, grow, finalize | columns have equal lengths; values keep their range |
| Sorted index (`fields/sortedU32Index.ts`) | values and their order | radix sort, ranges | sorted and stable; a range is exactly the matching entries |
| Trigram index (`fields/trigramIndex.ts`) | posting buckets, scratch of a query | add, search | a search returns exactly the entries over its threshold |
| UTF-8 (`utf8.ts`), flat fields (`fields/flat.ts`), registry (`registry.ts`), configuration (`config.ts`), CLI surface (`cli.ts`, `terminal.ts`, `inspect.ts`) | none or trivial | transcoding, parsing, printing | round trips |

How they interact. `defineSchema()` compiles the fields and resolves the
declared migrations once. `openSnapshotFile` reads a file and calls
`Schema.open`, which serves it if its header carries the schema's hash and
version and otherwise has `migrateSnapshot` resolve a chain and run it step by
step; each step derives a layout from the bytes' manifest, sets up a builder
per field, calls the user's `up()`, checks what it did and emits the next
bytes. The CLI runs apart: it imports the schema module with enforcement off,
compares it with the last schema recorded in the folder, and writes a
migration, a schema snapshot, the journal and the bundle, one file after the
other; the next start of the application imports the bundle and is started or
refused by `Schema.enforce`.

What is hard. `renames`, `defines`, `drops` and `rebuilds` of one migration
interact, and `up()` is arbitrary code between two halves of a step. The
decision what is carried is taken in two places from different data: by
`generate` from signatures, by the engine from signatures after the renames.
A file is rewritten in place, and the folder is a group of files that is only
consistent once the last is written. `PROJECT.json` lists every such place at
its line, with the property that would catch it.

Inside a snapshot the hard part is numbers. Offsets are 32 bits wide and
masked as signed ones; a trigram's hash may be the mark of a free slot; a
query's scratch is told from the last one's by a counter that wraps around;
ids handed out in one migration are read in every later one. And a file is
read in pieces while another program may be writing it.

## 2. Modules

| Module | Models | Extends |
|---|---|---|
| `ChainPath` | chains of migrations as mathematics: what a chain from a version to another is | |
| `Chain` | the Schema constructor's checks, and `resolveChain` branch by branch: index loop, walk, overshoot check; the three callers | `ChainPath` |
| `MCChain` | arrays for TLC | `Chain` |
| `ChainProofs` | type correctness and four theorems about `Chain` | `Chain` |
| `Upgrade` | the abstract promise of opening a file: two variables, no migrations | |
| `Migration` | `openSnapshotFile`, `Schema.open`, `migrateSnapshot`, `runStep`, any `up()`, write-back, crashes; refines `Upgrade` | `ChainPath` |
| `MCMigration` | schemas, migrations and files for TLC | `Migration` |
| `MigrationProofs` | refinement of `Upgrade`; that writes arrive, untouched fields keep their bytes, losses are noticed | `Migration` |
| `Generate` | `diffManifest`, `renameCandidates`, the questions, `describeChange`, the clauses of the generated file | `Migration` |
| `MCGenerate` | pairs and triples of layouts for TLC | `Generate` |
| `GenerateProofs` | chains of generated migrations land and run, for any history of layouts | `Generate`, `MigrationProofs` |
| `Folder` | the folder, `generate`, `status`, the developer, the application, crashes of the CLI | |
| `FolderProofs` | what is on disk at any moment, and so all four safety properties of `Folder` | `Folder` |
| `HashTable` | the open-addressed table of `hashLookup.ts`: collecting, placing, probing, for any client | |
| `Index` | `hashLookup`, `keyedIndex` and `pairIndex` over that table, with adds that throw half way | `HashTable` |
| `MCIndex` | words, texts and pairs for TLC | `Index` |
| `IndexProofs` | a lookup in the table finds the first entry that fits, a slot stays free; `Index` is a client of the table; pairs keep different keys; a hit leads to its own row, before an add that throws and after | `Index` |
| `Format` | `assembleSnapshot`: offsets in int32, the section table, the bytes set at it | |
| `SnapshotFile` | one file, a program that writes it in place and may die, one that reads it or its head | `Format` |
| `SnapshotProofs` | sections lie apart; what is served was read, and is one snapshot; the parts of `MCSnapshot` do what theirs promise | `MCSnapshot`, `TrigramProofs` |
| `Probing` | where linear probing ends, for the two below | |
| `Strings` | `StringInterner` and `StringReader` over the generations of a snapshot | `Probing` |
| `Trigram` | the trigram index: both slot tables of its builder, its searches and their scratch | `Probing` |
| `SortedIndex` | both sorts of the sorted index, pass by pass, and its binary search | |
| `Buckets` | growable arrays, columns, `numArray`, `bucketArray`, `multiBucketArray`, with values that throw | |
| `SectionProofs` | three of the sections: sorting and finding, rows and buckets, ids of strings | `SortedIndex`, `Buckets`, `Strings` |
| `TrigramProofs` | both tables of the trigram index, its lists, its scores, and that a search is exact | `Trigram`, `SectionProofs` |
| `MCSnapshot` | values for TLC of these five, each moving by itself | `SnapshotFile`, `Strings`, `Trigram`, `SortedIndex`, `Buckets` |

`Migration` takes the chain it runs from `ChainsIn` of `ChainPath`, the set of
chains there are; that `resolveChain` finds one iff there is one, and only ever
one of these, is what `Chain` and `ChainProofs` show. `Generate` adds no state:
its scenarios are schemas whose migrations are the ones `generate` writes, and
`Migration` runs them. `Folder` abstracts a layout to a shape and leaves what a
migration does to `Generate`. `Index` composes the table with each field that
looks rows up; `HashTable!TableSpec` allows any client, so what is proved of it
holds for all three.

### State and actions against the code

*Chain.* `phase` is the place of control in `resolveChain`: `enter` (lines
91-104), `index` (the loop over the array, one action per branch), `walk` (the
`while` loop), `answered`. `byFrom`, `cursor` and `chain` are its locals. The
constructor is `AcceptWithoutMigrations`, `RejectLatest` or
`CheckFromEarliest`; accepted schemas are then asked by `Migrate` (any version
in a header) and `Ask` (the export in `index.ts`).

*Migration.* `file` and `torn` are the disk; `phase` is where `open` is. A step
of the code is `BeginStep` (all of `runStep` before `up()`), any number of
`UpWrite`, `UpReturn` or `UpThrow`, then `RefuseConflict`, `RefuseLoss` or
`FinishStep`. Every `throw` is an action of its own. `aux_opened`,
`aux_origin` and `aux_wrote` are history variables: nothing but properties
reads them. A field's bytes are a token. `Empty` is what an untouched builder
emits, and the kind decides whether that takes up bytes (`boxed`: a
bucketArray's first pointer, a singleStringRef's id 0) or none. A schema hash
is the layout and its order. The string table is not followed: it is hydrated
and rebuilt, which `Strings` models.

*Folder.* `StartCommand` writes the stub a missing bundle needs, `Load` imports
the schema and, through the bundle, its migrations (the module cache keeps that
copy, so `status` sees `loaded.unfinished` and not what the file holds by now),
`PlanInitial`/`PlanVersion`/`UpToDate` are `planGeneration`, and `WriteFile` is
one turn of the loop at `cli/generate.ts:99-102`. `Crash` may hit before,
within or after a file. `StartApp` is the import of the schema with enforcement
on; a refused application leaves its error behind until the next start.

*HashTable.* `phase` goes from `adding` over `placing` (the loops of
`buildHashTable`) to `ready`, and with each lookup over `probing` to
`answered`; one action is one turn of a `while`. The capacity is the code's, a
bit length of one and a half times the size, with the widest that a 32-bit
shift can give (`ShiftLimit`). The three columns are one function from slots to
a hash and a value; `(0, 0)` marks a free slot and is stored as `(1, 0)`. What a
matcher (`setKeyMatcher`, `verifyVia`) accepts is the set `sought.fits`. `at`
is history: where each entry was placed.

*Index.* An add enters its key in the table and then pushes what belongs to it,
as `KeyedIndexBuilder.add` and `PairIndexBuilder.add` do. `KeyedAddFails` and
`PairAddFails` are the same adds cut short by a value that its column rejects:
the key is in, `endBucket` or `count++` has not happened. A value of a column is
the number of the entry it was pushed for, so that reading a row tells whose it
is. `keys` and `failed` are history.

*Format.* `phase` goes from `layout` (the loop at lines 75-83, a turn an
action) to `write` (the buffer is there, a turn of the loop at 105-110 an
action) and `assembled` or `refused`. Each of the four ways to fail is an action:
the check at 85, `new ArrayBuffer` of a negative length, and `bytes.set` past
the end, of the head or of a section. `Half` is 2^31 in the code; `ToInt32` and
`ToUint32` do what `&` and the section table do. `start` and `total` are
history: the same offsets without wrapping. What memory the engine is willing
to give is not a limit of the model.

*SnapshotFile.* `disk` is the first bytes of one snapshot, since the writer
truncates the file when it opens it. `reader` is at the `stat`, between two
calls of `handle.read`, or done; `pieces` says which bytes came from which
snapshot. `RejectShort`, `RejectHeader`, `RejectSections` and `RejectManifest`
are the errors of `readInto`, `readHeader`, the constructor of a view and
`JSON.parse`. Bytes that were not read belong to no snapshot: the buffer is
allocated without being cleared. `overlapped` is history: a writer was in the
file since the reader's `stat`.

*Strings.* `base` is the hydrated table, `list` what was added to it. `add` of a
string that is not in `own` goes through `LookInBase`, as many `PlaceId` as the
first use of the index takes (one turn of `buildIndex` each), and `InBase` or
`NotInBase`. `NextGeneration` serializes and hydrates again, as a migration
does; `Discard` is a migration that throws. `Normal` is what is left of a string
that was encoded and decoded, the identity but for lone surrogates. `fresh` and
`kept`, what was handed out in this generation and before, are history.

*Trigram.* An add posts its windows one by one (`PostSeen`, and `PostFirst` for
letters met for the first time, which computes the hash and may grow either
table; the table it leaves is a recursive function, one entry put in after the
other). A search scores one posting a step (`ScorePosting`, a turn of the loops
of `admitDense`, `scoreDense` and `scoreSparse`) and goes from list to list
(`NextList`); `step` and `at` are `t` and `i` of those loops. `scratch` is the
choice `prepareScratch` makes for good: an array over all entities with a mark
and a bit each, or a map. `generationOf` comes back to 1 after `LastGeneration`, when
the marks are cleared. Texts are their lower-cased letters, `HashOf` any
function.

*SortedIndex.* `SortFew` is the comparison sort of short columns, `SortMany`
starts the radix sort, and a pass is `RunPass` or `SkipPass`. A pass tells
`PassBuckets` digits apart: `Digit`, or `LastDigit` in the last one, which may be
narrower as the code's is. `HalveUp` and `HalveDown` are turns of
the search.

*Buckets.* A store is an array and the part of it that is used. `PushRow` writes
column by column up to the one that throws; `Pushed` keeps what `pushStride` has
written of a stride by then. `sound` is history: how many rows came before the
first that threw, where a row is more than one value of one column.

## 3. Runs

| Run | Instance | Shows |
|---|---|---|
| `chain` | every array of up to 2 links over versions 0..3, every array of 3 forward links, every bundle of up to 3; 129,766 states | `ResolvedIsChain`, `RefusedHasNoChain`: the greedy walk is sound and complete. `ManagedAlwaysResolves`, `EarliestAlwaysResolves`: what the constructor's check is worth. `CallsReturn`: every call returns |
| `chain_gap` (violation) | same | `AcceptedHasNoGap` fails: see 5 |
| `migration` | one step with every mix of 5 `defines`, 8 `renames`, 3 `drops`, 3 `rebuilds`, and chains of two out of 12 kinds of step plus the odd ones (snapshots from the middle, newer, reordered; unlisted names); opened again and again; 121,494 states | `ServedMatches`, `SilenceCarries`, `NoSilentLoss`, `WritesArrive`, `LookupFollows`, `MigrationEnds`, and the refinement `UpgradePromise` |
| `generate` | every pair of layouts over a table, three fields and a lookup and every one-to-one answer; every triple over two fields and a lookup; 359,071 states | `GeneratedLands`, `ReadyRuns`, `FilledRuns` |
| `generate_repointed` (violation) | the pairs left out of `generate`: the field a lookup verifies through is renamed | `FilledRuns` fails: see 5 |
| `generate_retry` (violation) | `--rename a=c` twice | `NoSilentLoss` fails: see 5 |
| `folder` | 3 shapes, 2 edits, 1 crash, commands, fills and starts without bound; 140,415 states | `OldFilesFit`, `JournalBacked`, `JournalGrows` with crashes; `StatusAgreesUncrashed` and `AdviceHelps` without |
| `folder_status` (violation) | same | `StatusAgrees` fails after a crash: see 5 |
| `index` | 3 adds of which up to 2 may throw, a lookup after a lookup; words of 2 bits; four texts, six pairs, all three placements of a pair; 474,789 states | `FindsFirst`, `FreeSlot`, `ProbesEnd`; `VerifiedIsRight` under collisions; `PairsStayDistinct`; `ReadsOwnRow` and `ThrowsLoseNothing`: what was added before an add that throws, and after it, is still found |
| `index_exact` (violation) | the newest placement of a pair, no add throws | `HitIsExact` fails: see 5 |
| `snapshot` | `MCSnapshot`: five parts, one moving in each behaviour; 378,057 states | file: `SectionsApart`, `QuietReads`, `OneReadOneSnapshot`, `NoOldMemory`; strings: `IdsResolve`, `OneIdEach`; trigrams: `SearchIsExact`; sorted keys: `SortedAndStable`, `FindsFirstPair`; columns: `RowsReadBack`; all: `PartsTypeOK`, whose parts also say that a trigram has one bucket (`OneBucketEach`) and that a search leaves its scratch clean (`QuietScratch`), and `PartsEnd`: reads and searches end |
| `snapshot_limit` (violation) | the same | `CappedAtLimit` fails: see 5 |

Why the bounds are enough. A chain of three links has a first, a middle and a
last one, and among four versions there is room for a gap, a duplicate, an
overshoot and a backward link at once. The clauses of a migration meet on one
field or on the two ends of one rename, so three names (one with bytes, one
whose empty form has bytes, one new) reach every combination; two steps are
enough for a step that is not the last. Two edits let a schema go away from a
shape and come back to it, which is where version numbers and hashes could
part; one crash is enough to leave the folder at any point of a command, and
further commands run on what it left. Up to three adds make tables of four
and of eight slots. The texts are two of one hash whose home is the last slot of a
table of four, so that probing wraps around; one whose hash is the mark of a
free slot; and one whose hash is what that is stored as. One add that throws can
come before, between or after the others, and two can leave their values in one
bucket before a third ends it.

In `snapshot` a word has 8 bits, so that 4 GiB is 256 bytes: emissions of up to
three sections end below and above 2 and 4 GiB, wrap around in the last section
and before it, and wrap back to a length that can be allocated. The file is one
of three snapshots, two of one layout and one longer, written and read in
pieces cut at, and within, the head, the manifest and each section. The strings
are a plain one, a lone surrogate and what is stored for it, of one hash whose
home is the last slot of the index. Trigram tables begin with few enough slots
to grow, generations wrap around after a few, one hash is the mark of a free slot
and another what that is stored as, and an entity at the end of the number range
makes the scratch sparse. Keys have two digits of base 3 and a binary
one, and passes are skipped or not; columns have strides of 1 and 2, with short rows and with
values that do not fit.

The five parts of `MCSnapshot` share no state; they are one run because each
says of one layer of a snapshot what the layers on it rely on. `SearchIsExact`
compares a search with its definition: the entities whose number of common
trigrams reaches the cutoff, best first, ties as they are met, up to the limit.
`SectionsApart` leaves out snapshots of 4 GiB and more that have a section of
2 GiB or more (`Moderate`): two sections of nearly 4 GiB each wrap round to a
length that fits, and the code lays one on the other without an error.

`MaxValues` of `Buckets` is 2^30 values an array, which no run comes near; the
proofs need that doubling ends.

Scenarios leave out, for `migration`, renames that start at a field the
snapshot does not have (`Careful`): the engine loses the target's bytes without
an error, as `generate_retry` shows on a migration the CLI itself writes.

Deadlock is checked in every run: a program can always be started again, and a
finished table be asked again.

Fairness. `Chain`: the steps of a call are weakly fair, a call is not.
`Migration`: the engine's steps, and writing a file, are calls that end; `up()`
is assumed to return or throw sooner or later. Opening, closing and crashing are
not fair. `Folder`: a command runs to its end; an application that is not
running is started again; a pending migration is filled in; and the developer
follows the last refusal's advice whenever no other command runs (strong
fairness, since `status` may run in between as often as it likes). `Index`: the
steps of a build or a lookup (`Run`), which the caller's thread executes to
their end; calling is not fair. `SnapshotFile`: the reader's steps (`Reading`), a
loop of system calls that return; the writer may never come back. `SortedIndex`:
the turns of a search (`Halving`). No fairness
is assumed of edits, of `status` or of crashes; `AdviceHelps` is about the code
making the advice sufficient, not about developers.

## 4. Proofs

All are for any value of the constants.

* `ChainProofs` (any `MaxVersion`, any set of arrays).
  `Typing`: every index used without a check is in range.
  `ChainInvariant`: the inductive invariant `ChainInv`. Its parts say that the
  index holds exactly the links looked at so far, with different starts, all
  forward; and that the walk stands on every chain there is: each chain from
  `from` to `to` begins with the links followed. The second part is what makes
  completeness inductive: `RefusedHasNoChain` alone says nothing of a walk that
  is under way. From it follow `ResolvedChains`, `RefusalsAreRight`,
  `BundlesResolve` and `EarliestResolves`, the properties of the run `chain`.
* `MigrationProofs` (any schemas, files and migrations that satisfy
  `ScenariosAssumption`: one string table, versions that are numbers; and no
  field is named `""`). `EngineInvariant`: the rest of the chain ends at the
  schema's version, and the file is untouched until a snapshot of this build
  exists. From it `OpenGivesThisBuild` (`ServedMatches`) and `Upgrades`: the
  engine with write-back and crashes implements `Upgrade!Spec`.
  `WritesReachTheSnapshot` (`WritesArrive`) needs a second invariant that ties
  builders to what `up()` wrote.
  `CarryInvariant` is about what is carried: `CarryInv` says that snapshots have
  bytes for the fields of their layout and no others, that what `runStep`
  derived, sourced and carries follows from the migration and the bytes it
  began with, and that fields nobody mentions are among what is carried. It
  holds under `[]CarefulSteps`: a rename starts at a field that is there.
  Without it the engine looks for bytes under a name that never was and drops
  the ones of the target, so the theorems would be false (`generate_retry`).
  From it `SilentFieldsKeepTheirBytes` (`SilenceCarries`), `LossIsNoticed`
  (`NoSilentLoss`) and `LookupsFollow` (`LookupFollows`): a lookup's verifying
  field is renamed with it.
* `GenerateProofs` (any layouts, any one-to-one answers). `GenerationLands`:
  the migration `generate` writes is derivable from the old layout and derives
  the new one, so `assertDerivedMatchesTarget` cannot refuse it. The step that
  needs care is a lookup whose verified field is renamed: its signature
  changes, so it is defined anew.
  The other three are about a project whose migrations are all generated, of
  any number (`Managed`). `GenInvariant`: the bytes at version *v* are of layout
  *v* of the history, and the rest of the chain is the generated steps from
  there (`GenState`); in particular each step is careful, so that `CarryInv`
  comes without its hypothesis. From it `GeneratedChainsLand`
  (`GeneratedLands`); `ReadyStepsRun` (`ReadyRuns`), since where nothing is
  pending every field with bytes is carried; and `FilledStepsRun`
  (`FilledRuns`), for histories in which no lookup was verified through a field
  that was renamed: where one was it is false (`generate_repointed`).
* `FolderProofs` (any shapes, edits and number of crashes). `FolderInvariant`:
  `OnDisk` says what holds of the files between any two writes. Every version
  in the journal has its files whole, and they say what the journal does
  (`JournalTells`); the bundle lists a prefix of those versions that joins up
  (`BundleFollows`), also after a torn journal was lost; and every snapshot the
  application wrote is of a version the bundle lists (`FilesListed`).
  `Writing` follows a command through its four files: what it has written
  so far is of the version it will enter. That is why the order of the files is
  what makes crashes harmless. `InStep`, the bundle is the journal's, holds
  while no command died. From these `JournalIsBacked` (`JournalBacked`),
  `VersionsArePositions` (`JournalGrows`), `EveryFileFits` (`OldFilesFit`) and
  `StatusIsRight` (`StatusAgreesUncrashed`).

* `IndexProofs`, the table and the fields over it.
  *Table* (any words, any values, up to 2^29 - 1 adds). `TableInvariant`:
  every slot that is taken holds an entry; every entry placed sits in its slot
  with no gap between that and its home; of two entries of one hash the earlier
  is met first; and a probe has passed only slots that are taken and do not
  fit. The clause on gaps is what makes a free slot an answer.
  `LookupFindsFirst` (`FindsFirst`) follows; `AlwaysFreeSlot` (`FreeSlot`) is
  the pigeonhole principle on the capacity.
  *Fields* (any texts and pairs, any permutation for `Mix`, any `XorOf`
  that can be cancelled). `IndexIsClient`: every step of a field is a step of
  the table or leaves it alone, so `IndexFindsFirst`. `PairsDistinct`
  (`PairsStayDistinct`): in each placement the pair can be computed from its
  key. `RowInvariant` ties an entry to what was pushed for it: before the first
  add that threw, row or bucket *n* holds the values of entry *n* and no others
  (`RowsHold`, `BucketsHold`), and whatever was left behind by an add that threw
  is of a later entry (`Pushes`). From it and from what the table finds,
  `VerifiedLookups` (`VerifiedIsRight`) and `RowsAreKept` (`ReadsOwnRow`).
  `LaterInvariant` is about what comes after a throw: the last column has a
  value for each row counted and no more (`LastColumnHolds`), since a throw in it
  pushed nothing to it; and the bucket that is open holds nothing but what
  adds that threw have left (`OpenBucketHolds`), so the next add that returns
  puts its values behind that and ends the bucket (`OwnAfter`). From it
  `NothingIsLost` (`ThrowsLoseNothing`).

* `SnapshotProofs` (any `Half` over 64 that is a multiple of 8, any emissions
  and files). `FormatInv`, the inductive invariant: the offsets in
  the table are those without bound, reduced to the width, and the loop's
  offset is below them by a multiple of it. As long as nothing wrapped they are
  equal; once something did, either the length is negative or a section ends past
  what was allocated, and `Assembled` is out of reach, for emissions that are
  `Moderate`. From it `AssembledIsReadable` (`SectionsApart`). `NothingOldIsServed` (`NoOldMemory`)
  rests on the order of the checks: all that was asked for was read before a
  view is made.
  `ReadInvariant` follows writer and reader: pieces cover what was read
  without a hole, and while no writer is in the file they are of the snapshot
  on disk. From it `OneReadIsOneSnapshot` (`OneReadOneSnapshot`) and
  `QuietReadsAreRight` (`QuietReads`). The first needs that a prefix of a
  snapshot in which every section fits is the whole of it. Sections may come out
  of order, but the last one begins at an offset that was laid without a sign
  (`LastPlaced`), so it ends where the snapshot does; that a snapshot has a
  section at all is assumed of emissions (the string table is always one).
* `SectionProofs`, three components in one module.
  *Sorted index* (any base of the digits, a last digit as wide or narrower, any
  keys, any number of pairs).
  `SortingInvariant`: `order` is a permutation, and after a pass it is sorted by
  the digits so far with ties in the order of adding. A pass puts a place at its
  rank in the order by digit and then by place, and ranks rise; a pass that
  is skipped has one digit for all. A search keeps what is sought between `lo`
  and `hi`. `AlwaysSortedAndStable` and `AlwaysFindsFirst` follow.
  *Columns and buckets* (any fields, strides, rows and runs, arrays of up to
  `MaxValues`). `ColumnsHoldRows`, the invariant `BucketsInv`: rows before the first
  that was broken off are in every column at their stride (`RowsHeld`); until
  there is a broken one a column holds nothing else (`ColumnsWhole`), which is
  what puts the next row in its place and lets a throw in a column of stride 1
  be harmless; buckets end at the number of rows there were (`BucketsEnd`).
  `RowsAlwaysReadBack` (`RowsReadBack`) follows.
  *String table* (any strings, any hashes that agree on what is stored, tables
  of up to 2^29 strings). `TablesAreRight`, the invariant `StringsInv`: every id of
  the base placed so far sits in its own slot with no gap between that and its
  home, and there are more slots than ids, so that probing ends and an answer
  "not there" is right. From it `IdsAlwaysResolve` (`IdsResolve`, that is
  `IdsStay` and `GetsWhatWasAdded`), `OneIdAlways` (`OneIdEach`) and
  `StringsTypeCorrect`.
* `TrigramProofs` (any texts, any hashes and homes, any entities, table sizes,
  ratios and limits, any number of adds). `TrigramInvariant`: the invariant
  `TrigramInv`, in five parts that rest on each other.
  The tables (`BuilderInv`): each is at most half full, and probing from the home
  of what it holds gets there over taken slots only, so that a free slot means
  "not there". Growth keeps this (`RehashedHolds`): the new table is put together
  entry by entry, and an entry put into a free slot breaks no way to another. That
  the recursion has a solution, which is induction over the entries, goes by the
  least number of them for which it would have none (`LeastNumber`).
  The postings (`PostsInv`, `HistoryInv`): what is posted is what was added,
  but for letters still pending; `bucketLast` may only keep out what is there;
  and an entity that comes to a bucket later was added later, which is not the
  order of the postings as such but of each entity's first.
  The lists (`ListsInv`): of a hash, the entities added with it, once each, by
  first add. This is why compaction has to keep the first of a repeated posting.
  The scratch (`ScratchInv`): no mark is of a generation to come, and no bit is
  set between searches; so a search begins as if it were the first
  (`StartsFresh`), the one at which the generation wraps around as well.
  The scores (`QueryInv`, `ScoresInv`): the candidates are who the first two lists
  named, in the order they came, and the score of each is the number of lists it
  was seen in so far. An entity that two lists do not name misses two trigrams,
  so admitting from two lists alone loses nobody.
  From these `SearchesAreExact` (`SearchIsExact`): the best score that was met is
  the best there is, or none qualifies (`MaxScoreIsBest`, `LowestQualifies`), and
  the order of touching is the order of first adds. `TrigramTypesHold`
  (`TrigramTypeOK`) follows as well.

`PartsBehave`, in `SnapshotProofs`: a behaviour of the run `snapshot` is one of
each of its parts, with their fairness, so that the theorems about the parts are
about that run. With `FileTypeCorrect`, `StringsTypeCorrect`, `TrigramTypesHold`,
`SortedTypesHold` and `BucketsTypesHold` it gives `PartsTypesHold`
(`PartsTypeOK`).

Every safety and action property of the passing runs is stated by a theorem, under
the hypotheses named above.
Only model-checked: liveness (`CallsReturn`, `MigrationEnds`, `AdviceHelps`,
`ProbesEnd`, `PartsEnd`), which TLAPS cannot prove under fairness.

## 5. Where code and documentation part

* `chain_gap`. README.md:391-392 says a hand-written array with a gap is caught
  at import. The constructor resolves from the earliest version only: with
  0→3 and 1→2 at version 3 it is accepted, and a snapshot at version 1 fails
  when it is opened.
* `generate_repointed`. README.md:237 and 359: replace the `todo()` with real
  code and the application starts. If the field a hashLookup verifies through
  is renamed, generate asks for the lookup, the engine carries it, and real
  code there throws `CarryConflictError`.
* `generate_retry`. README.md:397-398: a field that had bytes and has none
  throws. A second `generate --rename a=c` writes another migration with
  `renames: { a: "c" }` and nothing pending; it empties `c` and nothing throws.
* `folder_status`. README.md:323: `status` reports the states the application
  is refused for. If the CLI died between `_journal.json` and `index.ts`,
  `status` and `generate` find everything up to date and the application is
  refused; the way out is to remove the last entry by hand.
* `index_exact`. `pairIndex.ts:33-34`: a hit on both halves of a pair's key is
  still an exact match. The table stores the key `(0, 0)` as `(1, 0)`, which is
  the key of another pair: after `(0xffffffff, 0)` was added, a lookup of
  `(0xffffffff, 224523276)` finds its row.
* `snapshot_limit`. README.md:472 and `format.ts:86`: a snapshot is capped at
  4 GiB. `alignUp` works on signed 32-bit numbers, so an offset of 2 GiB or
  more comes out negative; a snapshot whose last section starts there ends in a
  `RangeError`.

Three more are known and have no run.

* README.md:399: writing to a carried field throws. A write that leaves what
  an untouched builder emits (`singleStringRef.set("")` over a carried value)
  is dropped in silence (`migrate.ts:402`).
* A string with a lone surrogate that a migration adds again gets a new id
  each time, since what is stored is not it; `OneIdEach` says so of `Plain`
  strings only.
* After a `pushStride` that threw, a row of the column is there in part and
  the rows and buckets behind it are off by that (`growable.ts:134-137`);
  `RowsReadBack` ends at the first such row.

## 6. Not modelled

* The text of generated files, of manifests and of what the CLI prints:
  wording and layout.
* UTF-8 byte by byte, JSON, the registry's parser of signatures: functions of
  data without state. What the models rely on of them is stated as assumptions
  (`NormalAssumption`, `ByteHashAssumption`).
* The flat fields but `numArray`, which hold one value or a column of ids; and
  `config.ts`, which reads one object of settings.
* Hash functions are parameters. Typed arrays hold whole numbers: fractions
  and NaN, which pass the range check, are left out. `U32Buffer` wraps without
  an error where a `NumberBuffer` throws; `AddPair` models that.
* Memory. An engine refuses an allocation long before 4 GiB, or never; no
  property depends on it.
* Of the modelled components: two processes on one folder, several schemas in
  one project, two writers of one file, and an `up()` that is still awaited when
  the next file is opened.
* A file that comes in several reads while it is rewritten may be a mix of two
  snapshots that passes every check, since nothing in the format ties the
  sections to the header. `OneReadOneSnapshot` is about files that come in one
  read, `QuietReads` about reads that no writer meets.

## 7. Plan

What is left to do:

1. `Folder` with several targets, one after the other, and with two commands
   at once.
2. `Migration` over `Strings`: builders that add strings while fields carry the
   ids of the old table.

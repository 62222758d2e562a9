------------------------------ MODULE Generate ------------------------------
(***************************************************************************)
(* What `bursztyn generate` writes into a migration: diffManifest of       *)
(* format.ts, renameCandidates, describeChange, planGeneration and         *)
(* renderMigrationFile of generate.ts, and the answers cli/generate.ts     *)
(* collects.  The migration is then run by Migration.tla, whatever the     *)
(* developer makes of its up().                                            *)
(*                                                                         *)
(* A layout is a function from names, so the order of fields is left out:  *)
(* fields that only moved make a migration without clauses.  The folder    *)
(* the migration is written to is Folder.tla's.                            *)
(***************************************************************************)
EXTENDS Migration

(* diffManifest.                                                           *)
Added(before, after) == DOMAIN after \ DOMAIN before
Removed(before, after) == DOMAIN before \ DOMAIN after
Changed(before, after) ==
    {n \in DOMAIN before \cap DOMAIN after : before[n] # after[n]}

(* A field that is gone and a field of the same type that is new.          *)
Candidates(before, after) ==
    {c \in Removed(before, after) \X Added(before, after) : before[c[1]] = after[c[2]]}

(* What the questions can end with: every candidate is asked about, in     *)
(* turn, and a second yes for a field replaces the first.                  *)
Answers(before, after) ==
    {r \in UNION {[D -> Added(before, after)] : D \in SUBSET Removed(before, after)} :
        \A n \in DOMAIN r : <<n, r[n]>> \in Candidates(before, after)}

(* --rename old=new: taken as given, and its field is not asked about.     *)
WithGiven(given, answers) ==
    [n \in DOMAIN given \cup DOMAIN answers |->
        IF n \in DOMAIN given THEN given[n] ELSE answers[n]]

OneToOne(r) == \A n, k \in DOMAIN r : r[n] = r[k] => n = k

----------------------------------------------------------------------------
(* describeChange.                                                         *)
Arriving(r) == {r[n] : n \in DOMAIN r}

\* mutant: a renamed field is defined as well
ToDefineRenamed(before, after, r) == Added(before, after) \cup Changed(before, after)

ToDefine(before, after, r) ==
    (Added(before, after) \ Arriving(r)) \cup Changed(before, after)

ToDrop(before, after, r) == Removed(before, after) \ DOMAIN r

(* Nothing to write, but for fields that only moved.                       *)
IsEmptyChange(before, after, r) ==
    ToDefine(before, after, r) \cup ToDrop(before, after, r) \cup DOMAIN r = {}

\* mutants: nothing is pending, fields are defined by their names only
GeneratedReady(v, before, after, r) ==
    [from |-> v, to |-> v + 1, defines |-> [n \in ToDefine(before, after, r) |-> after[n]],
     listed |-> {}, renames |-> r, drops |-> ToDrop(before, after, r), rebuilds |-> {},
     up |-> FALSE]
GeneratedByName(v, before, after, r) ==
    [from |-> v, to |-> v + 1, defines |-> Nothing, listed |-> ToDefine(before, after, r),
     renames |-> r, drops |-> ToDrop(before, after, r), rebuilds |-> {},
     up |-> ToDefine(before, after, r) # {}]

(* The file: the fields to define are also its pending ones, and up() is   *)
(* there to fill them in.                                                  *)
Generated(v, before, after, r) ==
    [from |-> v, to |-> v + 1,
     defines |-> [n \in ToDefine(before, after, r) |-> after[n]],
     listed |-> {},
     renames |-> r,
     drops |-> ToDrop(before, after, r),
     rebuilds |-> {},
     up |-> ToDefine(before, after, r) # {}]

(* A field that verifies its keys through another field of its layout.     *)
WellFormed(layout) ==
    \A n \in DOMAIN layout : layout[n].via # "" => layout[n].via \in DOMAIN layout

(* A hashLookup that is verified through a field that is renamed: generate *)
(* defines it, and the engine carries it.                                  *)
Repointed(before, after, r) ==
    \E n \in DOMAIN before \cap DOMAIN after :
        /\ before[n] # after[n]
        /\ Remap(Generated(0, before, after, r), before[n]) = after[n]

----------------------------------------------------------------------------
(* A chain of generated migrations always fits: whatever the schema became *)
(* in between, every step lands where the next one starts and the last on  *)
(* the schema.  What a step defines is written out in its file, so a later *)
(* change of the same field does not change it.                            *)
GeneratedLands == reason \notin {"path", "unlisted", "twice", "misfit"}

(* README.md: renames and removals need no editing at all.  A migration    *)
(* with nothing pending goes through as it was generated.                  *)
ReadyRuns == phase = "check" /\ ~Migration.up => ~Conflict /\ ~Loss

(* README.md: replace the todo() with real code, and up() fills anything   *)
(* `defines` introduced.  An up() that gives every pending field its data, *)
(* and touches no other, goes through.                                     *)
FilledRuns ==
    phase = "check"
        /\ DOMAIN aux_wrote = DOMAIN Migration.defines
        /\ (\A n \in DOMAIN aux_wrote : aux_wrote[n] # Empty)
    => ~Conflict /\ ~Loss
=============================================================================

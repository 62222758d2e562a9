---------------------------- MODULE MCMigration ----------------------------
(* The schemas and files the runs on Migration.tla meet.                   *)
EXTENDS Migration, TLC, SequencesExt

table == [kind |-> "table", via |-> ""]
flat == [kind |-> "flat", via |-> ""]
boxed == [kind |-> "boxed", via |-> ""]
lookup(n) == [kind |-> "lookup", via |-> n]

none == [n \in {} |-> flat]
kept == [n \in {} |-> "a"]

(* A migration that says nothing, from v to w.                             *)
Silent(v, w) ==
    [from |-> v, to |-> w, defines |-> none, listed |-> {}, renames |-> kept,
     drops |-> {}, rebuilds |-> {}, up |-> FALSE]

Snapshot(v, layout, order, data) ==
    [version |-> v, hash |-> Hash(layout, order), data |-> data]

Schema(v, layout, migs) ==
    [version |-> v, hash |-> Hash(layout, "declared"), migrations |-> migs]

----------------------------------------------------------------------------
(* One step, every mix of clauses over two fields: "a" with bytes, "b"     *)
(* with bytes or without, "c" for what is new.                             *)

OneBefore == "t" :> table @@ "a" :> flat @@ "b" :> boxed

OneFiles ==
    {Snapshot(0, OneBefore, "declared", "a" :> "A" @@ "b" :> b) : b \in {"B", Empty}}

OneRenames ==
    {kept, "a" :> "c", "b" :> "a", "a" :> "b", "a" :> "b" @@ "b" :> "a", "a" :> "c" @@ "b" :> "a",
     "a" :> "c" @@ "b" :> "c", "c" :> "a"}

OneDefines ==
    {none, "a" :> flat, "a" :> boxed, "c" :> flat, "c" :> boxed,
     "a" :> boxed @@ "c" :> flat}

OneMigrations ==
    {[Silent(0, 1) EXCEPT !.defines = d, !.renames = r, !.drops = x, !.rebuilds = y, !.up = TRUE] :
        d \in OneDefines, r \in OneRenames, x \in {{}, {"a"}, {"b"}}, y \in {{}, {"a"}, {"c"}}}

(* The build's layout is the one the migration leads to.                   *)
OneScenarios(M) ==
    {[schema |-> Schema(1, Derived(m, OneBefore), <<m>>), file |-> f] :
        m \in {n \in M : Derivable(n, OneBefore)}, f \in OneFiles}

OneCareful == OneScenarios({m \in OneMigrations : Careful(m, OneBefore)})

----------------------------------------------------------------------------
(* Chains of two steps over a table, a field, a hashLookup that verifies   *)
(* through it and a boxed field.                                           *)

TwoBefore == "t" :> table @@ "a" :> flat @@ "b" :> boxed @@ "l" :> lookup("a")

TwoData == "a" :> "A" @@ "b" :> "B" @@ "l" :> "L"

TwoFile(v) == Snapshot(v, TwoBefore, "declared", TwoData)

Steps(v) ==
    LET m == Silent(v, v + 1)
    IN  {m,
         [m EXCEPT !.renames = "a" :> "c"],
         [m EXCEPT !.renames = "c" :> "a"],
         [m EXCEPT !.renames = "a" :> "c", !.rebuilds = {"l"}, !.up = TRUE],
         [m EXCEPT !.renames = "a" :> "b", !.drops = {"b"}],
         [m EXCEPT !.drops = {"b"}],
         [m EXCEPT !.drops = {"t"}],
         [m EXCEPT !.defines = "t" :> table],
         [m EXCEPT !.defines = "a" :> table, !.drops = {"t"}],
         [m EXCEPT !.renames = "a" :> "b"],
         [m EXCEPT !.defines = "c" :> flat, !.up = TRUE],
         [m EXCEPT !.defines = "l" :> lookup("b"), !.up = TRUE]}

(* Where two steps lead; TwoBefore where a step cannot be derived.         *)
After(m, layout) == IF Derivable(m, layout) THEN Derived(m, layout) ELSE TwoBefore

CarefulPair(m, k) == Careful(m, TwoBefore) /\ Careful(k, After(m, TwoBefore))

TwoSteps ==
    {[schema |-> Schema(2, After(p[2], After(p[1], TwoBefore)), p), file |-> TwoFile(0)] :
        p \in {q \in Steps(0) \X Steps(1) :
                 /\ CarefulPair(q[1], q[2])
                 /\ OneTable(After(q[2], After(q[1], TwoBefore)))}}

(* The odd ones: the array in the other order; a snapshot from the middle  *)
(* of the chain, from a newer build, of this version in another order, of  *)
(* this build; a chain that lands beside the schema; a clause that names a *)
(* field the schema does not have, or has.                                 *)
rename == [Silent(0, 1) EXCEPT !.renames = "a" :> "c"]
Adds(names) == [Silent(1, 2) EXCEPT !.listed = names, !.up = TRUE]
renamed == Derived(rename, TwoBefore)
grown == "d" :> flat @@ renamed

OddSchemas ==
    {Schema(2, renamed, <<Silent(1, 2), rename>>),
     Schema(2, TwoBefore, <<rename, Silent(1, 2)>>),
     Schema(2, grown, <<rename, Adds({"d"})>>),
     Schema(2, renamed, <<rename, Adds({"d"})>>),
     Schema(2, renamed, <<>>)}

OddFiles ==
    {TwoFile(v) : v \in {0, 3}}
    \cup {Snapshot(1, renamed, "derived", "c" :> "A" @@ "b" :> "B" @@ "l" :> "L")}
    \cup {Snapshot(2, renamed, o, "c" :> "A" @@ "b" :> "B" @@ "l" :> "L") : o \in {"declared", "other"}}

TwoScenarios == TwoSteps \cup {[schema |-> s, file |-> f] : s \in OddSchemas, f \in OddFiles}

----------------------------------------------------------------------------
MigrationScenarios == OneCareful \cup TwoScenarios
=============================================================================

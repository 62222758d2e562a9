---------------------------- MODULE MCGenerate ----------------------------
(* The schemas the runs on Generate.tla go through.                        *)
EXTENDS Generate, TLC

table == [kind |-> "table", via |-> ""]
flat == [kind |-> "flat", via |-> ""]
boxed == [kind |-> "boxed", via |-> ""]
lookup(n) == [kind |-> "lookup", via |-> n]

Snapshot(v, layout, data) ==
    [version |-> v, hash |-> Hash(layout, "declared"), data |-> data]

Schema(v, layout, migs) ==
    [version |-> v, hash |-> Hash(layout, "declared"), migrations |-> migs]

(* Layouts over a table, plain fields from the pool and a hashLookup.      *)
LayoutsOf(pool, lookups) ==
    LET plain == UNION {{f \in [D -> {flat, boxed}] :
                            \A n \in D : f[n] \in pool[n]} : D \in SUBSET DOMAIN pool}
        base == {"t" :> table @@ f : f \in plain}
    IN  {l \in base \cup {"l" :> lookup(n) @@ f : n \in lookups, f \in base} : WellFormed(l)}

----------------------------------------------------------------------------
(* One generated step: a file of the layout before, the schema of the one  *)
(* after.  Every field holds the same bytes.                               *)

OnePool == "a" :> {flat, boxed} @@ "b" :> {flat} @@ "c" :> {flat}

OneLayouts == LayoutsOf(OnePool, {"a", "b"})

Step(before, after, r) ==
    [schema |-> Schema(1, after, <<Generated(0, before, after, r)>>),
     file |-> Snapshot(0, before, [n \in Plain(before) |-> "D"])]

Changes ==
    UNION {{<<x, y, r>> : r \in {s \in Answers(x, y) : OneToOne(s)}} :
              x \in OneLayouts, y \in OneLayouts}

OneScenarios ==
    {Step(c[1], c[2], c[3]) : c \in {d \in Changes : ~Repointed(d[1], d[2], d[3])}}

RepointedScenarios ==
    {Step(c[1], c[2], c[3]) : c \in {d \in Changes : Repointed(d[1], d[2], d[3])}}

----------------------------------------------------------------------------
(* Two generated steps, and a file from before the first.                  *)

TwoPool == "a" :> {flat, boxed} @@ "b" :> {flat}

TwoLayouts == LayoutsOf(TwoPool, {"a"})

OneToOnes(x, y) == {r \in Answers(x, y) : OneToOne(r) /\ ~Repointed(x, y, r)}

(* The migration of a step that changes nothing is not written: there are  *)
(* two versions only where there are two changes.                          *)
Histories ==
    {h \in TwoLayouts \X TwoLayouts \X TwoLayouts : h[1] # h[2] /\ h[2] # h[3]}

TwoScenarios ==
    UNION {{[schema |-> Schema(2, h[3], <<Generated(0, h[1], h[2], r), Generated(1, h[2], h[3], s)>>),
             file |-> Snapshot(0, h[1], [n \in Plain(h[1]) |-> n])] :
                r \in OneToOnes(h[1], h[2]), s \in OneToOnes(h[2], h[3])} : h \in Histories}

GeneratedScenarios == OneScenarios \cup TwoScenarios

----------------------------------------------------------------------------
(* `generate --rename a=c` run a second time: nothing changed since, and   *)
(* the change is not empty.                                                *)

again == "a" :> "c"
first == "t" :> table @@ "a" :> flat @@ "b" :> boxed
second == "t" :> table @@ "c" :> flat @@ "b" :> boxed

RetriedScenarios ==
    LET r == WithGiven(again, CHOOSE answers \in Answers(second, second) : TRUE)
    IN  {[schema |-> Schema(2, second, <<Generated(0, first, second, again)>>
                        \o (IF IsEmptyChange(second, second, r) THEN <<>>
                             ELSE <<Generated(1, second, second, r)>>)),
          file |-> Snapshot(1, second, "c" :> "A" @@ "b" :> "B")]}
=============================================================================

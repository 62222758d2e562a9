----------------------------- MODULE ChainPath -----------------------------
(***************************************************************************)
(* What a chain of migrations is, without saying how one is found: the     *)
(* contract between resolveChain (Chain.tla finds chains and is checked    *)
(* against it) and migrateSnapshot (Migration.tla runs them).  A migration *)
(* is any record with the fields `from` and `to`.                          *)
(***************************************************************************)
EXTENDS Naturals, Sequences

(* p leads from v to u, and no migration of it starts at w or later.       *)
Leads(p, v, u, w) ==
    /\ p = <<>> => u = v
    /\ p # <<>> => p[1].from = v /\ p[Len(p)].to = u
    /\ \A i \in 1 .. Len(p) - 1 : p[i].to = p[i + 1].from
    /\ \A i \in 1 .. Len(p) : p[i].from < w

IsChain(p, v, w) == Leads(p, v, w, w)

(* The elements of an array of migrations.                                 *)
Declared(array) == {array[i] : i \in DOMAIN array}

(* The chains from v to w an array holds: as the migrations of one all     *)
(* start at different versions, none is longer than the array.             *)
ChainsIn(array, v, w) ==
    {p \in UNION {[1 .. n -> Declared(array)] : n \in 0 .. Len(array)} : IsChain(p, v, w)}

MovesForward(m) == m.from < m.to

(* What resolveChain insists on before it looks for a chain.               *)
Indexable(array) ==
    /\ \A i \in DOMAIN array : MovesForward(array[i])
    /\ \A i, j \in DOMAIN array : array[i].from = array[j].from => i = j
=============================================================================

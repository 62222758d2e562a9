------------------------------- MODULE Chain -------------------------------
(***************************************************************************)
(* How a schema accepts the migrations declared for it, and how the chain  *)
(* from a snapshot's version to the schema's version is found:             *)
(* resolveChain of migrate.ts and the part of the Schema constructor of    *)
(* schema.ts that calls it.                                                *)
(*                                                                         *)
(* A migration is reduced to its link, [from |-> v, to |-> w]: the rest of *)
(* it plays no part here (Migration.tla runs it).  resolveChain has three  *)
(* callers.  The constructor calls it once, from the earliest declared     *)
(* version, and rejects the declaration if it throws.  A schema that was   *)
(* accepted calls it for each snapshot it has to migrate, from the version *)
(* in that snapshot's header, which may be any number.  And index.ts       *)
(* exports it, so a program may ask it for any two versions.               *)
(*                                                                         *)
(* `managed` says that the migrations come from a bundle: defineMigrations *)
(* of bundle.ts numbers its entries itself, entry i going from i-1 to i,   *)
(* and the schema takes its version from their number.                     *)
(***************************************************************************)
EXTENDS ChainPath

CONSTANTS
    MaxVersion,     \* versions, declared or in a header, are 0 .. MaxVersion
    Arrays          \* the hand-written arrays of migrations considered

Versions == 0 .. MaxVersion

Link == [from : Versions, to : Versions]

ASSUME MaxVersionAssumption == MaxVersion \in Nat
ASSUME ArraysAssumption == Arrays \subseteq Seq(Link)

VARIABLES
    managed,        \* the migrations come from a bundle
    migrations,     \* the declared migrations, in the order of the array
    version,        \* the version the schema declares
    schema,         \* what became of the declaration
    phase,          \* where control is in resolveChain, "idle" outside it
    caller,         \* who called it
    from,           \* its arguments: the version to start from ...
    to,             \* ... and the version to reach
    position,       \* the next migration the indexing loop looks at
    byFrom,         \* the index the loop builds: start version -> migration
    cursor,         \* how far the walk has come
    chain,          \* the migrations it has followed
    outcome         \* how the call ended

declaration == <<managed, migrations, version>>
call == <<schema, caller, from, to>>
vars == <<managed, migrations, version, schema, phase, caller, from, to,
          position, byFrom, cursor, chain, outcome>>

Phases == {"idle", "enter", "index", "walk", "answered"}

Refusals == {"newer", "backward", "duplicate", "gap", "overshoot"}

Outcomes == {"none", "resolved"} \cup Refusals

Links == Declared(migrations)

\* mutant: positions counted from one
BundleFromOne(n) == [i \in 1 .. n |-> [from |-> i, to |-> i + 1]]

(* bundle.ts numbers the entries by their place in the array.              *)
BundleMigrations(n) == [i \in 1 .. n |-> [from |-> i - 1, to |-> i]]

Init ==
    /\ \/ /\ managed = TRUE
          /\ version \in Versions
          /\ migrations = BundleMigrations(version)
       \/ /\ managed = FALSE
          /\ version \in Versions
          /\ migrations \in Arrays
    /\ schema = "building"
    /\ phase = "idle"
    /\ caller = "constructor"
    /\ from = 0
    /\ to = 0
    /\ position = 1
    /\ byFrom = [v \in {} |-> [from |-> 0, to |-> 0]]
    /\ cursor = 0
    /\ chain = <<>>
    /\ outcome = "none"

----------------------------------------------------------------------------
(* The constructor.                                                        *)

Decide(verdict) ==
    /\ schema' = verdict
    /\ UNCHANGED <<declaration, phase, caller, from, to,
                   position, byFrom, cursor, chain, outcome>>

Constructing == schema = "building" /\ phase = "idle"

AcceptWithoutMigrations == Constructing /\ migrations = <<>> /\ Decide("accepted")

(* The highest version any migration lands on is the schema's version.     *)
LatestIsVersion ==
    /\ \E m \in Links : m.to = version
    /\ \A m \in Links : m.to <= version

RejectLatest ==
    Constructing /\ migrations # <<>> /\ ~LatestIsVersion /\ Decide("rejected")

Call(who, v, w) ==
    /\ phase = "idle"
    /\ phase' = "enter"
    /\ caller' = who
    /\ from' = v
    /\ to' = w
    /\ UNCHANGED <<declaration, schema, position, byFrom, cursor, chain, outcome>>

Earliest(v) ==
    /\ \E m \in Links : m.from = v
    /\ \A m \in Links : v <= m.from

\* mutant: the first migration of the array instead of the earliest
CheckFromFirst ==
    /\ Constructing
    /\ LatestIsVersion
    /\ Call("constructor", migrations[1].from, version)

CheckFromEarliest ==
    /\ Constructing
    /\ LatestIsVersion
    /\ \E v \in Versions : Earliest(v) /\ Call("constructor", v, version)

(* A snapshot whose header says v has to be migrated.                      *)
Migrate(v) == schema = "accepted" /\ Call("migrate", v, version)

(* A program calls the exported function itself.                           *)
Ask(v, w) == schema # "building" /\ Call("program", v, w)

----------------------------------------------------------------------------
(* resolveChain(migrations, from, to).                                     *)

Answer(result) ==
    /\ phase' = "answered"
    /\ outcome' = result
    /\ UNCHANGED <<declaration, call, position, byFrom, cursor, chain>>

AnswerEmpty == phase = "enter" /\ from = to /\ Answer("resolved")

RefuseNewer == phase = "enter" /\ from > to /\ Answer("newer")

\* mutants: the loop starts one early, or one late
StartIndexAt(i) ==
    /\ phase = "enter"
    /\ from < to
    /\ phase' = "index"
    /\ position' = i
    /\ UNCHANGED <<declaration, call, byFrom, cursor, chain, outcome>>
StartIndexEarly == StartIndexAt(0)
StartIndexLate == StartIndexAt(2)

StartIndex ==
    /\ phase = "enter"
    /\ from < to
    /\ phase' = "index"
    /\ position' = 1
    /\ UNCHANGED <<declaration, call, byFrom, cursor, chain, outcome>>

Indexing == phase = "index" /\ position <= Len(migrations)

RefuseBackward ==
    /\ Indexing
    /\ ~MovesForward(migrations[position])
    /\ Answer("backward")

RefuseDuplicate ==
    /\ Indexing
    /\ MovesForward(migrations[position])
    /\ migrations[position].from \in DOMAIN byFrom
    /\ Answer("duplicate")

IndexMigration ==
    /\ Indexing
    /\ MovesForward(migrations[position])
    /\ migrations[position].from \notin DOMAIN byFrom
    /\ byFrom' = [v \in DOMAIN byFrom \cup {migrations[position].from} |->
                     IF v = migrations[position].from THEN migrations[position]
                                                      ELSE byFrom[v]]
    /\ position' = position + 1
    /\ UNCHANGED <<declaration, call, phase, cursor, chain, outcome>>

StartWalk ==
    /\ phase = "index"
    /\ position > Len(migrations)
    /\ phase' = "walk"
    /\ cursor' = from
    /\ UNCHANGED <<declaration, call, position, byFrom, chain, outcome>>

\* mutant: the loop ends one version early
WalkingShort == phase = "walk" /\ cursor + 1 < to

Walking == phase = "walk" /\ cursor < to

RefuseGap == Walking /\ cursor \notin DOMAIN byFrom /\ Answer("gap")

FollowMigration ==
    /\ Walking
    /\ cursor \in DOMAIN byFrom
    /\ chain' = Append(chain, byFrom[cursor])
    /\ cursor' = byFrom[cursor].to
    /\ UNCHANGED <<declaration, call, phase, position, byFrom, outcome>>

RefuseOvershoot == phase = "walk" /\ cursor > to /\ Answer("overshoot")

\* mutant: where the walk ended is not compared with the version asked for
AnswerAnyEnd == phase = "walk" /\ cursor >= to /\ Answer("resolved")

AnswerChain == phase = "walk" /\ cursor = to /\ Answer("resolved")

----------------------------------------------------------------------------
(* Back in the caller.  The constructor lets an error through, and there is *)
(* no schema; migrateSnapshot runs the chain or lets the error through, and *)
(* the schema is there for the next snapshot either way.                   *)
Return ==
    /\ phase = "answered"
    /\ phase' = "idle"
    /\ schema' = IF caller # "constructor" THEN schema
                 ELSE IF outcome = "resolved" THEN "accepted" ELSE "rejected"
    /\ position' = 1
    /\ byFrom' = [v \in {} |-> [from |-> 0, to |-> 0]]
    /\ cursor' = 0
    /\ chain' = <<>>
    /\ outcome' = "none"
    /\ UNCHANGED <<declaration, caller, from, to>>

Construct == AcceptWithoutMigrations \/ RejectLatest \/ CheckFromEarliest

ResolveStep ==
    \/ AnswerEmpty \/ RefuseNewer \/ StartIndex
    \/ RefuseBackward \/ RefuseDuplicate \/ IndexMigration \/ StartWalk
    \/ RefuseGap \/ FollowMigration \/ RefuseOvershoot \/ AnswerChain

Next ==
    \/ Construct
    \/ \E v \in Versions : Migrate(v)
    \/ \E v, w \in Versions : Ask(v, w)
    \/ ResolveStep
    \/ Return

Spec == Init /\ [][Next]_vars

(* resolveChain is a synchronous call: once entered, nothing else runs on  *)
(* the thread until it returns or throws.                                  *)
FairSpec == Spec /\ WF_vars(ResolveStep \/ Return)

----------------------------------------------------------------------------
TypeOK ==
    /\ managed \in BOOLEAN
    /\ migrations \in Seq(Link)
    /\ version \in Versions
    /\ phase \in Phases
    /\ schema \in {"building", "accepted", "rejected"}
    /\ caller \in {"constructor", "migrate", "program"}
    /\ from \in Versions
    /\ to \in Versions
    /\ position \in 1 .. Len(migrations) + 1
    /\ DOMAIN byFrom \subseteq Versions
    /\ byFrom \in [DOMAIN byFrom -> Link]
    /\ cursor \in Versions
    /\ chain \in Seq(Link)
    /\ outcome \in Outcomes

----------------------------------------------------------------------------
(* A resolved chain is made of declared migrations, starts and ends at the *)
(* versions asked for and has every migration start where the one before   *)
(* it landed, whatever the order of the array: migrateSnapshot runs it     *)
(* without looking again.  Every declared migration was looked at, those   *)
(* the chain does not need too.                                            *)
ResolvedIsChain ==
    outcome = "resolved" =>
        /\ \A i \in 1 .. Len(chain) : chain[i] \in Links
        /\ IsChain(chain, from, to)
        /\ from # to => Indexable(migrations)

(* resolveChain refuses with "no migration starts at" or "overshoots" only *)
(* where the declared migrations hold no chain at all: following the index *)
(* greedily never misses one.  And it refuses an array as such only if two *)
(* of its migrations start at one version or one does not move forward.    *)
RefusedHasNoChain ==
    /\ outcome \in {"newer", "gap", "overshoot"} => ChainsIn(migrations, from, to) = {}
    /\ outcome \in {"backward", "duplicate"} => ~Indexable(migrations)

(* The migrations of a bundle are never refused, by the constructor or for *)
(* a snapshot, unless the snapshot is newer than the build: numbering the  *)
(* entries by position leaves no gap, no duplicate and no overshoot.       *)
ManagedAlwaysResolves ==
    managed =>
        /\ schema # "rejected"
        /\ caller # "program" => outcome \in {"none", "resolved", "newer"}

(* What the constructor checked is what a snapshot at the earliest version *)
(* meets: once the schema exists it is never refused a chain.              *)
EarliestAlwaysResolves ==
    caller = "migrate" /\ Earliest(from) => outcome \notin Refusals \ {"newer"}

(* Every call of resolveChain returns or throws: a migration that does not *)
(* move forward would make the walk go round for ever.                     *)
CallsReturn == phase # "idle" ~> phase = "idle"

(* README.md: "with a hand-written array it also catches a chain that      *)
(* stops short of the declared version, or has a gap".  Read as: in a      *)
(* schema that was accepted, a snapshot at a version some migration starts *)
(* from never meets a gap.                                                 *)
AcceptedHasNoGap ==
    caller = "migrate" /\ (\E m \in Links : m.from = from) => outcome # "gap"
=============================================================================

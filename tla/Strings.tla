------------------------------ MODULE Strings ------------------------------
(***************************************************************************)
(* The string table of a snapshot, over the generations of that snapshot:  *)
(* StringInterner and StringReader of strings.ts.                          *)
(*                                                                         *)
(* Every string a snapshot holds is a number in some other field.  The     *)
(* interner hands the numbers out; a migration hydrates the next interner  *)
(* from the table of the last snapshot and carries fields as they are, so  *)
(* a number handed out once is resolved in every later generation.  The    *)
(* base table is never decoded: add looks for a string in it through an    *)
(* index over the encoded bytes, built at the first add.                   *)
(*                                                                         *)
(* Abstractions.  A string is a value; encoded and decoded it comes back   *)
(* as Normal[s], which differs when s has a lone surrogate.  The offsets   *)
(* and the bytes of a table are the sequence of its decoded strings, and   *)
(* how the buffer grows while they are encoded is left out.  equals is a   *)
(* comparison with the decoded string.                                     *)
(***************************************************************************)
EXTENDS Naturals, Sequences, FiniteSets, Probing

CONSTANTS
    Strings,        \* but for the empty one
    Empty,          \* ""
    Normal,         \* what a string is after it was encoded and decoded
    ByteHash,       \* hashUtf8OfString
    MemoizeAfter,   \* BASE_READS_BEFORE_CACHING
    MaxSize,        \* bound: how long a table gets
    MaxGeneration,  \* bound: how many snapshots follow each other
    MaxReads        \* bound: how often a generation reads its base

ASSUME EmptyAssumption == Empty \notin Strings
ASSUME NormalAssumption ==
    /\ Normal \in [Strings \cup {Empty} -> Strings \cup {Empty}]
    /\ Normal[Empty] = Empty
    /\ \A s \in Strings : Normal[s] \in Strings /\ Normal[Normal[s]] = Normal[s]
\* hashUtf8OfString hashes a lone surrogate as what is stored for it.
ASSUME ByteHashAssumption ==
    ByteHash \in [Strings -> Nat] /\ \A s \in Strings : ByteHash[s] = ByteHash[Normal[s]]
ASSUME MemoizeAssumption == MemoizeAfter \in Nat \ {0}

\* The powers of two from 8 to 2^30.
Capacities ==
    {8, 16, 32, 64, 128, 256, 512, 1024, 2048, 4096, 8192, 16384, 32768, 65536,
     131072, 262144, 524288, 1048576, 2097152, 4194304, 8388608, 16777216,
     33554432, 67108864, 134217728, 268435456, 536870912, 1073741824}

\* bound: an index has at most as many slots.
MaxSlots == 1073741824

ASSUME MaxSizeAssumption == MaxSize \in Nat \ {0} /\ 2 * MaxSize <= MaxSlots

VARIABLES
    base,       \* the table hydrated from, id 0 first; <<>> for none
    list,       \* StringInterner.list
    own,        \* StringInterner.own: string -> id
    index,      \* StringReader.index: slot -> id + 1, 0 for free; <<>> for none
    indexing,   \* the id that buildIndex places; 0 when it does not run
    adding,     \* the string that add looks for in the base; Empty for none
    reads,      \* baseReads
    cache,      \* what StringReader.cache holds: id -> string
    generation,
    fresh,      \* history: [string, id], handed out in this generation
    kept,       \* history: those of the generations before
    got         \* history: [string, id], what get returned, if that was last

interner == <<base, list, own, index, indexing, adding, reads, cache>>
stringsHistory == <<generation, fresh, kept, got>>
stringsVars == <<interner, stringsHistory>>

BaseCount == Len(base)
Size == BaseCount + Len(list)

\* What an id stands for.
Resolve(id) == IF id < BaseCount THEN base[id + 1] ELSE list[id - BaseCount + 1]

Ref(s, id) == [string |-> s, id |-> id]
NotRead == Ref(Empty, 0)

\* new StringInterner(reader): a table of the empty string alone is no base.
Hydrate(t) ==
    /\ base' = IF Len(t) > 1 THEN t ELSE <<>>
    /\ list' = IF Len(t) > 1 THEN <<>> ELSE <<Empty>>
    /\ own' = <<>>
    /\ index' = <<>>
    /\ indexing' = 0
    /\ adding' = Empty
    /\ reads' = 0
    /\ cache' = <<>>
    /\ got' = NotRead

StringsInit ==
    /\ base = <<>>
    /\ list = <<Empty>>
    /\ own = <<>>
    /\ index = <<>>
    /\ indexing = 0
    /\ adding = Empty
    /\ reads = 0
    /\ cache = <<>>
    /\ generation = 0
    /\ fresh = {}
    /\ kept = {}
    /\ got = NotRead

----------------------------------------------------------------------------
(* add                                                                     *)

Resting == adding = Empty

HandOut(s, id) ==
    /\ fresh' = fresh \cup {Ref(s, id)}
    /\ got' = NotRead
    /\ UNCHANGED <<generation, kept>>

AddEmpty ==
    /\ Resting
    /\ HandOut(Empty, 0)
    /\ UNCHANGED interner

AddAgain(s) ==
    /\ Resting
    /\ s \in DOMAIN own
    /\ HandOut(s, own[s])
    /\ UNCHANGED interner

OwnWith(s, id) == [t \in DOMAIN own \cup {s} |-> IF t = s THEN id ELSE own[t]]

\* mutant: the ids of the base are forgotten.
NextIdOfList == Len(list)

NextId == BaseCount + Len(list)

Append1(s) ==
    /\ Size < MaxSize
    /\ list' = Append(list, s)
    /\ own' = OwnWith(s, NextId)
    /\ HandOut(s, NextId)

AddWithoutBase(s) ==
    /\ Resting
    /\ s \notin DOMAIN own
    /\ base = <<>>
    /\ Append1(s)
    /\ UNCHANGED <<base, index, indexing, adding, reads, cache>>

\* At least 8 slots, and two for each id.
Capacity(n) == CHOOSE c \in Capacities : c >= 2 * n /\ (c = 8 \/ c < 4 * n)

\* idOf, up to its loop; the first one allocates the index.
LookInBase(s) ==
    /\ Resting
    /\ s \notin DOMAIN own
    /\ base # <<>>
    /\ Size < MaxSize \/ \E i \in DOMAIN base : base[i] = s
    /\ adding' = s
    /\ got' = NotRead
    /\ IF index = <<>>
       THEN /\ index' = [slot \in 0 .. Capacity(BaseCount) - 1 |-> 0]
            /\ indexing' = 1
       ELSE UNCHANGED <<index, indexing>>
    /\ UNCHANGED <<base, list, own, reads, cache, generation, fresh, kept>>

Slots == Cardinality(DOMAIN index)
FreeSlotFor(h) == FirstStop(h % Slots, Slots, {slot \in DOMAIN index : index[slot] = 0})

\* One turn of buildIndex.
PlaceId ==
    /\ indexing # 0
    /\ index' = [index EXCEPT ![FreeSlotFor(ByteHash[base[indexing + 1]])] = indexing + 1]
    /\ indexing' = IF indexing + 1 = BaseCount THEN 0 ELSE indexing + 1
    /\ UNCHANGED <<base, list, own, adding, reads, cache, stringsHistory>>

\* mutant: equal hashes are taken for equal strings.
HoldsHash(entry, s) == entry # 0 /\ ByteHash[base[entry]] = ByteHash[s]

\* The id entry - 1 is of the string: equals.
Holds(entry, s) == entry # 0 /\ base[entry] = s

\* mutant: one look at the home slot.
LookOnce(s) == ByteHash[s] % Slots

\* Where the loop of idOf ends.
Look(s) ==
    FirstStop(ByteHash[s] % Slots, Slots,
              {slot \in DOMAIN index : index[slot] = 0 \/ Holds(index[slot], s)})

InBase ==
    LET entry == index[Look(adding)]
    IN  /\ ~Resting
        /\ indexing = 0
        /\ Holds(entry, adding)
        /\ own' = OwnWith(adding, entry - 1)
        /\ HandOut(adding, entry - 1)
        /\ adding' = Empty
        /\ UNCHANGED <<base, list, index, indexing, reads, cache>>

NotInBase ==
    /\ ~Resting
    /\ indexing = 0
    /\ ~Holds(index[Look(adding)], adding)
    /\ Append1(adding)
    /\ adding' = Empty
    /\ UNCHANGED <<base, index, indexing, reads, cache>>

----------------------------------------------------------------------------
(* get                                                                     *)

Cached(id) == [i \in DOMAIN cache \cup {id} |-> IF i = id THEN base[id + 1] ELSE cache[i]]

\* From the base: StringReader.get, memoized from the given read on.
GetInBase(id) ==
    /\ Resting
    /\ id < BaseCount
    /\ reads < MaxReads
    /\ reads' = reads + 1
    /\ LET memoizes == id # 0 /\ reads + 1 >= MemoizeAfter
           hit == id \in DOMAIN cache
       IN  /\ cache' = IF memoizes THEN (IF hit THEN cache ELSE Cached(id)) ELSE cache
           /\ got' = Ref(CASE id = 0 -> Empty
                           [] hit -> cache[id]
                           [] OTHER -> base[id + 1], id)
    /\ UNCHANGED <<base, list, own, index, indexing, adding, generation, fresh, kept>>

\* mutant: without taking the base off.
ListedAt(id) == IF id + 1 \in DOMAIN list THEN list[id + 1] ELSE Empty

Listed(id) == list[id - BaseCount + 1]

\* From the list.
GetInList(id) ==
    /\ Resting
    /\ id >= BaseCount
    /\ id < Size
    /\ got' = Ref(Listed(id), id)
    /\ UNCHANGED <<interner, generation, fresh, kept>>

----------------------------------------------------------------------------
(* serialize, and the interner of the next migration.                      *)

Encoded == [i \in DOMAIN list |-> Normal[list[i]]]

\* mutant: what was added comes before what was carried.
SerializedAddedFirst == Encoded \o base

\* The table as it is if nothing was added to it.
Serialized == IF base # <<>> /\ list = <<>> THEN base ELSE base \o Encoded

NextGeneration ==
    /\ Resting
    /\ generation < MaxGeneration
    /\ generation' = generation + 1
    /\ kept' = kept \cup fresh
    /\ fresh' = {}
    /\ Hydrate(Serialized)

\* The migration throws: its output is dropped, and the next attempt reads
\* the table again.
Discard ==
    /\ Resting
    /\ base # <<>>
    /\ fresh' = {}
    /\ Hydrate(base)
    /\ UNCHANGED <<generation, kept>>

StringsNext ==
    \/ AddEmpty
    \/ \E s \in Strings : AddAgain(s) \/ AddWithoutBase(s) \/ LookInBase(s)
    \/ PlaceId
    \/ InBase
    \/ NotInBase
    \/ \E id \in {r.id : r \in kept \cup fresh} : GetInBase(id) \/ GetInList(id)
    \/ NextGeneration
    \/ Discard

StringsSpec == StringsInit /\ [][StringsNext]_stringsVars

----------------------------------------------------------------------------

(* The state is of its type: the tables begin with the empty string, ids   *)
(* are within them, and what is stored was encoded.                        *)
StringsTypeOK ==
    /\ base \in Seq(Strings \cup {Empty})
    /\ base # <<>> => base[1] = Empty /\ Len(base) > 1
    /\ \A i \in DOMAIN base : Normal[base[i]] = base[i]
    /\ list \in Seq(Strings \cup {Empty})
    /\ base = <<>> => list # <<>> /\ list[1] = Empty
    /\ DOMAIN own \subseteq Strings
    /\ \A s \in DOMAIN own : own[s] \in 0 .. Size - 1
    /\ \A slot \in DOMAIN index : index[slot] \in 0 .. BaseCount
    /\ indexing \in 0 .. BaseCount
    /\ indexing # 0 => indexing < BaseCount /\ index # <<>>
    /\ adding \in Strings \cup {Empty}
    /\ adding # Empty => base # <<>> /\ index # <<>>
    /\ reads \in Nat
    /\ DOMAIN cache \subseteq 1 .. BaseCount - 1
    /\ fresh \cup kept \subseteq [string : Strings \cup {Empty}, id : Nat]

\* What get may say of a string that was added: a string that lies only in
\* the list comes back as it was.
ReadsAs(s) == {s, Normal[s]}

(* Every id ever handed out stands for its string: in the table built now, *)
(* and, as it comes back from its bytes, in every later one, whatever      *)
(* migrations add, drop or throw away in between (strings.ts:20-56, 86-108)*)
IdsStay ==
    /\ \A r \in fresh : r.id < Size /\ Resolve(r.id) \in ReadsAs(r.string)
    /\ \A r \in kept : r.id < Size /\ Resolve(r.id) = Normal[r.string]

\* It comes back as it is, and is not what another one comes back as.
Plain(s) == \A t \in Strings : (Normal[t] = s) = (t = s)

(* A string has one id, however many migrations add it again: the index    *)
(* over the bytes finds what the table holds (strings.ts:58-76, 231-262).  *)
OneIdEach ==
    \A q, r \in fresh \cup kept :
        q.string = r.string /\ (Plain(q.string) \/ q.string = Empty) => q.id = r.id

(* get of an id gives the string it was handed out for, from the base,     *)
(* from its cache and from the list (strings.ts:78-91, 204-222).           *)
GetsWhatWasAdded ==
    \A r \in fresh \cup kept :
        got.id = r.id /\ got # NotRead => got.string \in ReadsAs(r.string)

(* Ids stay, and get says so.                                              *)
IdsResolve == IdsStay /\ GetsWhatWasAdded
=============================================================================

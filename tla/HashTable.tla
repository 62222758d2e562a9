----------------------------- MODULE HashTable -----------------------------
(***************************************************************************)
(* The open-addressed table of fields/hashLookup.ts: HashLookupBuilder     *)
(* collects entries, buildHashTable places them one after the other, each  *)
(* at the first free slot from its home on, and HashLookupReader probes    *)
(* from the home of a hash on until it meets the hash or a free slot.      *)
(* Every lookup by key of a snapshot goes through it: hashLookup,          *)
(* keyedIndex and pairIndex (see Index.tla).                               *)
(*                                                                         *)
(* A slot is free when both halves of its hash are 0; the hash (0, 0) is   *)
(* stored and sought as (1, 0).                                            *)
(*                                                                         *)
(* Abstractions.  Where a hash comes from is the client's business.  What  *)
(* setVerifier, setKeyMatcher and verifyVia give is the set of values that *)
(* the matcher accepts for the key that is sought; without a key or a      *)
(* matcher that is every value.  The three columns keysLow, keysHigh and   *)
(* values are one function from slots to records.                          *)
(***************************************************************************)
EXTENDS Naturals, Sequences

CONSTANTS
    Word,       \* a half of a hash: the 32-bit words
    Values,     \* what entries hold
    MaxAdds     \* bound: how many entries a table gets

\* buildHashTable shifts a 1 by the width of ceil(1.5 size), in 32 bits: one of
\* 30 bits is the widest that gives a length.
ShiftLimit == 1073741824

ASSUME WordAssumption == Word \subseteq Nat /\ {0, 1} \subseteq Word
ASSUME ValuesAssumption == Values \subseteq Nat /\ 0 \in Values
ASSUME MaxAddsAssumption == MaxAdds \in Nat /\ 2 * MaxAdds < ShiftLimit

VARIABLES
    entries,    \* what was added: [hash, value]
    phase,      \* "adding", "placing", "ready", "probing" or "answered"
    table,      \* slot -> [hash, value], once finalized
    next,       \* buildHashTable: the entry it places
    slot,       \* the slot it or the reader looks at
    sought,     \* findByHashSplit: [hash, fits]
    answer,     \* what it returned: one value, or none
    at          \* history: the slots of the entries placed; no action reads it

tableVars == <<phase, table, next, slot, sought, answer, at>>
hashTable == <<entries, tableVars>>

Hash == [lo : Word, hi : Word]
Zero == [lo |-> 0, hi |-> 0]
Free == [hash |-> Zero, value |-> 0]

\* mutant: (0, 0) is a hash like any other.
StoredAsIs(hash) == hash

\* How a hash is stored, and sought.
Stored(hash) == IF hash = Zero THEN [lo |-> 1, hi |-> 0] ELSE hash

Capacities == {2, 4, 8, 16, 32, 64, 128, 256, 512, 1024, 2048, 4096, 8192,
               16384, 32768, 65536, 131072, 262144, 524288, 1048576, 2097152,
               4194304, 8388608, 16777216, 33554432, 67108864, 134217728,
               268435456, 536870912, 1073741824}

OneAndAHalf(size) == (3 * size + 1) \div 2

\* mutant: 1 << (31 - clz32(x)).
CapacityHalf(size) ==
    CHOOSE c \in Capacities :
        c <= OneAndAHalf(size) /\ OneAndAHalf(size) < 2 * c

\* 1 << (32 - clz32(x)): twice the highest power of two in x.
CapacityFor(size) ==
    CHOOSE c \in Capacities :
        c \div 2 <= OneAndAHalf(size) /\ OneAndAHalf(size) < c

Capacity == IF Len(entries) = 0 THEN 0 ELSE CapacityFor(Len(entries))
Slots == 0 .. Capacity - 1
Home(hash) == Stored(hash).lo % Capacity

NextSlot(s) == IF s + 1 = Capacity THEN 0 ELSE s + 1

\* No lookup runs.
Nothing == [hash |-> Zero, fits |-> {}]

IsFree(s) == table[s].hash = Zero

TableInit ==
    /\ entries = <<>>
    /\ phase = "adding"
    /\ table = <<>>
    /\ next = 1
    /\ slot = 0
    /\ sought = Nothing
    /\ answer = {}
    /\ at = <<>>

----------------------------------------------------------------------------
(* The builder.                                                            *)

\* HashLookupBuilder.addSplit, behind add and addRaw.
Add(hash, value) ==
    /\ phase = "adding"
    /\ Len(entries) < MaxAdds
    /\ entries' = Append(entries, [hash |-> hash, value |-> value])
    /\ UNCHANGED tableVars

\* buildHashTable of nothing: three empty columns.
FinalizeEmpty ==
    /\ phase = "adding"
    /\ entries = <<>>
    /\ phase' = "ready"
    /\ UNCHANGED <<entries, table, next, slot, sought, answer, at>>

\* buildHashTable up to its loop.
Finalize ==
    /\ phase = "adding"
    /\ entries # <<>>
    /\ phase' = "placing"
    /\ table' = [s \in Slots |-> Free]
    /\ slot' = Home(entries[1].hash)
    /\ UNCHANGED <<entries, next, sought, answer, at>>

\* The while of buildHashTable.
SkipTaken ==
    /\ phase = "placing"
    /\ ~IsFree(slot)
    /\ slot' = NextSlot(slot)
    /\ UNCHANGED <<entries, phase, table, next, sought, answer, at>>

Place ==
    /\ phase = "placing"
    /\ IsFree(slot)
    /\ table' = [table EXCEPT ![slot] = [hash |-> Stored(entries[next].hash),
                                         value |-> entries[next].value]]
    /\ next' = next + 1
    /\ at' = Append(at, slot)
    /\ IF next < Len(entries)
       THEN slot' = Home(entries[next + 1].hash) /\ phase' = "placing"
       ELSE slot' = 0 /\ phase' = "ready"
    /\ UNCHANGED <<entries, sought, answer>>

----------------------------------------------------------------------------
(* The reader: findByHashSplit.                                            *)

FindEmpty(hash, fits) ==
    /\ phase = "ready"
    /\ Capacity = 0
    /\ sought' = [hash |-> hash, fits |-> fits]
    /\ phase' = "answered"
    /\ UNCHANGED <<entries, table, next, slot, answer, at>>

Find(hash, fits) ==
    /\ phase = "ready"
    /\ Capacity # 0
    /\ sought' = [hash |-> hash, fits |-> fits]
    /\ slot' = Home(hash)
    /\ phase' = "probing"
    /\ UNCHANGED <<entries, table, next, answer, at>>

Hits(s) ==
    /\ table[s].hash = Stored(sought.hash)
    /\ table[s].value \in sought.fits

\* mutant: a hash that is met with another text ends the probe too.
ProbeFreeOrOther ==
    /\ phase = "probing"
    /\ ~Hits(slot)
    /\ IsFree(slot) \/ table[slot].hash = Stored(sought.hash)
    /\ phase' = "answered"
    /\ slot' = 0
    /\ UNCHANGED <<entries, table, next, sought, answer, at>>

ProbeFree ==
    /\ phase = "probing"
    /\ IsFree(slot)
    /\ phase' = "answered"
    /\ slot' = 0
    /\ UNCHANGED <<entries, table, next, sought, answer, at>>

ProbeHit ==
    /\ phase = "probing"
    /\ ~IsFree(slot)
    /\ Hits(slot)
    /\ answer' = {table[slot].value}
    /\ phase' = "answered"
    /\ slot' = 0
    /\ UNCHANGED <<entries, table, next, sought, at>>

ProbeOn ==
    /\ phase = "probing"
    /\ ~IsFree(slot)
    /\ ~Hits(slot)
    /\ slot' = NextSlot(slot)
    /\ UNCHANGED <<entries, phase, table, next, sought, answer, at>>

\* The caller has the answer.
Return ==
    /\ phase = "answered"
    /\ phase' = "ready"
    /\ sought' = Nothing
    /\ answer' = {}
    /\ UNCHANGED <<entries, table, next, slot, at>>

Probe == ProbeFree \/ ProbeHit \/ ProbeOn
Steps == SkipTaken \/ Place \/ Probe

----------------------------------------------------------------------------
(* Any client: any hash with any value, any matcher.                       *)

TableNext ==
    \/ \E hash \in Hash, value \in Values : Add(hash, value)
    \/ FinalizeEmpty
    \/ Finalize
    \/ \E hash \in Hash, fits \in SUBSET Values :
           FindEmpty(hash, fits) \/ Find(hash, fits)
    \/ Steps
    \/ Return

TableSpec == TableInit /\ [][TableNext]_hashTable

----------------------------------------------------------------------------

(* The state is of its type: slots are within the table, probes are for    *)
(* what can be stored, and an answer is one value or none.                 *)
TableTypeOK ==
    /\ entries \in Seq([hash : Hash, value : Values])
    /\ Len(entries) <= MaxAdds
    /\ phase \in {"adding", "placing", "ready", "probing", "answered"}
    /\ phase = "adding" => table = <<>> /\ next = 1 /\ at = <<>>
    /\ phase # "adding" /\ entries # <<>> =>
           table \in [Slots -> [hash : Hash, value : Values]]
    /\ next \in 1 .. Len(entries) + 1
    /\ phase = "placing" => next <= Len(entries)
    /\ phase \in {"ready", "probing", "answered"} => next = Len(entries) + 1
    /\ phase = "probing" => entries # <<>>
    /\ phase \in {"placing", "probing"} => slot \in Slots
    /\ sought \in [hash : Hash, fits : SUBSET Values]
    /\ at \in Seq(Nat)
    /\ Len(at) = next - 1

(* The entries a lookup is for: those of its hash that the matcher accepts.*)
Fitting ==
    {i \in 1 .. Len(entries) :
        /\ Stored(entries[i].hash) = Stored(sought.hash)
        /\ entries[i].value \in sought.fits}

(* Of the entries a lookup is for, find returns the value of the one that  *)
(* was added first, and undefined only if there is none, wherever probing  *)
(* and wrapping around put them and whatever lies in between               *)
(* (hashLookup.ts:33-38, 115-128).                                         *)
FindsFirst ==
    phase = "answered" =>
        answer = {entries[i].value : i \in {f \in Fitting : \A g \in Fitting : f <= g}}

(* A table that holds entries has a free slot, whatever their number: the  *)
(* two while loops have no other end for a hash that is not in it          *)
(* (hashLookup.ts:21, 33, 115).                                            *)
FreeSlot ==
    phase # "adding" /\ entries # <<>> => \E s \in Slots : IsFree(s)
=============================================================================

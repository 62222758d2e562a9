------------------------------ MODULE Buckets ------------------------------
(***************************************************************************)
(* Rows of values in typed arrays: NumberBuffer and U32Buffer of           *)
(* growable.ts, ColumnStore of columns.ts and the fields that are made of  *)
(* them, numArray (flat.ts), bucketArray and multiBucketArray.             *)
(*                                                                         *)
(* A row is written column by column; a value that does not fit its column *)
(* throws a RangeError there and then, and the caller may go on.  A column *)
(* of a stride takes that many values a row, the missing ones as 0.        *)
(*                                                                         *)
(* Abstractions.  Numbers are whole.  Strings are their ids: what those    *)
(* stand for is Strings.tla.  A numArray is one column, never divided.     *)
(***************************************************************************)
EXTENDS Integers, Sequences, FiniteSets

CONSTANTS
    Fields,             \* [kind, specs]; a spec is [stride, least, most]
    InitialCapacity,    \* INITIAL_CAPACITY
    RowsOf(_),          \* what is pushed to the columns of a field
    Runs,               \* what pushMany is given
    MaxRows             \* bound: how many values or rows are pushed

ASSUME CapacityAssumption == InitialCapacity \in Nat \ {0} /\ MaxRows \in Nat
ASSUME FieldsAssumption ==
    \A f \in Fields :
        /\ f.kind \in {"numArray", "bucketArray", "multiBucketArray"}
        /\ Len(f.specs) \in Nat \ {0} /\ DOMAIN f.specs = 1 .. Len(f.specs)
        /\ f.kind # "multiBucketArray" => Len(f.specs) = 1
        /\ f.kind = "numArray" => f.specs[1].stride = 1
        /\ \A c \in DOMAIN f.specs : f.specs[c].stride \in Nat \ {0}
ASSUME RowsAssumption ==
    /\ \A f \in Fields : \A row \in RowsOf(f) : \A c \in DOMAIN f.specs : row[c] \in Seq(Int)
    /\ \A values \in Runs : values \in Seq(Int)

\* bound: how many values an array has.
MaxValues == 1073741824

VARIABLES
    made,       \* the field
    stores,     \* its columns: [data, len]
    ends,       \* ptrBuf
    progress,    \* "writing" or "finalized"
    rows,       \* history: the rows pushed and not thrown out of, in full
    closed,     \* history: how many there were at the end of each bucket
    sound       \* history: how many of them, and of the buckets, come first

bucketsHistory == <<rows, closed, sound>>
bucketsVars == <<made, stores, ends, progress, bucketsHistory>>

Columns == DOMAIN made.specs
NoStore == [data |-> <<>>, len |-> 0]

BucketsInit ==
    /\ made \in Fields
    /\ stores = [c \in Columns |-> NoStore]
    /\ ends = <<0>>
    /\ progress = "writing"
    /\ rows = <<>>
    /\ closed = <<0>>
    /\ sound = [rows |-> MaxRows, buckets |-> MaxRows]

----------------------------------------------------------------------------
(* The buffers.                                                            *)

\* What doubling multiplies with, once, twice and up to MaxValues.
Doublings ==
    {1, 2, 4, 8, 16, 32, 64, 128, 256, 512, 1024, 2048, 4096, 8192, 16384, 32768, 65536,
     131072, 262144, 524288, 1048576, 2097152, 4194304, 8388608, 16777216, 33554432,
     67108864, 134217728, 268435456, 536870912, 1073741824}

\* The first capacity in the doubling of `from` that is enough.
Doubled(from, needed) ==
    from * CHOOSE d \in Doublings :
               from * d >= needed /\ (d = 1 \/ from * d < 2 * needed)

\* mutant: no array is ever replaced.
ReservedNever(store, more) == store

\* mutant: the new array is not given what the old one held.
ReservedEmpty(store, more) ==
    LET capacity == Len(store.data)
        from == IF capacity = 0 THEN InitialCapacity ELSE capacity
    IN  IF store.len + more <= capacity THEN store
        ELSE [store EXCEPT !.data = [p \in 1 .. Doubled(from, store.len + more) |-> 0]]

\* reserve and grow.
Reserved(store, more) ==
    LET capacity == Len(store.data)
        from == IF capacity = 0 THEN InitialCapacity ELSE capacity
    IN  IF store.len + more <= capacity THEN store
        ELSE [store EXCEPT !.data =
                  [p \in 1 .. Doubled(from, store.len + more) |->
                       IF p <= store.len THEN store.data[p] ELSE 0]]

\* The values at the end, in a store that has room.
Filled(store, values) ==
    [data |-> [p \in DOMAIN store.data |->
                   IF p - store.len \in DOMAIN values THEN values[p - store.len]
                                                      ELSE store.data[p]],
     len |-> store.len + Len(values)]

View(store) == SubSeq(store.data, 1, store.len)

Fits(spec, value) == spec.least <= value /\ value <= spec.most

\* The values before the first that does not fit.
Fitting(spec, values) ==
    LET bad == {i \in DOMAIN values : ~Fits(spec, values[i])}
    IN  IF bad = {} THEN values
        ELSE SubSeq(values, 1, (CHOOSE i \in bad : \A j \in bad : i <= j) - 1)

Throws(spec, values) == \E i \in DOMAIN values : ~Fits(spec, values[i])

\* A stride, with zeroes for what is missing.
Strided(spec, values) ==
    [s \in 1 .. spec.stride |-> IF s \in DOMAIN values THEN values[s] ELSE 0]

\* push of one value, which is checked before there is room made for it, and
\* pushStride; what is there of a column that threw stays.
Pushed(store, spec, values) ==
    LET stride == Strided(spec, values)
    IN  IF spec.stride = 1 /\ Throws(spec, stride) THEN store
        ELSE Filled(Reserved(store, Len(stride)), Fitting(spec, stride))

----------------------------------------------------------------------------
(* The builders.                                                           *)

LeastOf(S) == CHOOSE m \in S : \A n \in S : m <= n

\* itemCount and the length of a bucketArray; a fraction is cut by ptrBuf.
ItemCount == stores[1].len \div made.specs[1].stride

\* After a throw only a single column of stride 1 is as it was.
Breaks == Len(made.specs) > 1 \/ made.specs[1].stride > 1

Broken ==
    IF Breaks /\ sound.rows > Len(rows)
    THEN [rows |-> Len(rows), buckets |-> Len(ends) - 1] ELSE sound

\* push of bucketArray, and ColumnStore.push: columns after the one that
\* throws do not get the row.
PushRow(row) ==
    LET throwing == {c \in Columns : Throws(made.specs[c], Strided(made.specs[c], row[c]))}
        reached == IF throwing = {} THEN Columns ELSE 1 .. LeastOf(throwing)
    IN  /\ progress = "writing"
        /\ ItemCount < MaxRows
        /\ \A c \in Columns : stores[c].len + made.specs[c].stride <= MaxValues
        /\ stores' = [c \in Columns |-> IF c \in reached
                                        THEN Pushed(stores[c], made.specs[c], row[c])
                                        ELSE stores[c]]
        /\ IF throwing = {}
           THEN /\ rows' = Append(rows, [c \in Columns |-> Strided(made.specs[c], row[c])])
                /\ sound' = sound
           ELSE rows' = rows /\ sound' = Broken
        /\ UNCHANGED <<made, ends, progress, closed>>

\* pushMany: the values before the one that throws stay.
PushRun(values) ==
    LET spec == made.specs[1]
        fitting == Fitting(spec, values)
    IN  /\ progress = "writing"
        /\ made.kind = "numArray"
        /\ Len(rows) + Len(values) <= MaxRows
        /\ stores[1].len + Len(values) <= MaxValues
        /\ stores' = <<Filled(Reserved(stores[1], Len(values)), fitting)>>
        /\ rows' = rows \o [i \in DOMAIN fitting |-> <<<<fitting[i]>>>>]
        /\ UNCHANGED <<made, ends, progress, closed, sound>>

\* setFrom: clear, which keeps the array, and pushMany.
SetFrom(values) ==
    LET spec == made.specs[1]
        fitting == Fitting(spec, values)
    IN  /\ progress = "writing"
        /\ made.kind = "numArray"
        /\ Len(values) <= MaxRows
        /\ Len(values) <= MaxValues
        /\ stores' = <<Filled(Reserved([stores[1] EXCEPT !.len = 0], Len(values)), fitting)>>
        /\ rows' = [i \in DOMAIN fitting |-> <<<<fitting[i]>>>>]
        /\ UNCHANGED <<made, ends, progress, closed, sound>>

EndBucket ==
    /\ progress = "writing"
    /\ made.kind # "numArray"
    /\ Len(ends) <= MaxRows
    /\ ends' = Append(ends, ItemCount)
    /\ closed' = Append(closed, Len(rows))
    /\ UNCHANGED <<made, stores, progress, rows, sound>>

FinalizeColumns ==
    /\ progress = "writing"
    /\ progress' = "finalized"
    /\ UNCHANGED <<made, stores, ends, bucketsHistory>>

\* get, slice and range read and change nothing.
ReadColumns == progress = "finalized" /\ UNCHANGED bucketsVars

BucketsNext ==
    \/ \E row \in RowsOf(made) : PushRow(row)
    \/ \E values \in Runs : PushRun(values) \/ SetFrom(values)
    \/ EndBucket
    \/ FinalizeColumns
    \/ ReadColumns

BucketsSpec == BucketsInit /\ [][BucketsNext]_bucketsVars

----------------------------------------------------------------------------
(* The readers.                                                            *)

\* readColumnValue of an item, counted from 0.
ReadColumn(c, item) ==
    LET stride == made.specs[c].stride
    IN  [s \in 1 .. stride |-> View(stores[c])[item * stride + s]]

\* The items of a bucket: range, bucketLength and what get may be asked for.
Items(bucket) == ends[bucket] .. ends[bucket + 1] - 1

\* mutant: items are taken for values.
SliceOfItems(bucket) == SubSeq(View(stores[1]), ends[bucket] + 1, ends[bucket + 1])

\* slice of a bucketArray.
Slice(bucket) ==
    LET stride == made.specs[1].stride
    IN  SubSeq(View(stores[1]), ends[bucket] * stride + 1, ends[bucket + 1] * stride)

----------------------------------------------------------------------------

(* The state is of its type: no store is longer than its array, and        *)
(* buckets end one after the other.                                        *)
BucketsTypeOK ==
    /\ made \in Fields
    /\ \A c \in Columns : stores[c].len <= Len(stores[c].data)
    /\ \A b \in 1 .. Len(ends) - 1 : ends[b] <= ends[b + 1]
    /\ progress \in {"writing", "finalized"}

(* The slice of a bucket has the values of its items and no others         *)
(* (bucketArray.ts:99-105).                                                *)
SlicesCover ==
    progress = "finalized" /\ made.kind = "bucketArray" =>
        LET stride == made.specs[1].stride
        IN  \A b \in 1 .. Len(ends) - 1 :
                /\ Len(Slice(b)) = stride * (ends[b + 1] - ends[b])
                /\ \A i \in Items(b) :
                       SubSeq(Slice(b), (i - ends[b]) * stride + 1, (i - ends[b] + 1) * stride)
                           = ReadColumn(1, i)

(* A row that was pushed before any other threw is read back, in full and  *)
(* in its bucket, however the columns grew; of a single column of stride 1 *)
(* every row is, what throws in between changes nothing.  A slice holds    *)
(* what its items do (growable.ts:72-140, columns.ts:109-133, 159-176,     *)
(* bucketArray.ts:42-59, 87-110).                                          *)
RowsReadBack ==
    progress = "finalized" =>
        /\ SlicesCover
        /\ \A i \in DOMAIN rows : i <= sound.rows =>
               \A c \in Columns : ReadColumn(c, i - 1) = rows[i][c]
        /\ \A b \in 1 .. Len(ends) - 1 : b <= sound.buckets =>
               Items(b) = closed[b] .. closed[b + 1] - 1
=============================================================================

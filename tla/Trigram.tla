------------------------------ MODULE Trigram ------------------------------
(***************************************************************************)
(* The trigram index of fields/trigramIndex.ts: TrigramIndexBuilder puts   *)
(* entities into buckets, one for each hash of three letters, and          *)
(* TrigramIndexReader answers queries from the lists of the buckets.       *)
(*                                                                         *)
(* The builder finds a bucket by the letters in one open-addressed table   *)
(* and, for letters not seen before, by their hash in another; both double *)
(* when they are more than half full.  The reader keeps its scratch from   *)
(* query to query: scores are valid if their mark is the generation of the *)
(* query, and the generation wraps around.                                 *)
(*                                                                         *)
(* Abstractions.  Letters and hashes are parameters, and so is what a text *)
(* is in lower case: on ASCII lowerAscii agrees with toLowerCase.  The     *)
(* table that finalize builds is HashTable.tla: here it leads to the one   *)
(* bucket of the hash.  The counting sorts, of postings by bucket and of   *)
(* candidates by score, are what they come to, stable orders.  A mask of a *)
(* table is a remainder: its length is a power of two.  A ratio is         *)
(* [num, den].                                                             *)
(***************************************************************************)
EXTENDS Integers, Sequences, FiniteSets, Functions, Probing

CONSTANTS
    Letters,
    Names,          \* what is added and asked for
    Lower,          \* Names -> sequences of letters
    HashOf,         \* of up to three letters: <<low word, high word>>
    CharHome,       \* charSlot of them
    Hashes,         \* what addHash is given
    Entities,
    EntityWidth,    \* entities are words below it
    InitialSlots,   \* TRIGRAM_INITIAL_SLOTS
    Slack,          \* ids are dense up to that over 4 for each posting: 1024
    LastGeneration, \* 0x7fffffff
    Ratios,         \* dynamicCutoffRatio
    Limits,         \* limit
    MaxEntries      \* bound: how often something is added

ASSUME EntitiesAssumption ==
    EntityWidth \in Nat \ {0} /\ Entities \subseteq 0 .. EntityWidth - 1
ASSUME SlotsAssumption == InitialSlots \in Nat \ {0}
ASSUME GenerationAssumption == LastGeneration \in Nat \ {0}
ASSUME NamesAssumption == Lower \in [Names -> Seq(Letters)]
ASSUME HashesAssumption == Hashes \subseteq Nat \X Nat
ASSUME QueriesAssumption ==
    /\ \A ratio \in Ratios : ratio.num \in Nat /\ ratio.den \in Nat \ {0}
    /\ Limits \subseteq Nat

VARIABLES
    mode,       \* "building", "ready", "scoring" or "answered"
    charSlots,  \* slot -> [letters, bucket], bucket 0 for a free slot
    slots,      \* slot -> bucket, 0 for a free slot
    hashes,     \* bucketLo and bucketHi: bucket -> hash
    last,       \* bucketLast
    posts,      \* [bucket, entity], as they arrive
    pending,    \* addEntry: the letters still to post
    entity,     \* for which entity
    lists,      \* ptr and data: bucket -> its entities
    scratch,    \* "none", "dense" or "sparse"
    marks,      \* dense, or matches: entity -> [generation, score]
    generationOf,   \* TrigramIndexReader.generation
    bits,       \* the entities whose bit is set
    touched,    \* the entities scored, as they come
    query,      \* [lists, ratio, limit] of the search
    step,       \* the list it scores
    at,         \* and where in it
    maxScore,
    result,     \* what search returned: [idx, score], best first
    asked,      \* history: the hashes of the query
    added       \* history: [entity, hashes]

indexer == <<charSlots, slots, hashes, last, posts, pending, entity>>
searcher == <<scratch, marks, generationOf, bits, touched>>
search == <<query, step, at, maxScore, result, asked>>
trigramVars == <<mode, indexer, lists, searcher, search, added>>

TRIGRAM_LEN == 3

\* trigramCount and the walk over a text: its letters, three at a time.
Windows(text) ==
    IF Len(text) \in 1 .. TRIGRAM_LEN - 1 THEN <<text>>
    ELSE [t \in 1 .. Len(text) - TRIGRAM_LEN + 1 |->
             SubSeq(text, t, t + TRIGRAM_LEN - 1)]

Words == UNION {Range(Windows(Lower[name])) : name \in Names}

ASSUME WordsAssumption ==
    \A w \in Words : HashOf[w] \in Nat \X Nat /\ CharHome[w] \in Nat

\* The key (0, 0) is that of a free slot.
KeyOf(hash) == IF hash = <<0, 0>> THEN <<1, 0>> ELSE hash

HashesOf(text) == {KeyOf(HashOf[w]) : w \in Range(Windows(text))}

FreeChar == [letters |-> <<>>, bucket |-> 0]
NoQuery == [lists |-> <<>>, ratio |-> [num |-> 0, den |-> 1], limit |-> 0]
NoMarks == <<>>

TrigramInit ==
    /\ mode = "building"
    /\ charSlots = [s \in 0 .. InitialSlots - 1 |-> FreeChar]
    /\ slots = [s \in 0 .. InitialSlots - 1 |-> 0]
    /\ hashes = <<>>
    /\ last = <<>>
    /\ posts = <<>>
    /\ pending = <<>>
    /\ entity = 0
    /\ lists = <<>>
    /\ scratch = "none"
    /\ marks = NoMarks
    /\ generationOf = 0
    /\ bits = {}
    /\ touched = <<>>
    /\ query = NoQuery
    /\ step = 0
    /\ at = 0
    /\ maxScore = 0
    /\ result = <<>>
    /\ asked = <<>>
    /\ added = <<>>

----------------------------------------------------------------------------
(* The builder.                                                            *)

CharSlot(letters, table) ==
    LET capacity == Cardinality(DOMAIN table)
    IN  FirstStop(CharHome[letters] % capacity, capacity,
                  {s \in DOMAIN table : table[s].bucket = 0 \/ table[s].letters = letters})

HashSlot(key, table, keys) ==
    LET capacity == Cardinality(DOMAIN table)
    IN  FirstStop(key[1] % capacity, capacity,
                  {s \in DOMAIN table : table[s] = 0 \/ keys[table[s]] = key})

\* mutant: the slots stay where they are.
GrownInPlace(table, keys) ==
    [s \in 0 .. 2 * Cardinality(DOMAIN table) - 1 |-> IF s \in DOMAIN table THEN table[s] ELSE 0]

\* An entry in the first free slot from its home on.
PutIn(table, entry, home, capacity, free) ==
    IF entry = free THEN table
    ELSE [table EXCEPT ![FirstStop(home % capacity, capacity,
                                   {s \in 0 .. capacity - 1 : table[s] = free})] = entry]

\* A new table, with the entries put in one after the other.
Rehashed(entries, homes, capacity, free) ==
    LET table[k \in 0 .. Len(entries)] ==
            IF k = 0 THEN [s \in 0 .. capacity - 1 |-> free]
            ELSE PutIn(table[k - 1], entries[k], homes[k], capacity, free)
    IN  table[Len(entries)]

\* growSlots: the buckets, in the order of creation.
Grown(table, keys) ==
    Rehashed([b \in 1 .. Len(keys) |-> b], [b \in 1 .. Len(keys) |-> keys[b][1]],
             2 * Cardinality(DOMAIN table), 0)

\* growCharSlots: the old slots, in their order.
GrownChars(table) ==
    LET old == [k \in 1 .. Cardinality(DOMAIN table) |-> table[k - 1]]
    IN  Rehashed(old, [k \in DOMAIN old |-> IF old[k] = FreeChar THEN 0
                                            ELSE CharHome[old[k].letters]],
                 2 * Len(old), FreeChar)

Taken(table) == Cardinality({s \in DOMAIN table : table[s].bucket # 0})

\* bucketOfHash: the bucket of the key, a new one if there is none.
KnowsHash(key) == slots[HashSlot(key, slots, hashes)] # 0

NewBucket(key) ==
    LET bucket == Len(hashes) + 1
        keys == Append(hashes, key)
        filled == [slots EXCEPT ![HashSlot(key, slots, hashes)] = bucket]
    IN  /\ hashes' = keys
        /\ slots' = IF bucket * 2 > Cardinality(DOMAIN slots)
                    THEN Grown(filled, keys) ELSE filled

\* The entry of a new bucket in bucketLast is 0.
LastOf(bucket) == IF bucket \in DOMAIN last THEN last[bucket] ELSE 0

\* post, to an old bucket or the new one; entityIdx + 1 is stored as a word.
Post(bucket, e) ==
    LET grown == [b \in 1 .. Len(hashes') |-> LastOf(b)]
    IN  IF LastOf(bucket) = e + 1
        THEN last' = grown /\ UNCHANGED posts
        ELSE /\ last' = [grown EXCEPT ![bucket] = (e + 1) % EntityWidth]
             /\ posts' = Append(posts, [bucket |-> bucket, entity |-> e])

PostToHash(key, e) ==
    IF KnowsHash(key)
    THEN UNCHANGED <<hashes, slots>> /\ Post(slots[HashSlot(key, slots, hashes)], e)
    ELSE NewBucket(key) /\ Post(Len(hashes) + 1, e)

AddEntry(e, name) ==
    /\ mode = "building"
    /\ pending = <<>>
    /\ Len(added) < MaxEntries
    /\ pending' = Windows(Lower[name])
    /\ entity' = e
    /\ added' = Append(added, [entity |-> e, hashes |-> HashesOf(Lower[name])])
    /\ UNCHANGED <<mode, charSlots, slots, hashes, last, posts, lists, searcher, search>>

\* One turn of addEntry, for letters that charSlots knows.
PostSeen ==
    LET c == charSlots[CharSlot(Head(pending), charSlots)]
    IN  /\ pending # <<>>
        /\ c.bucket # 0
        /\ UNCHANGED <<hashes, slots>>
        /\ Post(c.bucket, entity)
        /\ pending' = Tail(pending)
        /\ UNCHANGED <<mode, charSlots, entity, lists, searcher, search, added>>

\* ... and for letters seen the first time.
PostFirst ==
    LET letters == Head(pending)
        key == KeyOf(HashOf[letters])
        bucket == IF KnowsHash(key) THEN slots[HashSlot(key, slots, hashes)]
                                    ELSE Len(hashes) + 1
        filled == [charSlots EXCEPT ![CharSlot(letters, charSlots)] =
                       [letters |-> letters, bucket |-> bucket]]
    IN  /\ pending # <<>>
        /\ charSlots[CharSlot(letters, charSlots)].bucket = 0
        /\ charSlots' = IF 2 * Taken(filled) > Cardinality(DOMAIN charSlots)
                        THEN GrownChars(filled) ELSE filled
        /\ PostToHash(key, entity)
        /\ pending' = Tail(pending)
        /\ UNCHANGED <<mode, entity, lists, searcher, search, added>>

AddHash(e, hash) ==
    /\ mode = "building"
    /\ pending = <<>>
    /\ Len(added) < MaxEntries
    /\ PostToHash(KeyOf(hash), e)
    /\ added' = Append(added, [entity |-> e, hashes |-> {KeyOf(hash)}])
    /\ UNCHANGED <<mode, charSlots, pending, entity, lists, searcher, search>>

\* The elements of S, in the order R.
Ordered(S, R) ==
    [place \in 1 .. Cardinality(S) |->
        CHOOSE p \in S : place = 1 + Cardinality({q \in S : q # p /\ <<q, p>> \in R})]

\* mutant: postings are not compacted.
AllPosts(bucket) == {p \in DOMAIN posts : posts[p].bucket = bucket}

\* The postings of a bucket, of each entity the first: the stamps of finalize,
\* or its Set.
FirstPosts(bucket) ==
    {p \in DOMAIN posts :
        posts[p].bucket = bucket /\ \A q \in 1 .. p - 1 : posts[q] # posts[p]}

Arrival == {pq \in (DOMAIN posts) \X (DOMAIN posts) : pq[1] < pq[2]}

ListOf(bucket) ==
    LET places == Ordered(FirstPosts(bucket), Arrival)
    IN  [i \in DOMAIN places |-> posts[places[i]].entity]

FinalizeIndex ==
    /\ mode = "building"
    /\ pending = <<>>
    /\ lists' = [b \in DOMAIN hashes |-> ListOf(b)]
    /\ mode' = "ready"
    /\ UNCHANGED <<indexer, searcher, search, added>>

----------------------------------------------------------------------------
(* The reader.                                                             *)

\* findBucket and its bounds in ptr; an empty list for a hash not there.
Found(hash) ==
    LET buckets == {b \in DOMAIN hashes : hashes[b] = KeyOf(hash)}
    IN  IF buckets = {} THEN <<>> ELSE lists[CHOOSE b \in buckets : TRUE]

Missing(hash) == \A b \in DOMAIN hashes : hashes[b] # KeyOf(hash)

\* The places of data, and what is there.
Data == UNION {{<<b, i>> : i \in DOMAIN lists[b]} : b \in DOMAIN lists}
Ids == UNION {Range(lists[b]) : b \in DOMAIN lists}

Asks(name) ==
    LET windows == Windows(Lower[name])
    IN  asked' = [t \in DOMAIN windows |-> KeyOf(HashOf[windows[t]])]

Answer(r) ==
    /\ result' = r
    /\ mode' = "answered"

Scored(ids, score) == [i \in DOMAIN ids |-> [idx |-> ids[i], score |-> score]]

\* No trigram, or one and a ratio that one hit cannot reach.
SearchNothing(name, ratio, limit) ==
    LET windows == Windows(Lower[name])
    IN  /\ mode = "ready"
        /\ Len(windows) = 0 \/ (Len(windows) = 1 /\ ratio.num > ratio.den)
        /\ Asks(name)
        /\ query' = [lists |-> <<>>, ratio |-> ratio, limit |-> limit]
        /\ Answer(<<>>)
        /\ UNCHANGED <<indexer, lists, searcher, step, at, maxScore, added>>

\* searchSingle.
SearchSingle(name, ratio, limit) ==
    LET windows == Windows(Lower[name])
        all == Found(HashOf[windows[1]])
        take == IF limit < Len(all) THEN limit ELSE Len(all)
    IN  /\ mode = "ready"
        /\ Len(windows) = 1
        /\ ratio.num <= ratio.den
        /\ Asks(name)
        /\ query' = [lists |-> <<>>, ratio |-> ratio, limit |-> limit]
        /\ Answer(Scored(SubSeq(all, 1, take), 1))
        /\ UNCHANGED <<indexer, lists, searcher, step, at, maxScore, added>>

\* prepareScratch, at the first search.
Prepared ==
    IF scratch # "none" THEN scratch
    ELSE IF Data # {} /\ \A e \in Ids : e + 1 <= 4 * Cardinality(Data) + Slack
         THEN "dense" ELSE "sparse"

Unmarked == [e \in Ids |-> [generation |-> 0, score |-> 0]]

\* mutant: the marks stay when the generation wraps around.
FreshMarksKept == IF scratch = "none" THEN Unmarked ELSE marks

\* The marks of dense: of a new array, or filled with 0 at the wrap.
FreshMarks ==
    IF scratch = "none" \/ generationOf = LastGeneration THEN Unmarked ELSE marks

\* search, up to its scoring loop.
SearchStart(name, ratio, limit) ==
    LET windows == Windows(Lower[name])
        missing == {t \in DOMAIN windows : Missing(HashOf[windows[t]])}
    IN  /\ mode = "ready"
        /\ Len(windows) > 1
        /\ Asks(name)
        /\ scratch' = Prepared
        /\ marks' = IF Prepared = "dense" THEN FreshMarks ELSE NoMarks
        /\ generationOf' = IF generationOf = LastGeneration THEN 1 ELSE generationOf + 1
        /\ touched' = <<>>
        /\ query' = [lists |-> [t \in DOMAIN windows |-> Found(HashOf[windows[t]])],
                     ratio |-> ratio, limit |-> limit]
        /\ step' = 1
        /\ at' = 1
        /\ maxScore' = 0
        /\ IF Cardinality(missing) >= 2
           THEN Answer(<<>>)
           ELSE mode' = "scoring" /\ UNCHANGED result
        /\ UNCHANGED <<indexer, lists, bits, added>>

Larger(m, n) == IF m > n THEN m ELSE n

\* mutant: only the first list admits.
AdmitsFirst == step <= 1

\* The first two lists admit candidates.
Admits == step <= 2

Mark(e, score) ==
    /\ marks' = [d \in DOMAIN marks \cup {e} |->
                    IF d = e THEN [generation |-> generationOf, score |-> score]
                             ELSE marks[d]]
    /\ maxScore' = Larger(maxScore, score)

Touch(e) == touched' = Append(touched, e)

\* One turn of admitDense, of scoreDense and of scoreSparse.
AdmitDense(e) ==
    /\ scratch = "dense"
    /\ Admits
    /\ IF marks[e].generation # generationOf
       THEN Mark(e, 1) /\ bits' = bits \cup {e} /\ Touch(e)
       ELSE Mark(e, marks[e].score + 1) /\ UNCHANGED <<bits, touched>>

ScoreDense(e) ==
    /\ scratch = "dense"
    /\ ~Admits
    /\ IF e \in bits THEN Mark(e, marks[e].score + 1) ELSE UNCHANGED <<marks, maxScore>>
    /\ UNCHANGED <<bits, touched>>

ScoreSparse(e) ==
    /\ scratch = "sparse"
    /\ IF e \in DOMAIN marks THEN Mark(e, marks[e].score + 1) /\ UNCHANGED touched
       ELSE IF Admits THEN Mark(e, 1) /\ Touch(e)
       ELSE UNCHANGED <<marks, maxScore, touched>>
    /\ UNCHANGED bits

Scoring(e) == AdmitDense(e) \/ ScoreDense(e) \/ ScoreSparse(e)

ScorePosting ==
    /\ mode = "scoring"
    /\ step <= Len(query.lists)
    /\ at <= Len(query.lists[step])
    /\ Scoring(query.lists[step][at])
    /\ at' = at + 1
    /\ UNCHANGED <<mode, indexer, lists, scratch, generationOf, query, step, result,
                   asked, added>>

NextList ==
    /\ mode = "scoring"
    /\ step <= Len(query.lists)
    /\ at > Len(query.lists[step])
    /\ step' = step + 1
    /\ at' = 1
    /\ UNCHANGED <<mode, indexer, lists, searcher, query, maxScore, result, asked, added>>

\* mutant: the bits stay.
BitsKept == bits

\* clearBits.
BitsCleared == bits \ Range(touched)

Ceiling(num, den) == (num + den - 1) \div den

\* The least score that counts: Math.ceil(cutoff).
Lowest ==
    Larger(Larger(1, Len(query.lists) - 1),
           Ceiling(maxScore * query.ratio.num, query.ratio.den))

ScoreAt(i) == marks[touched[i]].score

\* By score, and of one score as they were touched.
BestFirst ==
    {ij \in (DOMAIN touched) \X (DOMAIN touched) :
        \/ ScoreAt(ij[1]) > ScoreAt(ij[2])
        \/ ScoreAt(ij[1]) = ScoreAt(ij[2]) /\ ij[1] < ij[2]}

Ranked ==
    LET places == Ordered({i \in DOMAIN touched : ScoreAt(i) >= Lowest}, BestFirst)
    IN  [p \in DOMAIN places |->
            [idx |-> touched[places[p]], score |-> ScoreAt(places[p])]]

RankTouched ==
    /\ mode = "scoring"
    /\ step > Len(query.lists)
    /\ bits' = BitsCleared
    /\ LET take == IF query.limit < Len(Ranked) THEN query.limit ELSE Len(Ranked)
       IN  Answer(IF Lowest > maxScore THEN <<>> ELSE SubSeq(Ranked, 1, take))
    /\ UNCHANGED <<indexer, lists, scratch, marks, generationOf, touched, query, step,
                   at, maxScore, asked, added>>

\* The caller has the answer; what is left in touched is not read again.
Searched ==
    /\ mode = "answered"
    /\ mode' = "ready"
    /\ query' = NoQuery
    /\ step' = 0
    /\ at' = 0
    /\ maxScore' = 0
    /\ result' = <<>>
    /\ asked' = <<>>
    /\ touched' = <<>>
    /\ UNCHANGED <<indexer, lists, scratch, marks, generationOf, bits, added>>

TrigramNext ==
    \/ \E e \in Entities, name \in Names : AddEntry(e, name)
    \/ \E e \in Entities, hash \in Hashes : AddHash(e, hash)
    \/ PostSeen
    \/ PostFirst
    \/ FinalizeIndex
    \/ \E name \in Names, ratio \in Ratios, limit \in Limits :
           \/ SearchNothing(name, ratio, limit)
           \/ SearchSingle(name, ratio, limit)
           \/ SearchStart(name, ratio, limit)
    \/ ScorePosting
    \/ NextList
    \/ RankTouched
    \/ Searched

TrigramSpec == TrigramInit /\ [][TrigramNext]_trigramVars

----------------------------------------------------------------------------

(* A hash has one bucket, wherever growth and probing put it in the two    *)
(* tables, and the letters that lead to it have that hash (94-153, 167-208)*)
OneBucketEach ==
    /\ \A b, c \in DOMAIN hashes : hashes[b] = hashes[c] => b = c
    /\ \A b \in DOMAIN hashes : slots[HashSlot(hashes[b], slots, hashes)] = b
    /\ \A s \in DOMAIN charSlots :
           LET c == charSlots[s]
           IN  c.bucket # 0 => hashes[c.bucket] = KeyOf(HashOf[c.letters])

(* Between two searches no bit is set and no mark is of a generation yet   *)
(* to come: the next search starts as if it were the first                 *)
(* (trigramIndex.ts:454-491, 514-521, 576-582).                            *)
QuietScratch ==
    mode \in {"ready", "answered"} =>
        /\ bits = {}
        /\ scratch = "dense" =>
               \A e \in DOMAIN marks : marks[e].generation <= generationOf

(* The state is of its type: the tables have free slots and a bucket for   *)
(* each hash, every posting has one, and what is touched is marked.        *)
TrigramTypeOK ==
    /\ mode \in {"building", "ready", "scoring", "answered"}
    /\ 2 * Taken(charSlots) <= Cardinality(DOMAIN charSlots)
    /\ \A s \in DOMAIN slots : slots[s] \in 0 .. Len(hashes)
    /\ 2 * Len(hashes) <= Cardinality(DOMAIN slots)
    /\ Len(last) = Len(hashes)
    /\ \A i \in DOMAIN posts : posts[i].bucket \in DOMAIN hashes
    /\ generationOf \in 0 .. LastGeneration
    /\ scratch \in {"none", "dense", "sparse"}
    /\ Range(touched) \subseteq DOMAIN marks
    /\ bits \subseteq Range(touched)
    /\ OneBucketEach
    /\ QuietScratch

\* How many trigrams of the query an entity has.
AddedWith(e, hash) == {i \in DOMAIN added : added[i].entity = e /\ hash \in added[i].hashes}
Score(e) == Cardinality({t \in DOMAIN asked : AddedWith(e, asked[t]) # {}})
Best == CHOOSE m \in 0 .. Len(asked) :
            /\ \A e \in Entities : Score(e) <= m
            /\ m = 0 \/ \E e \in Entities : Score(e) = m

\* The entities that miss at most one of them and are near the best.
Qualifies(e) ==
    /\ Score(e) >= 1
    /\ Score(e) >= Len(asked) - 1
    /\ Score(e) * query.ratio.den >= Best * query.ratio.num

\* An entity comes first by its score, by which of the first two trigrams it
\* has, and by when it was added with it.
Least(m, n) == IF m < n THEN m ELSE n
FirstHit(e) ==
    IF AddedWith(e, asked[1]) # {} THEN 1 ELSE 2
FirstAdded(e) ==
    CHOOSE i \in AddedWith(e, asked[FirstHit(e)]) :
        \A j \in AddedWith(e, asked[FirstHit(e)]) : i <= j
Before(d, e) ==
    \/ Score(d) > Score(e)
    \/ Score(d) = Score(e) /\ FirstHit(d) < FirstHit(e)
    \/ /\ Score(d) = Score(e) /\ FirstHit(d) = FirstHit(e)
       /\ FirstAdded(d) < FirstAdded(e)

(* A search returns, of what was added, the entities that have all         *)
(* trigrams of the query but one and are near enough to the best, with     *)
(* their scores, best first, and no others, although only two lists admit  *)
(* candidates, whatever earlier queries left in the scratch                *)
(* (trigramIndex.ts:304-433, 576-582).                                     *)
SearchIsExact ==
    mode = "answered" =>
        LET qualified == {e \in Entities : Qualifies(e)}
            given == {result[i].idx : i \in DOMAIN result}
        IN  /\ Len(result) = Least(query.limit, Cardinality(qualified))
            /\ \A i \in DOMAIN result :
                   /\ result[i].idx \in qualified
                   /\ result[i].score = Score(result[i].idx)
                   /\ \A j \in 1 .. i - 1 : Before(result[j].idx, result[i].idx)
                   /\ \A e \in qualified \ given : Before(result[i].idx, e)
=============================================================================

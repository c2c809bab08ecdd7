-------------------------- MODULE StringDictionary --------------------------
(***************************************************************************)
(* StringDictionary: the strings of a dictionary-encoded column, stored in *)
(* the order of their ids, and the open-addressing hash table that finds   *)
(* the id of a string.                                                     *)
(*                                                                         *)
(* getOrAdd looks under the read lock and inserts under the write lock;    *)
(* getOrAddBulk holds the write lock from its first string to its last.    *)
(* The offset file and the payload file are one sequence of slots: a slot  *)
(* holds a string once its offset is written and the canary until then.    *)
(* A dictionary with files outlives its process: Restart is the death of   *)
(* the process, possibly in the middle of an insertion, and the recovery   *)
(* by the constructor.  Ids are 0-based, slots are 1-based.                *)
(***************************************************************************)
EXTENDS Integers, Sequences, SequencesExt, FiniteSetsExt, Folds

CONSTANTS
    Threads,
    Strings,          \* the non-empty strings
    EmptyString,
    Canary,
    Hash,             \* string -> hash_string
    InitialCapacity,  \* of the hash table, a power of two (256 in the code)
    GrowSlots,        \* slots that one more piece of storage has (1024 pages)
    MaxBatch,         \* bound: strings of one getOrAddBulk
    RepeatFirst       \* may a bulk that fills an empty dictionary repeat its first string

ASSUME StringDictionaryAssumption ==
    /\ EmptyString \notin Strings
    /\ Canary \notin Strings \cup {EmptyString}
    /\ Hash \in [Strings -> Nat]
    /\ \E e \in 1 .. 31 : InitialCapacity = 2^e
    /\ GrowSlots \in Nat \ {0}
    /\ MaxBatch \in Nat
    /\ RepeatFirst \in BOOLEAN

INVALID_STR_ID == -1
NullId == -2          \* inline_int_null_value
Nobody == "nobody"

VARIABLES
    offset_map,          \* the slots
    str_count,
    table,               \* string_id_string_dict_hash_table_
    hash_cache,
    materialize_hashes,  \* option of the dictionary
    parallel,            \* g_enable_stringdict_parallel
    missed,              \* thread -> the string its getOrAdd did not find
    cell                 \* <<string, id>>: an answer that some column keeps

NoCell == <<EmptyString, NullId>>

dictVars == <<offset_map, str_count, table, hash_cache>>
optVars == <<materialize_hashes, parallel>>
vars == <<dictVars, optVars, missed, cell>>

Repeat(x, n) == [i \in 1 .. n |-> x]
NewTable(n) == [b \in 0 .. n - 1 |-> INVALID_STR_ID]
NewHashes(n) == [i \in 0 .. n - 1 |-> 0]

\* The dictionary as a value, so that a bulk can fold over it.
Dict == [slots |-> offset_map, count |-> str_count, table |-> table,
         hashes |-> hash_cache]

\* A call returns; the first answer that is stored is followed from then on.
Returns(answers) == cell' \in {cell} \cup (IF cell = NoCell THEN answers ELSE {})

DictBecomes(d) ==
    /\ offset_map' = d.slots
    /\ str_count' = d.count
    /\ table' = d.table
    /\ hash_cache' = d.hashes
-----------------------------------------------------------------------------
(* The hash table.                                                          *)

\* The first bucket from the hash on, with wrap around, that is free or whose id
\* Is(_) accepts.  The code loops for ever if there is none.
Probe(tab, hash, Is(_)) ==
    LET n == Cardinality(DOMAIN tab)
        At(i) == (hash + i) % n
        Stops(i) == tab[At(i)] = INVALID_STR_ID \/ Is(tab[At(i)])
    IN  At(CHOOSE i \in 0 .. n - 1 : Stops(i) /\ \A j \in 0 .. i - 1 : ~Stops(j))

computeUniqueBucketWithHash(tab, hash) == Probe(tab, hash, LAMBDA c : FALSE)

SameHash(d, s, c) == materialize_hashes => d.hashes[c] = Hash[s]

computeBucket(d, s) ==
    Probe(d.table, Hash[s], LAMBDA c : SameHash(d, s, c) /\ d.slots[c + 1] = s)

fillRateIsHigh(d) == Cardinality(DOMAIN d.table) <= d.count * 2

\* The table of n buckets that holds ids 0, 1, ... for the hashes in that order.
Rehash(hashes, n) ==
    FoldLeft(LAMBDA tab, i : [tab EXCEPT ![computeUniqueBucketWithHash(tab, hashes[i])] = i - 1],
             NewTable(n), [i \in 1 .. Len(hashes) |-> i])

\* (mutant of increaseHashTableCapacity) the hash cache keeps its size
increaseTableOnly(d, known) ==
    [d EXCEPT !.table = Rehash([i \in 1 .. Len(known) |-> Hash[known[i]]],
                               2 * Cardinality(DOMAIN @))]

\* increaseHashTableCapacity, and the variant for a bulk whose new strings are
\* still in memory: known is the strings with ids so far, wherever they are.
increaseHashTableCapacity(d, known) ==
    LET hashes == [i \in 1 .. Len(known) |->
                      IF materialize_hashes THEN d.hashes[i - 1] ELSE Hash[known[i]]]
        n == Cardinality(DOMAIN d.hashes)
    IN  [d EXCEPT !.table = Rehash(hashes, 2 * Cardinality(DOMAIN @)),
                  !.hashes = IF materialize_hashes
                             THEN [i \in 0 .. 2 * n - 1 |-> IF i < n THEN @[i] ELSE 0]
                             ELSE @]

Stored(d) == SubSeq(d.slots, 1, d.count)

\* String s gets the next id in bucket b; its storage is written apart.
Index(d, s, b) ==
    [d EXCEPT !.table[b] = d.count,
              !.hashes = IF materialize_hashes THEN [@ EXCEPT ![d.count] = Hash[s]] ELSE @,
              !.count = @ + 1]
-----------------------------------------------------------------------------
(* Storage.                                                                 *)

\* appendToStorage and appendToStorageBulk: list goes to the slots from count on,
\* after canaries are added when they would not leave one behind it.
appendToStorage(slots, count, list) ==
    LET need == Len(list) - (Len(slots) - count)
        wide == IF count + Len(list) >= Len(slots)
                THEN slots \o Repeat(Canary, Max({GrowSlots, need + 1}))
                ELSE slots
    IN  [i \in 1 .. Len(wide) |->
            IF i \in count + 1 .. count + Len(list) THEN list[i - count] ELSE wide[i]]

\* The binary search for the first canary.
getNumStringsFromStorage(slots) ==
    LET RECURSIVE Search(_, _, _)
        Search(min_bound, max_bound, guess) ==
            IF min_bound > max_bound THEN guess + (IF min_bound > guess THEN 1 ELSE 0)
            ELSE LET mid == (max_bound + min_bound) \div 2
                 IN  IF slots[mid + 1] = Canary THEN Search(min_bound, mid - 1, mid)
                     ELSE Search(mid + 1, max_bound, mid)
    IN  Search(0, Len(slots) - 1, 0)

round_up_p2(n) == 2 ^ (CHOOSE e \in 0 .. n : 2 ^ e >= n /\ (e > 0 => 2 ^ (e - 1) < n))

\* The constructor with recover: the object for the strings in storage.
Recover(slots) ==
    LET count == getNumStringsFromStorage(slots)
        max_entries == Max({round_up_p2(2 * count + 1), round_up_p2(InitialCapacity)})
        hashes == [i \in 1 .. count |-> Hash[slots[i]]]
        cache == NewHashes(IF materialize_hashes THEN max_entries \div 2
                           ELSE InitialCapacity)
    IN  [slots |-> slots, count |-> count, table |-> Rehash(hashes, max_entries),
         hashes |-> [i \in DOMAIN cache |->
                        IF materialize_hashes /\ i < count THEN hashes[i + 1] ELSE 0]]
-----------------------------------------------------------------------------
(* getOrAdd.                                                                *)

\* Under the read lock.
Lookup(t, s) ==
    LET id == table[computeBucket(Dict, s)]
    IN  /\ missed[t] = Nobody
        /\ IF id # INVALID_STR_ID
           THEN Returns({<<s, id>>}) /\ UNCHANGED missed
           ELSE missed' = [missed EXCEPT ![t] = s] /\ UNCHANGED cell
        /\ UNCHANGED <<dictVars, optVars>>

\* (mutant of Inserted) the bucket is not looked at again under the write lock
InsertedUnchecked(s) ==
    LET d == IF fillRateIsHigh(Dict) THEN increaseHashTableCapacity(Dict, Stored(Dict))
             ELSE Dict
        b == computeUniqueBucketWithHash(d.table, Hash[s])
    IN  Index([d EXCEPT !.slots = appendToStorage(@, d.count, <<s>>)], s, b)

\* The object after the write-locked part of getOrAddImpl.
Inserted(s) ==
    LET d == IF fillRateIsHigh(Dict) THEN increaseHashTableCapacity(Dict, Stored(Dict))
             ELSE Dict
        b == computeBucket(d, s)
    IN  IF d.table[b] # INVALID_STR_ID THEN d
        ELSE Index([d EXCEPT !.slots = appendToStorage(@, d.count, <<s>>)], s, b)

\* Under the write lock.
Insert(t) ==
    LET s == missed[t]
        d == Inserted(s)
    IN  /\ s # Nobody
        /\ DictBecomes(d)
        /\ Returns({<<s, d.table[computeBucket(d, s)]>>})
        /\ missed' = [missed EXCEPT ![t] = Nobody]
        /\ UNCHANGED optVars
-----------------------------------------------------------------------------
(* getOrAddBulk.  A fold over the batch: d is the object so far, ids the    *)
(* answers and mem the new strings that are not in storage yet.             *)

Answer(acc, id) == [acc EXCEPT !.ids = Append(@, id)]

\* One string on the single-thread path.
AddSerial(acc, s) ==
    IF s = EmptyString THEN Answer(acc, NullId)
    ELSE LET found == acc.d.table[computeBucket(acc.d, s)]
             d == IF fillRateIsHigh(acc.d)
                  THEN increaseHashTableCapacity(acc.d, Stored(acc.d)) ELSE acc.d
         IN  IF found # INVALID_STR_ID THEN Answer(acc, found)
             ELSE [Answer(acc, d.count) EXCEPT
                      !.d = Index([d EXCEPT !.slots = appendToStorage(@, d.count, <<s>>)],
                                  s, computeBucket(d, s))]

\* A candidate id from the high water mark str_count on is in memory, except id 0,
\* which is looked up in storage even then.
computeBucketFromStorageAndMemory(d, s, mem) ==
    Probe(d.table, Hash[s],
          LAMBDA c : /\ SameHash(d, s, c)
                     /\ IF c > 0 /\ c >= str_count THEN mem[c - str_count + 1] = s
                        ELSE d.slots[c + 1] = s)

\* (mutant of AddParallel) the answer for a new string is the increased count
AddParallelCounted(acc, s) ==
    IF s = EmptyString THEN Answer(acc, NullId)
    ELSE LET d == IF fillRateIsHigh(acc.d)
                  THEN increaseHashTableCapacity(acc.d, Stored(Dict) \o acc.mem)
                  ELSE acc.d
             b == computeBucketFromStorageAndMemory(d, s, acc.mem)
         IN  IF d.table[b] # INVALID_STR_ID
             THEN [Answer(acc, d.table[b]) EXCEPT !.d = d]
             ELSE [Answer(acc, d.count + 1) EXCEPT !.d = Index(d, s, b),
                                                   !.mem = Append(@, s)]

\* One string on the parallel path.
AddParallel(acc, s) ==
    IF s = EmptyString THEN Answer(acc, NullId)
    ELSE LET d == IF fillRateIsHigh(acc.d)
                  THEN increaseHashTableCapacity(acc.d, Stored(Dict) \o acc.mem)
                  ELSE acc.d
             b == computeBucketFromStorageAndMemory(d, s, acc.mem)
         IN  IF d.table[b] # INVALID_STR_ID
             THEN [Answer(acc, d.table[b]) EXCEPT !.d = d]
             ELSE [Answer(acc, d.count) EXCEPT !.d = Index(d, s, b),
                                               !.mem = Append(@, s)]

Bulk(batch) ==
    LET start == [d |-> Dict, ids |-> <<>>, mem |-> <<>>]
        end == FoldLeft(AddParallel, start, batch)
    IN  IF parallel
        THEN [end EXCEPT !.d.slots = appendToStorage(@, str_count, end.mem)]
        ELSE FoldLeft(AddSerial, start, batch)

Batches == {batch \in BoundedSeq(Strings \cup {EmptyString}, MaxBatch) : batch # <<>>}

FirstRepeats(batch) ==
    LET known == SelectSeq(batch, LAMBDA s : s # EmptyString)
    IN  \E i \in 2 .. Len(known) : known[i] = known[1]

MayAdd(batch) == (parallel /\ str_count = 0 /\ FirstRepeats(batch)) => RepeatFirst

getOrAddBulk(batch) ==
    LET end == Bulk(batch)
    IN  /\ MayAdd(batch)
        /\ DictBecomes(end.d)
        /\ Returns({<<batch[i], end.ids[i]>> : i \in DOMAIN batch})
        /\ UNCHANGED <<optVars, missed>>
-----------------------------------------------------------------------------
(* The process dies, when the first strings of an insertion, new, are in    *)
(* storage (none: at any other time), and a new one opens the files.        *)

NewStrings == {new \in BoundedSeq(Strings, MaxBatch) : IsInjective(new)}

Restart(new) ==
    /\ ToSet(new) \cap ToSet(Stored(Dict)) = {}
    /\ DictBecomes(Recover(appendToStorage(offset_map, str_count, new)))
    /\ missed' = [t \in Threads |-> Nobody]
    /\ UNCHANGED <<optVars, cell>>
-----------------------------------------------------------------------------
Init ==
    /\ offset_map = Repeat(Canary, GrowSlots)
    /\ str_count = 0
    /\ table = NewTable(InitialCapacity)
    /\ hash_cache = NewHashes(InitialCapacity)
    /\ materialize_hashes \in BOOLEAN
    /\ parallel \in BOOLEAN
    /\ missed = [t \in Threads |-> Nobody]
    /\ cell = NoCell

Next ==
    \/ \E t \in Threads, s \in Strings : Lookup(t, s)
    \/ \E t \in Threads : Insert(t)
    \/ \E batch \in Batches : getOrAddBulk(batch)
    \/ \E new \in NewStrings : Restart(new)

Spec == Init /\ [][Next]_vars
-----------------------------------------------------------------------------
Ids == 0 .. str_count - 1

\* Every probe of computeBucket ends: growing before an insertion (and the size
\* that recovery chooses) always leaves a free bucket, also inside a bulk.  And
\* hash_cache_ has the hash of every string, at an index it has room for, after any
\* number of rehashes and recoveries, whose sizes differ.
TableReady ==
    /\ \E b \in DOMAIN table : table[b] = INVALID_STR_ID
    /\ materialize_hashes =>
          \A id \in Ids : id \in DOMAIN hash_cache /\ hash_cache[id] = Hash[offset_map[id + 1]]

\* An id that getOrAdd or getOrAddBulk returned, and that was stored in a column,
\* names the string it was asked for from then on, across rehashes, other threads'
\* insertions and restarts.
CellHolds ==
    IF cell[1] = EmptyString THEN cell[2] = NullId
    ELSE cell[2] \in Ids /\ offset_map[cell[2] + 1] = cell[1]

\* The strings in storage and what a lookup finds for each string are those of
\* the abstract dictionary: nothing is lost, renumbered or given two ids.
Abstract ==
    INSTANCE Dictionary WITH
        strs <- Stored(Dict),
        ids <- [s \in Strings |-> table[computeBucket(Dict, s)]]

IsDictionary == Abstract!Spec
=============================================================================

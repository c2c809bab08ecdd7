------------------------- MODULE HashtableRecycler --------------------------
(***************************************************************************)
(* HashtableRecycler with its CacheMetricTracker, for one item type on the *)
(* CPU device (the only device that is used): the cache of join hash       *)
(* tables, keyed by the hash of the query plan that builds them.           *)
(*                                                                         *)
(* Each operation holds cache_lock_ from its first access to its last, so  *)
(* each is one action.  The size of a hash table is a function of its key, *)
(* the time it took to build is not.  A metric is shared between the item  *)
(* and the tracker (shared_ptr), hence one record per key.                 *)
(***************************************************************************)
EXTENDS Integers, Sequences, SequencesExt, FiniteSetsExt

CONSTANTS
    Keys,            \* plan hashes other than EMPTY_HASHED_PLAN_DAG_KEY
    ItemSize,        \* key -> size of its hash table
    Times,           \* compute times
    TotalCacheSize,  \* total_cache_size_
    MaxItemSize,     \* max_cache_item_size_
    TestEnv,         \* g_is_test_env
    MaxRefs          \* bound: how often an item is recycled

\* The constructor of CacheMetricTracker lowers the item limit to the total.
ASSUME RecyclerAssumption ==
    /\ ItemSize \in [Keys -> Nat \ {0}]
    /\ Times \subseteq Nat
    /\ TotalCacheSize \in Nat
    /\ MaxItemSize \in Nat /\ MaxItemSize <= TotalCacheSize
    /\ TestEnv \in BOOLEAN
    /\ MaxRefs \in Nat

VARIABLES
    cached_items,        \* the keys of the CachedItemContainer, in its order
    cache_metrics,       \* the keys of the tracker's metrics, in their order
    metric,              \* the metric objects
    current_cache_size,
    failed               \* how the process ended, "no" while it runs

vars == <<cached_items, cache_metrics, metric, current_cache_size, failed>>

NoMetric == [ref |-> 0, time |-> 0]

HasItem(k) == \E i \in 1 .. Len(cached_items) : cached_items[i] = k
HasMetric(k) == \E i \in 1 .. Len(cache_metrics) : cache_metrics[i] = k

\* The order of sortCacheInfoByQueryMetric and sortCacheContainerByQueryMetric:
\* references first, then size, then compute time.
LessUseful(j, k) ==
    \/ metric[j].ref < metric[k].ref
    \/ /\ metric[j].ref = metric[k].ref
       /\ \/ ItemSize[j] < ItemSize[k]
          \/ ItemSize[j] = ItemSize[k] /\ metric[j].time < metric[k].time

\* (mutant of Sorted) the comparison is the wrong way round
SortedDown(s, keys) ==
    /\ s \in SetToSeqs(ToSet(keys))
    /\ \A i \in 1 .. Len(s) - 1 : ~LessUseful(s[i], s[i + 1])

\* s is keys as std::sort may leave it: it is free to order equal elements.
Sorted(s, keys) ==
    /\ s \in SetToSeqs(ToSet(keys))
    /\ \A i \in 1 .. Len(s) - 1 : ~LessUseful(s[i + 1], s[i])

SizeOf(keys) == FoldLeft(LAMBDA sum, k : sum + ItemSize[k], 0, keys)
SizeOfFirst(keys, n) == SizeOf(SubSeq(keys, 1, n))

\* canAddItem
TooLarge(k) == ItemSize[k] > MaxItemSize \/ current_cache_size > TotalCacheSize
FitsNow(k) == current_cache_size + ItemSize[k] <= TotalCacheSize

\* calculateRequiredSpaceForItemAddition, raised to half the cache so that there
\* are not too many cleanups
RequiredSize(k) ==
    LET required == ItemSize[k] - (TotalCacheSize - current_cache_size)
    IN  IF ~TestEnv /\ required < TotalCacheSize \div 2
        THEN TotalCacheSize \div 2 ELSE required

\* (mutant of TargetOffset) the target that makes the sum large enough is left out
TargetOffsetShort(metrics, required) ==
    LET enough == {i \in 1 .. Len(metrics) : SizeOfFirst(metrics, i) > required}
    IN  IF enough = {} THEN Len(metrics) ELSE Min(enough) - 1

\* elimination_target_offset: as many of the metrics as exceed the required size
TargetOffset(metrics, required) ==
    LET enough == {i \in 1 .. Len(metrics) : SizeOfFirst(metrics, i) > required}
    IN  IF enough = {} THEN Len(metrics) ELSE Min(enough)

\* the CHECK_LE of updateCurrentCacheSize fails
Overdrawn(removed) == removed > current_cache_size
-----------------------------------------------------------------------------
Init ==
    /\ cached_items = <<>>
    /\ cache_metrics = <<>>
    /\ metric = [k \in Keys |-> NoMetric]
    /\ current_cache_size = 0
    /\ failed = "no"

\* getItemFromCache finds an item.
GetItemFromCache(k) ==
    /\ failed = "no"
    /\ HasItem(k)
    /\ metric[k].ref < MaxRefs
    /\ metric' = [metric EXCEPT ![k].ref = @ + 1]
    /\ UNCHANGED <<cached_items, cache_metrics, current_cache_size, failed>>

\* (mutant of Insert) putNewCacheItemMetric does not look for a metric of the key
InsertNewMetric(k, time, items, metrics, size) ==
    /\ cached_items' = Append(items, k)
    /\ cache_metrics' = Append(metrics, k)
    /\ metric' = [metric EXCEPT ![k] = [ref |-> 1, time |-> time]]
    /\ current_cache_size' = size + ItemSize[k]
    /\ UNCHANGED failed

\* The end of putItemToCache, after items and metrics are as cleanup left them:
\* a metric that is there for the key is used again, and setCurrentCacheSize
\* returns without a word when the sum is too large.
Insert(k, time, items, metrics, size) ==
    /\ cached_items' = Append(items, k)
    /\ IF HasMetric(k)
       THEN /\ cache_metrics' = metrics
            /\ UNCHANGED metric
       ELSE /\ cache_metrics' = Append(metrics, k)
            /\ metric' = [metric EXCEPT ![k] = [ref |-> 1, time |-> time]]
    /\ current_cache_size' =
          IF size + ItemSize[k] > TotalCacheSize THEN size ELSE size + ItemSize[k]
    /\ UNCHANGED failed

PutItemToCache(k, time) ==
    /\ failed = "no"
    /\ ~HasItem(k)
    /\ ~TooLarge(k)
    /\ FitsNow(k)
    /\ Insert(k, time, cached_items, cache_metrics, current_cache_size)

\* putItemToCache with cleanupCacheForInsertion.  removeMetricFromBeginning erases
\* from a copy of the metrics, so they are sorted and otherwise stay as they are.
PutItemAfterCleanup(k, time) ==
    /\ failed = "no"
    /\ ~HasItem(k)
    /\ ~TooLarge(k)
    /\ ~FitsNow(k)
    /\ \E items \in SetToSeqs(ToSet(cached_items)),
          metrics \in SetToSeqs(ToSet(cache_metrics)) :
          /\ Sorted(items, cached_items)
          /\ Sorted(metrics, cache_metrics)
          /\ LET offset == TargetOffset(metrics, RequiredSize(k))
                 removed == SizeOfFirst(metrics, offset)
             IN  IF offset > Len(items) \/ Overdrawn(removed)
                 THEN /\ failed' = IF offset > Len(items) THEN "erase past the end"
                                   ELSE "CHECK_LE(size, *current_cache_size)"
                      /\ UNCHANGED <<cached_items, cache_metrics, metric,
                                     current_cache_size>>
                 ELSE Insert(k, time, SubSeq(items, offset + 1, Len(items)),
                             metrics, current_cache_size - removed)

\* clearCache and clearCacheMetricTracker
ClearCache ==
    /\ failed = "no"
    /\ cached_items # <<>>
    /\ cached_items' = <<>>
    /\ cache_metrics' = <<>>
    /\ metric' = [k \in Keys |-> NoMetric]
    /\ current_cache_size' = 0
    /\ UNCHANGED failed

Next ==
    \/ \E k \in Keys :
          \/ GetItemFromCache(k)
          \/ \E time \in Times : PutItemToCache(k, time) \/ PutItemAfterCleanup(k, time)
    \/ ClearCache

Spec == Init /\ [][Next]_vars
-----------------------------------------------------------------------------
\* A key is cached once, its metric is in the tracker once, and whatever is cached
\* has been referenced: the metrics that cleanups leave behind never make a
\* lookup or a cleanup see an item twice or miss its metric.
OneItemPerKey ==
    /\ \A i, j \in 1 .. Len(cached_items) : cached_items[i] = cached_items[j] => i = j
    /\ \A i, j \in 1 .. Len(cache_metrics) : cache_metrics[i] = cache_metrics[j] => i = j
    /\ \A i \in 1 .. Len(cached_items) :
          HasMetric(cached_items[i]) /\ metric[cached_items[i]].ref > 0

\* An item that is put is always counted: setCurrentCacheSize ignores a size that
\* is too large, but canAddItem and cleanupCacheForInsertion never let it be.  So
\* the size changes by what the cleanup counted, if anything, and by the new item.
PutIsCounted ==
    [][\A k \in Keys : ~HasItem(k) /\ HasItem(k)' =>
          \E n \in 0 .. Len(cache_metrics) :
             current_cache_size' = current_cache_size + ItemSize[k]
                                     - SizeOfFirst(cache_metrics', n)]_vars

\* A cleanup takes the least useful items: "if it is not that frequently reused it
\* is removed".  Nothing that stays is less useful than something that went.
LeastUsefulGo ==
    [][\A gone, kept \in ToSet(cached_items) :
          ~HasItem(gone)' /\ HasItem(kept)' => ~LessUseful(kept, gone)]_vars

\* The CHECK_LE of updateCurrentCacheSize, and the erase before it, never fail.
NeverFails == failed = "no"
=============================================================================

------------------------------ MODULE SlabPool ------------------------------
(***************************************************************************)
(* The slab allocator of Buffer_Namespace::BufferMgr: how one memory level *)
(* (CPU or one GPU) carves slabs into segments, grows them, gives pages to *)
(* buffers, evicts unpinned buffers and gives everything back.             *)
(*                                                                         *)
(* A slab is a list of BufferSegs in page order.  A buffer is named by its *)
(* chunk key: createBuffer refuses a second buffer for the same key.       *)
(*                                                                         *)
(* Atomicity.  findFreeBuffer runs with sized_segs_mutex_ held, so nobody  *)
(* else allocates, pins or deletes while its slab-growing loop is running  *)
(* (busy = "reserve"); creating an index entry and unpinning take other    *)
(* locks and interleave with it.  deleteBuffersWithPrefix holds that lock  *)
(* and the index lock for its whole loop (busy = "prefix").  clearSlabs    *)
(* holds none, but its caller excludes queries (busy = "clear"): only      *)
(* unpinning, by the owners of earlier results, interleaves with its walk. *)
(***************************************************************************)
EXTENDS Integers, Sequences, FiniteSets

CONSTANTS
    ChunkKeys,      \* keys of cached chunks, found again through getBuffer
    AllocKeys,      \* keys {-1, id} of the scratch buffers of alloc()
    NoKey,          \* the null buffer pointer of a segment
    MaxPoolPages,   \* max_buffer_pool_num_pages_
    MaxSlabPages,   \* max_num_pages_per_slab_
    MinSlabPages,   \* min_num_pages_per_slab_
    MaxRequest,     \* bound: the largest number of pages anybody asks for
    MaxPins,        \* bound: pins one buffer can have
    EpochMod        \* buffer_epoch_ is an unsigned int: it wraps at EpochMod

Keys == ChunkKeys \cup AllocKeys

\* The CHECKs of the BufferMgr constructor, and what makes the bounds usable.
ASSUME PoolAssumption ==
    /\ MaxPoolPages \in Nat \ {0}
    /\ MinSlabPages \in Nat \ {0}
    /\ MaxSlabPages \in Nat
    /\ MinSlabPages <= MaxSlabPages
    /\ MaxRequest \in Nat
    /\ MaxPins \in Nat \ {0}
    /\ EpochMod \in Nat \ {0}
    /\ NoKey \notin Keys
    /\ ChunkKeys \cap AllocKeys = {}

VARIABLES
    slab_segments,              \* one segment list per slab
    unsized_segs,               \* keys whose segment is in no slab yet
    chunk_index,                \* key -> slab of its segment, Unsized, NotIndexed
    pins,                       \* pin_count_ of the buffer of each key
    creating,                   \* keys between the two halves of createBuffer
    num_pages_allocated,
    current_max_slab_page_size,
    allocations_capped,
    buffer_epoch,
    busy,                       \* which long operation is running
    req,                        \* the reservation findFreeBuffer works on
    sweep,                      \* keys deleteBuffersWithPrefix has still to visit
    walk                        \* where clearSlabs is

poolVars == <<num_pages_allocated, current_max_slab_page_size, allocations_capped>>
taskVars == <<busy, req, sweep, walk>>
vars == <<slab_segments, unsized_segs, chunk_index, pins, creating, poolVars,
          buffer_epoch, taskVars>>

NotIndexed == -1
Unsized == 0
NoReq == [key |-> NoKey, pages |-> 0]
NoWalk == [slab |-> 1, seg |-> 1, pinned |-> FALSE]

Seg == [start : Nat, num : Nat, status : {"FREE", "USED"},
        buffer : Keys \cup {NoKey}, touched : Nat]

-----------------------------------------------------------------------------
(* Segment lists.                                                          *)

FreeSeg(start, num) ==
    [start |-> start, num |-> num, status |-> "FREE", buffer |-> NoKey, touched |-> 0]

\* A segment just taken for a request: its buffer is filled in by the caller.
UsedSeg(start, num, touched) ==
    [start |-> start, num |-> num, status |-> "USED", buffer |-> NoKey,
     touched |-> touched]

IsFree(seg) == seg.status = "FREE"
End(seg) == seg.start + seg.num
SlabSize(list) == End(list[Len(list)])

\* The list with its elements lo..hi replaced by the elements of new.
Splice(list, lo, hi, new) ==
    [i \in 1 .. (Len(list) - (hi - lo + 1) + Len(new)) |->
        IF i < lo THEN list[i]
        ELSE IF i < lo + Len(new) THEN new[i - lo + 1]
        ELSE list[i - Len(new) + (hi - lo + 1)]]

\* The pages a request leaves over, as zero or one free segment.
Rest(start, num) == IF num > 0 THEN <<FreeSeg(start, num)>> ELSE <<>>

\* findFreeBufferInSlab: the first free segment that is large enough, or none.
Fits(list, n) == {i \in 1 .. Len(list) : IsFree(list[i]) /\ list[i].num >= n}
FirstFit(list, n) == CHOOSE i \in Fits(list, n) : \A j \in Fits(list, n) : i <= j
TakeFree(list, i, n) ==
    Splice(list, i, i,
           <<UsedSeg(list[i].start, n, buffer_epoch)>>
              \o Rest(list[i].start + n, list[i].num - n))

\* (mutant of MergeHi) the last segment of the slab is never merged
MergeHiShort(list, i) ==
    IF i < Len(list) - 1 /\ IsFree(list[i + 1]) THEN i + 1 ELSE i

\* removeSegment for a segment of a slab: free it and merge it with free neighbours.
MergeLo(list, i) == IF i > 1 /\ IsFree(list[i - 1]) THEN i - 1 ELSE i
MergeHi(list, i) == IF i < Len(list) /\ IsFree(list[i + 1]) THEN i + 1 ELSE i
RemoveSegment(list, i) ==
    LET lo == MergeLo(list, i)
        hi == MergeHi(list, i)
        before == IF lo < i THEN list[lo].num ELSE 0
        after == IF hi > i THEN list[hi].num ELSE 0
    IN  Splice(list, lo, hi, <<FreeSeg(list[lo].start, before + list[i].num + after)>>)

\* reserveBuffer, when the next segment is free and has the missing pages.
CanGrow(list, i, n) ==
    /\ i < Len(list)
    /\ IsFree(list[i + 1])
    /\ list[i + 1].num >= n - list[i].num
\* (mutant of Grow) the start_page of the next segment is not moved
GrowKeepsStart(list, i, n) ==
    Splice(list, i, i + 1,
           <<[list[i] EXCEPT !.num = n],
             [list[i + 1] EXCEPT !.num = list[i + 1].num - (n - list[i].num)]>>)

Grow(list, i, n) ==
    Splice(list, i, i + 1,
           <<[list[i] EXCEPT !.num = n],
             [list[i + 1] EXCEPT !.start = list[i].start + n,
                                 !.num = list[i + 1].num - (n - list[i].num)]>>)
-----------------------------------------------------------------------------
(* Finding segments to evict.                                              *)

IsPinned(seg) == seg.status = "USED" /\ pins[seg.buffer] > 0

\* (mutant of IsWindow) the pin counts are not looked at
IsWindowUnpinned(list, i, j, n) ==
    End(list[j]) - list[i].start >= n /\ list[j].start - list[i].start < n

\* (mutant of IsWindow) an exact fit is not enough
IsWindowStrict(list, i, j, n) ==
    /\ \A m \in i .. j : ~IsPinned(list[m])
    /\ End(list[j]) - list[i].start > n
    /\ list[j].start - list[i].start <= n

\* Segments i..j can be evicted for n pages, and i..j-1 are not enough.
IsWindow(list, i, j, n) ==
    /\ \A m \in i .. j : ~IsPinned(list[m])
    /\ End(list[j]) - list[i].start >= n
    /\ list[j].start - list[i].start < n

\* The places where findFreeBuffer can evict for n pages.  The search goes
\* through the slabs and through the segments of each, so a window is found
\* from its first segment on and ends at the first segment that makes n pages.
Windows(n) ==
    LET InSlab(s) ==
            LET list == slab_segments[s]
            IN  {w \in [slab : {s}, lo : 1 .. Len(list), hi : 1 .. Len(list)] :
                    w.lo <= w.hi /\ IsWindow(list, w.lo, w.hi, n)}
    IN  UNION {InSlab(s) : s \in 1 .. Len(slab_segments)}

\* The last_touched values the score of window w is the maximum of.
Touches(w) ==
    {slab_segments[w.slab][m].touched :
        m \in {i \in w.lo .. w.hi : ~IsFree(slab_segments[w.slab][i])}}

\* score(v) <= score(w), the score of a window without used segments being 0.
ScoresAtMost(v, w) == \A x \in Touches(v) : x = 0 \/ \E y \in Touches(w) : x <= y

\* v comes no later than w in the search.
FoundBy(v, w) == v.slab < w.slab \/ (v.slab = w.slab /\ v.lo <= w.lo)

\* (mutant of IsBest) score <= min_score: the last of the best windows wins
IsBestLast(w, n) ==
    \A v \in Windows(n) :
        ScoresAtMost(w, v) /\ (ScoresAtMost(v, w) => FoundBy(v, w))

\* The search replaces the best window only by one with a smaller score.
IsBest(w, n) ==
    \A v \in Windows(n) :
        ScoresAtMost(w, v) /\ (ScoresAtMost(v, w) => FoundBy(w, v))

Victims(w) ==
    {slab_segments[w.slab][m].buffer :
        m \in {i \in w.lo .. w.hi : ~IsFree(slab_segments[w.slab][i])}}

\* evict: the window becomes the new segment and, if pages are left, a free one
\* which is merged with the segment after the window when that is free.
EvictWindow(list, lo, hi, n) ==
    LET excess == End(list[hi]) - list[lo].start - n
        merge == excess > 0 /\ hi < Len(list) /\ IsFree(list[hi + 1])
        last == IF merge THEN hi + 1 ELSE hi
    IN  Splice(list, lo, last,
               <<UsedSeg(list[lo].start, n, buffer_epoch)>>
                  \o Rest(list[lo].start + n, End(list[last]) - list[lo].start - n))
-----------------------------------------------------------------------------
(* Where a buffer is.                                                      *)

Indexed(k) == chunk_index[k] # NotIndexed
PosOf(list, k) == CHOOSE i \in 1 .. Len(list) : list[i].buffer = k
SegOf(k) == slab_segments[chunk_index[k]][PosOf(slab_segments[chunk_index[k]], k)]
PagesOf(k) == IF chunk_index[k] > 0 THEN SegOf(k).num ELSE 0

\* slabs without the segment that holds k (unless it is in no slab)
Detach(slabs, k) ==
    IF chunk_index[k] > 0
    THEN [slabs EXCEPT ![chunk_index[k]] = RemoveSegment(@, PosOf(@, k))]
    ELSE slabs

\* slabs with k in the segment of slab s that was just taken
Attach(slabs, s, k) ==
    [slabs EXCEPT ![s] =
        [i \in 1 .. Len(slabs[s]) |->
            IF slabs[s][i].status = "USED" /\ slabs[s][i].buffer = NoKey
            THEN [slabs[s][i] EXCEPT !.buffer = k]
            ELSE slabs[s][i]]]

\* (mutant of MoveTo) evict forgets to erase its victims from chunk_index_
MoveToKeepsVictims(k, slabs, s, gone) ==
    /\ slab_segments' = Attach(Detach(slabs, k), s, k)
    /\ chunk_index' = [chunk_index EXCEPT ![k] = s]
    /\ pins' = pins
    /\ unsized_segs' = unsized_segs \ {k}
    /\ creating' = creating \ {k}
    /\ buffer_epoch' = (buffer_epoch + 1) % EpochMod

\* The end of reserveBuffer: k moves into the segment just taken in slab s, its
\* old segment is removed; the buffers in gone were evicted to make place.
MoveTo(k, slabs, s, gone) ==
    /\ slab_segments' = Attach(Detach(slabs, k), s, k)
    /\ chunk_index' = [q \in Keys |-> IF q = k THEN s
                                      ELSE IF q \in gone THEN NotIndexed
                                      ELSE chunk_index[q]]
    /\ pins' = [q \in Keys |-> IF q \in gone THEN 0 ELSE pins[q]]
    /\ unsized_segs' = unsized_segs \ {k}
    /\ creating' = creating \ {k}
    /\ buffer_epoch' = (buffer_epoch + 1) % EpochMod

\* deleteBuffer: the buffer of k, pinned or not, and its segment disappear.
Delete(k) ==
    /\ slab_segments' = Detach(slab_segments, k)
    /\ unsized_segs' = unsized_segs \ {k}
    /\ chunk_index' = [chunk_index EXCEPT ![k] = NotIndexed]
    /\ pins' = [pins EXCEPT ![k] = 0]

\* OutOfMemory leaves reserveBuffer: a buffer under construction is deleted by
\* createBuffer, an existing one stays as it was.
Fail(k) ==
    /\ IF k \in creating
       THEN Delete(k)
       ELSE UNCHANGED <<slab_segments, unsized_segs, chunk_index, pins>>
    /\ creating' = creating \ {k}
    /\ UNCHANGED buffer_epoch
-----------------------------------------------------------------------------
Init ==
    /\ slab_segments = <<>>
    /\ unsized_segs = {}
    /\ chunk_index = [k \in Keys |-> NotIndexed]
    /\ pins = [k \in Keys |-> 0]
    /\ creating = {}
    /\ num_pages_allocated = 0
    /\ current_max_slab_page_size = MaxSlabPages
    /\ allocations_capped = FALSE
    /\ buffer_epoch = 0
    /\ busy = "idle"
    /\ req = NoReq
    /\ sweep = {}
    /\ walk = NoWalk

\* The new entry of createBuffer and of createZeroCopyBuffer: a dummy segment
\* in no slab, and a buffer whose constructor pins it.
InsertUnsized(k) ==
    /\ busy \in {"idle", "reserve"}
    /\ ~Indexed(k)
    /\ unsized_segs' = unsized_segs \cup {k}
    /\ chunk_index' = [chunk_index EXCEPT ![k] = Unsized]
    /\ pins' = [pins EXCEPT ![k] = 1]
    /\ UNCHANGED <<slab_segments, poolVars, buffer_epoch, taskVars>>

\* createBuffer (also through alloc) up to the Buffer constructor; with a size,
\* the constructor goes on to reserve it.
CreateBuffer(k, sized) ==
    /\ InsertUnsized(k)
    /\ creating' = IF sized THEN creating \cup {k} ELSE creating

\* createZeroCopyBuffer: the memory belongs to the storage, no pages are needed.
CreateZeroCopyBuffer(k) ==
    /\ k \in ChunkKeys
    /\ InsertUnsized(k)
    /\ UNCHANGED creating

\* The getBuffer hit: pin and touch.
PinBuffer(k) ==
    /\ busy = "idle"
    /\ k \in ChunkKeys \ creating
    /\ Indexed(k)
    /\ pins[k] < MaxPins
    /\ pins' = [pins EXCEPT ![k] = @ + 1]
    /\ buffer_epoch' = (buffer_epoch + 1) % EpochMod
    /\ slab_segments' =
          IF chunk_index[k] > 0
          THEN [slab_segments EXCEPT
                  ![chunk_index[k]][PosOf(slab_segments[chunk_index[k]], k)].touched =
                      buffer_epoch]
          ELSE slab_segments
    /\ UNCHANGED <<unsized_segs, chunk_index, creating, poolVars, taskVars>>

\* unPin takes no lock of the manager.  The pin of a thread that is inside
\* createBuffer or reserveBuffer is not given back meanwhile.
UnpinBuffer(k) ==
    /\ k \in ChunkKeys \ creating
    /\ pins[k] > IF req.key = k THEN 1 ELSE 0
    /\ pins' = [pins EXCEPT ![k] = @ - 1]
    /\ UNCHANGED <<slab_segments, unsized_segs, chunk_index, creating, poolVars,
                   buffer_epoch, taskVars>>

\* free() of a buffer that alloc() made.
Free(k) ==
    /\ busy = "idle"
    /\ k \in AllocKeys \ creating
    /\ Indexed(k)
    /\ Delete(k)
    /\ UNCHANGED <<creating, poolVars, buffer_epoch, taskVars>>
-----------------------------------------------------------------------------
(* Buffer::reserve and reserveBuffer for n pages, by the thread that made   *)
(* or pinned the buffer of k.                                               *)

Reserves(k, n) ==
    /\ busy = "idle"
    /\ Indexed(k)
    /\ pins[k] > 0
    /\ n > PagesOf(k)

GrowsInPlace(k, n) ==
    /\ chunk_index[k] > 0
    /\ LET list == slab_segments[chunk_index[k]]
       IN  CanGrow(list, PosOf(list, k), n)

FitsSomewhere(n) == \E s \in 1 .. Len(slab_segments) : Fits(slab_segments[s], n) # {}
FirstSlab(n) ==
    CHOOSE s \in 1 .. Len(slab_segments) :
        /\ Fits(slab_segments[s], n) # {}
        /\ \A r \in 1 .. s - 1 : Fits(slab_segments[r], n) = {}

ReserveInPlace(k, n) ==
    /\ Reserves(k, n)
    /\ GrowsInPlace(k, n)
    /\ slab_segments' =
          [slab_segments EXCEPT ![chunk_index[k]] = Grow(@, PosOf(@, k), n)]
    /\ UNCHANGED <<unsized_segs, chunk_index, pins, creating, poolVars, buffer_epoch,
                   taskVars>>

\* findFreeBuffer throws TooBigForSlab.
ReserveTooBig(k, n) ==
    /\ Reserves(k, n)
    /\ ~GrowsInPlace(k, n)
    /\ n > MaxSlabPages
    /\ Fail(k)
    /\ UNCHANGED <<poolVars, taskVars>>

ReserveInFree(k, n) ==
    /\ Reserves(k, n)
    /\ ~GrowsInPlace(k, n)
    /\ n <= MaxSlabPages
    /\ FitsSomewhere(n)
    /\ LET s == FirstSlab(n)
           list == slab_segments[s]
       IN  MoveTo(k, [slab_segments EXCEPT ![s] = TakeFree(list, FirstFit(list, n), n)],
                  s, {})
    /\ UNCHANGED <<poolVars, taskVars>>

\* No free segment will do: findFreeBuffer enters its slab-growing loop.
ReserveSearches(k, n) ==
    /\ Reserves(k, n)
    /\ ~GrowsInPlace(k, n)
    /\ n <= MaxSlabPages
    /\ ~FitsSomewhere(n)
    /\ busy' = "reserve"
    /\ req' = [key |-> k, pages |-> n]
    /\ UNCHANGED <<slab_segments, unsized_segs, chunk_index, pins, creating, poolVars,
                   buffer_epoch, sweep, walk>>

-----------------------------------------------------------------------------
(* The loop of findFreeBuffer that adds slabs, and the eviction after it.   *)

MayAddSlabs == ~allocations_capped /\ num_pages_allocated < MaxPoolPages
PagesLeft == MaxPoolPages - num_pages_allocated

\* (mutant of SlabPages) the pages left in the pool are not looked at
SlabPagesUnbounded == current_max_slab_page_size

\* current_max_slab_page_size_ after the first lines of an iteration
SlabPages ==
    IF MayAddSlabs /\ PagesLeft < current_max_slab_page_size
    THEN PagesLeft ELSE current_max_slab_page_size

TriesSlab == busy = "reserve" /\ MayAddSlabs /\ req.pages <= SlabPages
GivesUpSlabs == busy = "reserve" /\ ~(MayAddSlabs /\ req.pages <= SlabPages)

SearchDone == busy' = "idle" /\ req' = NoReq /\ UNCHANGED <<sweep, walk>>

\* addSlab succeeds: the request takes the first pages of the new slab.
AddSlab ==
    /\ TriesSlab
    /\ MoveTo(req.key,
              Append(slab_segments, TakeFree(<<FreeSeg(0, SlabPages)>>, 1, req.pages)),
              Len(slab_segments) + 1, {})
    /\ num_pages_allocated' = num_pages_allocated + SlabPages
    /\ current_max_slab_page_size' = SlabPages
    /\ SearchDone
    /\ UNCHANGED allocations_capped

\* (mutant of AddSlabFails) too small a size starts again from the top, uncapped
AddSlabFailsResets ==
    /\ TriesSlab
    /\ LET half == SlabPages \div 2
           exact == req.pages > half /\ SlabPages # req.pages
       IN  current_max_slab_page_size' = IF exact THEN req.pages
                                         ELSE IF half < MinSlabPages THEN MaxSlabPages
                                         ELSE half
    /\ UNCHANGED <<slab_segments, unsized_segs, chunk_index, pins, creating,
                   num_pages_allocated, allocations_capped, buffer_epoch, taskVars>>

\* addSlab throws: try the size of the request once, else half the size, and
\* stop adding slabs for good when that is too small.
AddSlabFails ==
    /\ TriesSlab
    /\ LET half == SlabPages \div 2
           exact == req.pages > half /\ SlabPages # req.pages
       IN  /\ current_max_slab_page_size' = IF exact THEN req.pages ELSE half
           /\ allocations_capped' = (~exact /\ half < MinSlabPages)
    /\ UNCHANGED <<slab_segments, unsized_segs, chunk_index, pins, creating,
                   num_pages_allocated, buffer_epoch, taskVars>>

FirstSlabFailed == num_pages_allocated = 0 /\ allocations_capped

\* The loop is over: evict the buffers of the best window.
Evict ==
    /\ GivesUpSlabs
    /\ ~FirstSlabFailed
    /\ \E w \in Windows(req.pages) :
          /\ IsBest(w, req.pages)
          /\ MoveTo(req.key,
                    [slab_segments EXCEPT ![w.slab] =
                        EvictWindow(@, w.lo, w.hi, req.pages)],
                    w.slab, Victims(w))
    /\ current_max_slab_page_size' = SlabPages
    /\ SearchDone
    /\ UNCHANGED <<num_pages_allocated, allocations_capped>>

\* FailedToCreateFirstSlab or OutOfMemory.  With no slab at all the code reads
\* slab_segments_[0] of an empty vector; both reads give the same end iterator,
\* so that it throws OutOfMemory then too.
OutOfMemory ==
    /\ GivesUpSlabs
    /\ FirstSlabFailed \/ Windows(req.pages) = {}
    /\ Fail(req.key)
    /\ current_max_slab_page_size' = SlabPages
    /\ SearchDone
    /\ UNCHANGED <<num_pages_allocated, allocations_capped>>
-----------------------------------------------------------------------------
(* deleteBuffersWithPrefix: prefix is the set of the keys that begin with it. *)

PrefixBegin(prefix) ==
    /\ busy = "idle"
    /\ busy' = "prefix"
    /\ sweep' = {k \in prefix : Indexed(k)}
    /\ UNCHANGED <<slab_segments, unsized_segs, chunk_index, pins, creating, poolVars,
                   buffer_epoch, req, walk>>

\* One iteration: a pinned buffer is skipped, any other is deleted.
PrefixStep(k) ==
    /\ busy = "prefix"
    /\ k \in sweep
    /\ sweep' = sweep \ {k}
    /\ IF pins[k] # 0
       THEN UNCHANGED <<slab_segments, unsized_segs, chunk_index, pins>>
       ELSE Delete(k)
    /\ UNCHANGED <<creating, poolVars, buffer_epoch, busy, req, walk>>

PrefixEnd ==
    /\ busy = "prefix"
    /\ sweep = {}
    /\ busy' = "idle"
    /\ UNCHANGED <<slab_segments, unsized_segs, chunk_index, pins, creating, poolVars,
                   buffer_epoch, req, sweep, walk>>
-----------------------------------------------------------------------------
(* clearSlabs.                                                              *)

ClearBegin ==
    /\ busy = "idle"
    /\ creating = {}
    /\ busy' = "clear"
    /\ UNCHANGED <<slab_segments, unsized_segs, chunk_index, pins, creating, poolVars,
                   buffer_epoch, req, sweep, walk>>

\* The walk visits one segment: it deletes an unpinned buffer (the freed segment
\* may swallow its neighbours) and takes note of a pinned one.
ClearVisit ==
    /\ busy = "clear"
    /\ walk.slab <= Len(slab_segments)
    /\ walk.seg <= Len(slab_segments[walk.slab])
    /\ LET list == slab_segments[walk.slab]
           seg == list[walk.seg]
       IN  IF IsFree(seg) \/ IsPinned(seg)
           THEN /\ walk' = [walk EXCEPT !.seg = @ + 1, !.pinned = @ \/ IsPinned(seg)]
                /\ UNCHANGED <<slab_segments, unsized_segs, chunk_index, pins>>
           ELSE /\ Delete(seg.buffer)
                /\ walk' = [walk EXCEPT !.seg = MergeLo(list, @) + 1]
    /\ UNCHANGED <<creating, poolVars, buffer_epoch, busy, req, sweep>>

ClearNextSlab ==
    /\ busy = "clear"
    /\ walk.slab <= Len(slab_segments)
    /\ walk.seg > Len(slab_segments[walk.slab])
    /\ walk' = [walk EXCEPT !.slab = @ + 1, !.seg = 1]
    /\ UNCHANGED <<slab_segments, unsized_segs, chunk_index, pins, creating, poolVars,
                   buffer_epoch, busy, req, sweep>>

\* (mutant of ClearEnd) reinit is not called
ClearEndNoReinit ==
    /\ busy = "clear"
    /\ walk.slab > Len(slab_segments)
    /\ IF walk.pinned
       THEN UNCHANGED <<slab_segments, unsized_segs, chunk_index, pins, buffer_epoch>>
       ELSE /\ slab_segments' = <<>>
            /\ unsized_segs' = {}
            /\ chunk_index' = [k \in Keys |-> NotIndexed]
            /\ pins' = [k \in Keys |-> 0]
            /\ buffer_epoch' = 0
    /\ busy' = "idle"
    /\ walk' = NoWalk
    /\ UNCHANGED <<creating, poolVars, req, sweep>>

\* The end of the walk: freeAllMem, clear and reinit, unless it saw a pinned buffer.
ClearEnd ==
    /\ busy = "clear"
    /\ walk.slab > Len(slab_segments)
    /\ IF walk.pinned
       THEN UNCHANGED <<slab_segments, unsized_segs, chunk_index, pins, poolVars,
                        buffer_epoch>>
       ELSE /\ slab_segments' = <<>>
            /\ unsized_segs' = {}
            /\ chunk_index' = [k \in Keys |-> NotIndexed]
            /\ pins' = [k \in Keys |-> 0]
            /\ num_pages_allocated' = 0
            /\ current_max_slab_page_size' = MaxSlabPages
            /\ allocations_capped' = FALSE
            /\ buffer_epoch' = 0
    /\ busy' = "idle"
    /\ walk' = NoWalk
    /\ UNCHANGED <<creating, req, sweep>>
-----------------------------------------------------------------------------
Next ==
    \/ \E k \in Keys :
          \/ \E sized \in BOOLEAN : CreateBuffer(k, sized)
          \/ CreateZeroCopyBuffer(k)
          \/ PinBuffer(k)
          \/ UnpinBuffer(k)
          \/ Free(k)
          \/ \E n \in 1 .. MaxRequest :
                \/ ReserveInPlace(k, n)
                \/ ReserveTooBig(k, n)
                \/ ReserveInFree(k, n)
                \/ ReserveSearches(k, n)
          \/ PrefixStep(k)
    \/ AddSlab
    \/ AddSlabFails
    \/ Evict
    \/ OutOfMemory
    \/ \E prefix \in SUBSET ChunkKeys : PrefixBegin(prefix)
    \/ PrefixEnd
    \/ ClearBegin
    \/ ClearVisit
    \/ ClearNextSlab
    \/ ClearEnd

Spec == Init /\ [][Next]_vars

\* Inside findFreeBuffer a thread holds the lock and nothing makes it wait.
FairSpec == Spec /\ WF_vars(AddSlab \/ AddSlabFails \/ Evict \/ OutOfMemory)
-----------------------------------------------------------------------------
(* Properties.                                                              *)

\* Every variable has the type of the member or local variable it models.
TypeOK ==
    /\ slab_segments \in Seq(Seq(Seg))
    /\ unsized_segs \subseteq Keys
    /\ chunk_index \in [Keys -> Int]
    /\ pins \in [Keys -> Nat]
    /\ creating \subseteq Keys
    /\ num_pages_allocated \in Nat
    /\ current_max_slab_page_size \in Nat
    /\ allocations_capped \in BOOLEAN
    /\ buffer_epoch \in Nat
    /\ busy \in {"idle", "reserve", "prefix", "clear"}
    /\ req \in [key : Keys \cup {NoKey}, pages : Nat]
    /\ sweep \subseteq Keys
    /\ walk \in [slab : Nat \ {0}, seg : Nat \ {0}, pinned : BOOLEAN]

\* The segments of list cover the pages 0 .. SlabSize(list) - 1 once, in order.
Tiles(list) ==
    /\ Len(list) > 0
    /\ list[1].start = 0
    /\ \A i \in 1 .. Len(list) - 1 : list[i + 1].start = End(list[i])

\* Splitting, merging, growing and evicting segments neither loses a page of a
\* slab nor gives one to two segments: removeSegment, reserveBuffer,
\* findFreeBufferInSlab and evict each do their own arithmetic on start_page and
\* num_pages.
SegmentsTileSlabs == \A s \in 1 .. Len(slab_segments) : Tiles(slab_segments[s])

\* The slabs never take more pages than the pool may have and none is larger
\* than the slab size limit: the loop of findFreeBuffer shrinks the slab it asks
\* for to the pages left, and never asks for a larger one than it asked before.
PoolWithinLimits ==
    /\ num_pages_allocated <= MaxPoolPages
    /\ current_max_slab_page_size <= MaxSlabPages
    /\ \A s \in 1 .. Len(slab_segments) : SlabSize(slab_segments[s]) <= MaxSlabPages

\* chunk_index_ and the segments agree: each used segment belongs to exactly the
\* indexed buffer whose entry names its slab, and each entry without a slab has
\* its dummy segment.  A lookup after any eviction, move or deletion therefore
\* finds a live segment and the right one.
IndexMatchesSegments ==
    /\ unsized_segs = {k \in Keys : chunk_index[k] = Unsized}
    /\ \A s \in 1 .. Len(slab_segments) : \A i \in 1 .. Len(slab_segments[s]) :
          LET seg == slab_segments[s][i]
          IN  IF IsFree(seg) THEN seg.buffer = NoKey
              ELSE seg.buffer \in Keys /\ chunk_index[seg.buffer] = s
    /\ \A k \in Keys : chunk_index[k] > 0 =>
          /\ chunk_index[k] <= Len(slab_segments)
          /\ LET list == slab_segments[chunk_index[k]]
             IN  \E i \in 1 .. Len(list) :
                    /\ list[i].buffer = k
                    /\ \A j \in 1 .. Len(list) : list[j].buffer = k => j = i

\* Free pages never lie in two neighbouring segments, so that every free run can
\* be handed out whole: removeSegment merges on both sides, evict only with what
\* follows its window, and reserveBuffer leaves empty free segments behind.
FreeRunsMerged ==
    \A s \in 1 .. Len(slab_segments) : \A i \in 1 .. Len(slab_segments[s]) - 1 :
        ~(IsFree(slab_segments[s][i]) /\ IsFree(slab_segments[s][i + 1]))

\* evict does not merge its window with what is before it: "We can assume here
\* that buffer for evictStart either doesn't exist (evictStart is first buffer) or
\* was not free".  Nothing checks that; it holds because the search of
\* findFreeBuffer keeps the first of the windows with the lowest score.
EvictStartsRun ==
    [][\A k \in Keys :
          (/\ busy = "reserve" /\ req.key = k /\ busy' = "idle"
           /\ slab_segments' # slab_segments /\ chunk_index'[k] <= Len(slab_segments)) =>
          LET list == slab_segments[chunk_index'[k]]
          IN  ~ \E i \in 1 .. Len(list) : /\ IsFree(list[i])
                                         /\ list[i].num > 0
                                         /\ End(list[i]) = SegOf(k)'.start]_vars

\* A pinned buffer keeps its pages whatever the other threads do: they change
\* only when its owner grows it, and go only when its owner frees it.  Neither
\* eviction nor deletion by prefix nor clearing takes them away.
PinnedPagesKept ==
    [][\A k \in Keys : (pins[k] > 0 /\ chunk_index[k] > 0) =>
          \/ /\ chunk_index'[k] = chunk_index[k]
             /\ SegOf(k)'.start = SegOf(k).start
             /\ SegOf(k)'.num = SegOf(k).num
          \/ chunk_index'[k] > 0 /\ PagesOf(k)' > PagesOf(k)
          \/ k \in AllocKeys /\ chunk_index'[k] = NotIndexed]_vars

\* A request that ends without pages was refused for a reason: each slab large
\* enough for it holds a pinned buffer.  The bounded windows of the eviction
\* search and the loop's early exits never miss a slab that is free to use.
RefusedOnlyWhenPinned ==
    [][(busy = "reserve" /\ busy' = "idle" /\ slab_segments' = slab_segments) =>
          \A s \in 1 .. Len(slab_segments) :
              SlabSize(slab_segments[s]) >= req.pages =>
                  \E i \in 1 .. Len(slab_segments[s]) : IsPinned(slab_segments[s][i])]_vars

\* findFreeBuffer returns or throws: each failed addSlab brings its loop nearer
\* to a cap, an exact fit or a slab that is too small.
SearchEnds == busy = "reserve" ~> busy = "idle"
=============================================================================

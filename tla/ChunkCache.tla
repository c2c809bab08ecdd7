----------------------------- MODULE ChunkCache -----------------------------
(***************************************************************************)
(* BufferMgr::getBuffer and fetchBuffer: how concurrent queries get chunks *)
(* from the levels of the buffer pool.  Each GPU has a manager whose       *)
(* parent is the CPU manager, whose parent is the storage.  A miss creates *)
(* a buffer and asks the parent to fill it; a condition variable in        *)
(* in_progress_buffer_cvs_ makes the other requests for the chunk wait.    *)
(*                                                                         *)
(* A step is what a thread does between two points where it holds neither  *)
(* sized_segs_mutex_ nor chunk_index_mutex_.  Where a buffer lies in the   *)
(* slabs is SlabPool's business: here a reservation evicts any unpinned    *)
(* buffers that make it fit, or is refused.                                *)
(***************************************************************************)
EXTENDS Integers, FiniteSets, FiniteSetsExt

CONSTANTS
    Threads,
    Cpu,            \* the CPU manager
    Gpus,           \* the GPU managers
    Keys,           \* chunk keys
    Requests,       \* what queries ask for: <<manager, key, num_bytes in pages>>
    ZeroCopyKeys,   \* chunks whose memory the storage can hand out
    Capacity,       \* manager -> pages
    SafePages,      \* manager -> pages below which no request is refused
    MaxRequests,    \* bound: calls of getBuffer
    NoKey

Mgrs == {Cpu} \cup Gpus

ASSUME CacheAssumption ==
    /\ IsFiniteSet(Threads)
    /\ Cpu \notin Gpus
    /\ Requests \subseteq Mgrs \X Keys \X (Nat \ {0})
    /\ ZeroCopyKeys \subseteq Keys
    /\ NoKey \notin Keys
    /\ Capacity \in [Mgrs -> Nat]
    /\ SafePages \in [Mgrs -> Nat]
    /\ MaxRequests \in Nat

VARIABLES
    chunk_index,    \* manager -> keys of its chunk_index_
    live,           \* manager -> keys whose segment has a buffer
    pins,           \* manager -> key -> pin_count_
    pages,          \* manager -> key -> num_pages_
    size,           \* manager -> key -> size_
    in_progress,    \* manager -> keys of its in_progress_buffer_cvs_
    th,             \* thread -> its call of getBuffer
    left,           \* calls of getBuffer that may still come
    refused,        \* history: getBuffer was left by an exception
    failed          \* the check that ended the process, "no" while it runs

bufVars == <<chunk_index, live, pins, pages, size>>
vars == <<bufVars, in_progress, th, left, refused, failed>>

\* mgr, key and bytes are the arguments of getBuffer; at is the manager whose
\* code the thread is in (the CPU manager inside fetchBuffer); hit tells the
\* two calls of parent_mgr_->fetchBuffer in getBuffer apart.
Idle == [pc |-> "idle", mgr |-> Cpu, key |-> NoKey, bytes |-> 0, at |-> Cpu,
         hit |-> FALSE]

At(t, pc) == failed = "no" /\ th[t].pc = pc
Goto(t, pc) == th' = [th EXCEPT ![t].pc = pc]

\* A CHECK fails, a null pointer is followed, or LOG(FATAL): the process ends.
Abort(why) == failed' = why /\ UNCHANGED <<bufVars, in_progress, th, left, refused>>

\* getBuffer is left by an exception: nobody notifies or erases the condition
\* variable, and a pin taken stays.
Throw(t) ==
    /\ th' = [th EXCEPT ![t] = Idle]
    /\ refused' = TRUE
    /\ UNCHANGED <<in_progress, left, failed>>
-----------------------------------------------------------------------------
(* Memory.                                                                  *)

PagesOf(m, keys) == MapThenSumSet(LAMBDA q : pages[m][q], keys)
Pinned(m) == {q \in Keys : pins[m][q] > 0}

\* (mutant of Evictable) pinned buffers are not left alone
EvictableAny(m) == {q \in live[m] : pages[m][q] > 0}

Evictable(m) == {q \in live[m] : pins[m][q] = 0 /\ pages[m][q] > 0}

\* Evicting the buffers of gone makes place for k to have n pages.
MakesRoom(m, k, n, gone) ==
    /\ gone \subseteq Evictable(m) \ {k}
    /\ PagesOf(m, Keys \ (gone \cup {k})) + n <= Capacity[m]

MayRefuse(m, k, n) == PagesOf(m, Pinned(m) \ {k}) + n > SafePages[m]

\* The buffer of k at m gets n pages, the buffers in gone are evicted.
Reserve(m, k, n, gone) ==
    /\ chunk_index' = [chunk_index EXCEPT ![m] = @ \ gone]
    /\ live' = [live EXCEPT ![m] = (@ \ gone) \cup {k}]
    /\ pages' = [pages EXCEPT ![m] =
          [q \in Keys |-> IF q = k THEN n ELSE IF q \in gone THEN 0 ELSE @[q]]]

SizeAfter(m, k, n, gone) ==
    [q \in Keys |-> IF q = k THEN n ELSE IF q \in gone THEN 0 ELSE size[m][q]]

Victims(m, k, n) ==
    IF pages[m][k] >= n THEN {{}}
    ELSE {gone \in SUBSET Keys : MakesRoom(m, k, n, gone)}
-----------------------------------------------------------------------------
Init ==
    /\ chunk_index = [m \in Mgrs |-> {}]
    /\ live = [m \in Mgrs |-> {}]
    /\ pins = [m \in Mgrs |-> [k \in Keys |-> 0]]
    /\ pages = [m \in Mgrs |-> [k \in Keys |-> 0]]
    /\ size = [m \in Mgrs |-> [k \in Keys |-> 0]]
    /\ in_progress = [m \in Mgrs |-> {}]
    /\ th = [t \in Threads |-> Idle]
    /\ left = MaxRequests
    /\ refused = FALSE
    /\ failed = "no"

\* A query asks for a chunk (Chunk::getChunkBuffer, DataMgr::getChunkBuffer).
Request(t, m, k, n) ==
    /\ At(t, "idle")
    /\ left > 0
    /\ left' = left - 1
    /\ th' = [th EXCEPT ![t] = [pc |-> "look", mgr |-> m, key |-> k, bytes |-> n,
                                at |-> m, hit |-> FALSE]]
    /\ UNCHANGED <<bufVars, in_progress, refused, failed>>

\* getBuffer: another thread is initializing the buffer.
Wait(t) ==
    /\ At(t, "look")
    /\ th[t].key \in in_progress[th[t].mgr]
    /\ Goto(t, "wait")
    /\ UNCHANGED <<bufVars, in_progress, left, refused, failed>>

\* getBuffer: the buffer is there and is pinned; if it is too short the rest is
\* fetched with the condition variable in place.
Hit(t) ==
    LET m == th[t].mgr
        k == th[t].key
    IN  /\ At(t, "look")
        /\ k \notin in_progress[m]
        /\ k \in chunk_index[m]
        /\ IF k \notin live[m] THEN Abort("CHECK(buffer)")
           ELSE /\ pins' = [pins EXCEPT ![m][k] = @ + 1]
                /\ IF size[m][k] < th[t].bytes
                   THEN /\ in_progress' = [in_progress EXCEPT ![m] = @ \cup {k}]
                        /\ th' = [th EXCEPT ![t].pc = "fetch", ![t].hit = TRUE]
                   ELSE Goto(t, "held") /\ UNCHANGED in_progress
                /\ UNCHANGED <<chunk_index, live, pages, size, left, refused, failed>>

\* (mutant of Miss) the condition variable is not set
MissNoCv(t) ==
    LET m == th[t].mgr
    IN  /\ At(t, "look")
        /\ th[t].key \notin in_progress[m]
        /\ th[t].key \notin chunk_index[m]
        /\ Goto(t, "create")
        /\ UNCHANGED <<bufVars, in_progress, left, refused, failed>>

\* getBuffer: the buffer has to be made.
Miss(t) ==
    LET m == th[t].mgr
    IN  /\ At(t, "look")
        /\ th[t].key \notin in_progress[m]
        /\ th[t].key \notin chunk_index[m]
        /\ in_progress' = [in_progress EXCEPT ![m] = @ \cup {th[t].key}]
        /\ Goto(t, "create")
        /\ UNCHANGED <<bufVars, left, refused, failed>>

\* createBuffer and createZeroCopyBuffer, the part under chunk_index_mutex_.
Create(t) ==
    LET m == th[t].at
        k == th[t].key
    IN  /\ At(t, "create")
        /\ IF k \in chunk_index[m] THEN Abort("CHECK(not in chunk_index)")
           ELSE /\ chunk_index' = [chunk_index EXCEPT ![m] = @ \cup {k}]
                /\ Goto(t, "construct")
                /\ UNCHANGED <<live, pins, pages, size, in_progress, left, refused, failed>>


ZeroCopy(t) == th[t].mgr = Cpu /\ th[t].key \in ZeroCopyKeys

\* allocateZeroCopyBuffer: the constructor takes the memory of the storage.
ConstructZeroCopy(t) ==
    LET k == th[t].key
    IN  /\ At(t, "construct")
        /\ ZeroCopy(t)
        /\ live' = [live EXCEPT ![Cpu] = @ \cup {k}]
        /\ pins' = [pins EXCEPT ![Cpu][k] = 1]
        /\ size' = [size EXCEPT ![Cpu][k] = th[t].bytes]
        /\ Goto(t, "finish")
        /\ UNCHANGED <<chunk_index, pages, in_progress, left, refused, failed>>

\* allocateBuffer: the constructor pins the buffer and reserves its pages.
Construct(t) ==
    LET m == th[t].at
        k == th[t].key
        n == th[t].bytes
    IN  /\ At(t, "construct")
        /\ ~ZeroCopy(t)
        /\ \E gone \in Victims(m, k, n) :
              /\ Reserve(m, k, n, gone)
              /\ size' = [size EXCEPT ![m] = SizeAfter(m, k, 0, gone)]
        /\ pins' = [pins EXCEPT ![m][k] = 1]
        /\ Goto(t, "fetch")
        /\ UNCHANGED <<in_progress, left, refused, failed>>

\* The constructor throws OutOfMemory: createBuffer deletes the entry and throws
\* on, through fetchBuffer if it was called by that.  getBuffer catches nothing
\* of its own createBuffer and of the fetch after a hit; after a miss it gives up.
ConstructFails(t) ==
    LET m == th[t].at
        k == th[t].key
    IN  /\ At(t, "construct")
        /\ ~ZeroCopy(t)
        /\ MayRefuse(m, k, th[t].bytes)
        /\ IF m # th[t].mgr /\ ~th[t].hit THEN Abort("LOG(FATAL)")
           ELSE /\ chunk_index' = [chunk_index EXCEPT ![m] = @ \ {k}]
                /\ Throw(t)
                /\ UNCHANGED <<live, pins, pages, size>>

\* What a thread does when the buffer at its manager has its bytes: the getBuffer
\* that wanted it goes on to notify, fetchBuffer goes on to copy.
AfterFetch(t) == IF th[t].at = th[t].mgr THEN "finish" ELSE "copy"

\* The storage's fetchBuffer: reserve, fill and set the size.
FetchFromStorage(t) ==
    LET k == th[t].key
        n == th[t].bytes
    IN  /\ At(t, "fetch")
        /\ th[t].at = Cpu
        /\ \E gone \in Victims(Cpu, k, n) :
              /\ Reserve(Cpu, k, IF pages[Cpu][k] >= n THEN pages[Cpu][k] ELSE n, gone)
              /\ size' = [size EXCEPT ![Cpu] = SizeAfter(Cpu, k, n, gone)]
        /\ Goto(t, AfterFetch(t))
        /\ UNCHANGED <<pins, in_progress, left, refused, failed>>

\* Its reserve throws OutOfMemory.  A zero-copy buffer has lost its memory by
\* then.  fetchBuffer gives up, getBuffer after a hit lets the exception pass.
FetchFails(t) ==
    LET k == th[t].key
    IN  /\ At(t, "fetch")
        /\ th[t].at = Cpu
        /\ pages[Cpu][k] < th[t].bytes
        /\ MayRefuse(Cpu, k, th[t].bytes)
        /\ IF th[t].mgr # Cpu THEN Abort("LOG(FATAL)")
           ELSE /\ size' = [size EXCEPT ![Cpu][k] = IF pages[Cpu][k] = 0 THEN 0 ELSE @]
                /\ Throw(t)
                /\ UNCHANGED <<chunk_index, live, pins, pages>>

\* A GPU manager calls fetchBuffer of the CPU manager.
FetchFromParent(t) ==
    /\ At(t, "fetch")
    /\ th[t].at # Cpu
    /\ th' = [th EXCEPT ![t].pc = "find", ![t].at = Cpu]
    /\ UNCHANGED <<bufVars, in_progress, left, refused, failed>>

\* fetchBuffer, the part under the locks.
FindInParent(t) ==
    LET k == th[t].key
    IN  /\ At(t, "find")
        /\ IF k \notin chunk_index[Cpu]
           THEN Goto(t, "create") /\ UNCHANGED <<bufVars, in_progress, left, refused, failed>>
           ELSE IF k \notin live[Cpu] THEN Abort("null buffer")
           ELSE /\ pins' = [pins EXCEPT ![Cpu][k] = @ + 1]
                /\ Goto(t, IF th[t].bytes > size[Cpu][k] THEN "fetch" ELSE "copy")
                /\ UNCHANGED <<chunk_index, live, pages, size, in_progress, left, refused, failed>>

\* (mutant of CopyTo) the buffer of the parent stays pinned
CopyToKeepsPin(t) ==
    LET m == th[t].mgr
        k == th[t].key
        n == th[t].bytes
    IN  /\ At(t, "copy")
        /\ \E gone \in Victims(m, k, n) :
              /\ Reserve(m, k, IF pages[m][k] >= n THEN pages[m][k] ELSE n, gone)
              /\ size' = [size EXCEPT ![m] = SizeAfter(m, k, n, gone)]
        /\ th' = [th EXCEPT ![t].pc = "finish", ![t].at = m]
        /\ UNCHANGED <<pins, in_progress, left, refused, failed>>

\* The end of fetchBuffer: copyTo reserves and fills the buffer of the child.
CopyTo(t) ==
    LET m == th[t].mgr
        k == th[t].key
        n == th[t].bytes
    IN  /\ At(t, "copy")
        /\ IF size[Cpu][k] < n THEN Abort("CHECK_GE(size(), num_bytes)")
           ELSE /\ \E gone \in Victims(m, k, n) :
                     /\ Reserve(m, k, IF pages[m][k] >= n THEN pages[m][k] ELSE n, gone)
                     /\ size' = [size EXCEPT ![m] = SizeAfter(m, k, n, gone)]
                /\ pins' = [pins EXCEPT ![Cpu][k] = @ - 1]
                /\ th' = [th EXCEPT ![t].pc = "finish", ![t].at = m]
                /\ UNCHANGED <<in_progress, left, refused, failed>>

\* The reserve of copyTo throws OutOfMemory: only after a hit, for a miss has the
\* pages already.  The buffer of the parent stays pinned.
CopyFails(t) ==
    LET m == th[t].mgr
    IN  /\ At(t, "copy")
        /\ size[Cpu][th[t].key] >= th[t].bytes
        /\ pages[m][th[t].key] < th[t].bytes
        /\ MayRefuse(m, th[t].key, th[t].bytes)
        /\ Throw(t)
        /\ UNCHANGED bufVars


Waiters(m, k) == {t \in Threads : th[t].pc = "wait" /\ th[t].mgr = m /\ th[t].key = k}

\* (mutant of Finish) notify_one
FinishNotifiesOne(t) ==
    LET m == th[t].mgr
        k == th[t].key
        ws == Waiters(m, k)
    IN  /\ At(t, "finish")
        /\ in_progress' = [in_progress EXCEPT ![m] = @ \ {k}]
        /\ \E w \in ws \cup {t} :
              /\ ws # {} => w # t
              /\ th' = [u \in Threads |-> IF u = t THEN [th[u] EXCEPT !.pc = "held"]
                                          ELSE IF u = w THEN [th[u] EXCEPT !.pc = "look"]
                                          ELSE th[u]]
        /\ UNCHANGED <<bufVars, left, refused, failed>>

\* getBuffer notifies the waiting threads, erases the condition variable and
\* returns the buffer.
Finish(t) ==
    LET m == th[t].mgr
        k == th[t].key
    IN  /\ At(t, "finish")
        /\ in_progress' = [in_progress EXCEPT ![m] = @ \ {k}]
        /\ th' = [u \in Threads |-> IF u = t THEN [th[u] EXCEPT !.pc = "held"]
                                    ELSE IF u \in Waiters(m, k)
                                    THEN [th[u] EXCEPT !.pc = "look"]
                                    ELSE th[u]]
        /\ UNCHANGED <<bufVars, left, refused, failed>>

\* (mutant of Unpin) the chunk is unpinned twice
UnpinTwice(t) ==
    /\ At(t, "held")
    /\ pins' = [pins EXCEPT ![th[t].mgr][th[t].key] = @ - 2]
    /\ th' = [th EXCEPT ![t] = Idle]
    /\ UNCHANGED <<chunk_index, live, pages, size, in_progress, left, refused, failed>>

\* The query is done with the chunk (Chunk::unpinBuffer).
Unpin(t) ==
    /\ At(t, "held")
    /\ pins' = [pins EXCEPT ![th[t].mgr][th[t].key] = @ - 1]
    /\ th' = [th EXCEPT ![t] = Idle]
    /\ UNCHANGED <<chunk_index, live, pages, size, in_progress, left, refused, failed>>

Step(t) ==
    \/ Wait(t)
    \/ Hit(t)
    \/ Miss(t)
    \/ Create(t)
    \/ ConstructZeroCopy(t)
    \/ Construct(t)
    \/ ConstructFails(t)
    \/ FetchFromStorage(t)
    \/ FetchFails(t)
    \/ FetchFromParent(t)
    \/ FindInParent(t)
    \/ CopyTo(t)
    \/ CopyFails(t)
    \/ Finish(t)
    \/ Unpin(t)

\* All calls have been made.
Done == left = 0 /\ \A t \in Threads : th[t].pc = "idle"

Next ==
    \/ \E t \in Threads :
          \/ \E r \in Requests : Request(t, r[1], r[2], r[3])
          \/ Step(t)
    \/ Done /\ UNCHANGED vars

Spec == Init /\ [][Next]_vars

\* A thread that is not waiting on a condition variable is scheduled again: it
\* holds a lock for a bounded time only, and a query ends and unpins its chunks.
FairSpec == Spec /\ \A t \in Threads : WF_vars(Step(t))
-----------------------------------------------------------------------------
(* Properties.                                                              *)

\* Every variable has the type of the member or local variables it models.
TypeOK ==
    /\ chunk_index \in [Mgrs -> SUBSET Keys]
    /\ live \in [Mgrs -> SUBSET Keys]
    /\ pins \in [Mgrs -> [Keys -> Nat]]
    /\ pages \in [Mgrs -> [Keys -> Nat]]
    /\ size \in [Mgrs -> [Keys -> Nat]]
    /\ in_progress \in [Mgrs -> SUBSET Keys]
    /\ th \in [Threads ->
                  [pc : {"idle", "look", "wait", "create", "construct", "fetch", "find",
                         "copy", "finish", "held"},
                   mgr : Mgrs, key : Keys \cup {NoKey}, bytes : Nat, at : Mgrs,
                   hit : BOOLEAN]]
    /\ left \in Nat
    /\ refused \in BOOLEAN
    /\ failed \in {"no", "CHECK(buffer)", "CHECK(not in chunk_index)", "null buffer",
                   "CHECK_GE(size(), num_bytes)", "LOG(FATAL)"}

\* While a query works on a chunk that getBuffer returned, the chunk is in the
\* pool and has all the bytes asked for, whatever is evicted, grown or refused in
\* the meantime by other threads.
HeldIsComplete ==
    \A t \in Threads : th[t].pc = "held" =>
        /\ th[t].key \in live[th[t].mgr]
        /\ th[t].key \in chunk_index[th[t].mgr]
        /\ size[th[t].mgr][th[t].key] >= th[t].bytes

\* The threads that have a pin on the buffer of k at m.
Holders(m, k) ==
    {t \in Threads : /\ th[t].key = k
                     /\ \/ th[t].mgr = m /\ th[t].pc = "held"
                        \/ th[t].mgr = m /\ th[t].pc \in {"fetch", "find", "copy", "finish"}
                        \/ th[t].mgr = m /\ th[t].at # m
                        \/ th[t].mgr # m /\ th[t].at = m /\ th[t].pc \in {"fetch", "copy"}}

\* Every pin is some thread's: the pin of a constructor, of a hit and of
\* fetchBuffer are each given back once, so that an idle pool is evictable.  After a
\* refusal a pin may be left over, never be missing.
PinsAreHeld ==
    failed = "no" => \A m \in Mgrs, k \in Keys :
        /\ pins[m][k] >= Cardinality(Holders(m, k))
        /\ ~refused => pins[m][k] = Cardinality(Holders(m, k))

\* One thread at a time initializes or extends the buffer of a chunk at a level:
\* it is the one that owns the condition variable, and neither the CHECKs of
\* getBuffer, createBuffer and copyTo nor a null buffer is met, whatever is refused.
OneInitializer ==
    /\ failed \in {"no", "LOG(FATAL)"}
    /\ \A m \in Mgrs, k \in Keys :
          LET owners == Cardinality({t \in Threads :
                           /\ th[t].mgr = m /\ th[t].key = k
                           /\ th[t].pc \notin {"idle", "look", "wait", "held"}})
          IN  /\ owners <= IF k \in in_progress[m] THEN 1 ELSE 0
              /\ ~refused => owners = IF k \in in_progress[m] THEN 1 ELSE 0

\* getBuffer returns, unless some request has run out of memory: a thread that finds
\* the chunk being initialized is woken and goes on.
GetEnds ==
    \A t \in Threads :
        th[t].pc = "look" ~> (th[t].pc \in {"held", "idle"} \/ failed # "no" \/ refused)

\* A thread that finds the chunk being initialized is to "release the lock and wait
\* until it finishes".
WaitEnds ==
    \A t \in Threads :
        th[t].pc = "wait" ~> (th[t].pc # "wait" \/ failed # "no")

\* fetchBuffer "is only called by child BufferMgr which should guarantee we have no
\* parallel calls for the same key": then createBuffer finds no entry for the key
\* and no buffer is null.
ParentNotRaced ==
    failed \notin {"CHECK(not in chunk_index)", "null buffer", "CHECK_GE(size(), num_bytes)"}
=============================================================================

-------------------------- MODULE ChunkCacheProofs --------------------------
(***************************************************************************)
(* TypeOK, OneInitializer, HeldIsComplete and PinsAreHeld of ChunkCache,   *)
(* for any threads, managers, chunks and sizes of memory, and whatever is  *)
(* evicted and refused: every action keeps the invariant of                *)
(* ChunkCacheLemmas.                                                       *)
(***************************************************************************)
EXTENDS ChunkCacheLemmas
-----------------------------------------------------------------------------
(* One lemma for each action.                                                *)

\* getBuffer waits for the thread that initializes the chunk.
LEMMA WaitKeeps ==
    ASSUME Exclusive, IInv, InUsePinned, NEW t \in Threads, Wait(t)
    PROVE  IInv' /\ PinStep
<1>0. TypeOK /\ Local(t) /\ InUsePinned /\ failed \in {"no", "LOG(FATAL)"} /\ th[t].pc = "look"
      BY Zenon DEF IInv, Wait, At
<1>1. /\ th' \in Threadings /\ OthersStay(t)
      /\ th'[t].pc = "wait" /\ th'[t].mgr = th[t].mgr /\ th'[t].key = th[t].key
      /\ th'[t].bytes = th[t].bytes /\ th'[t].at = th[t].at
      BY Zenon, <1>0, GotoMoves DEF Wait, Pcs
<1>2. TypeOK'
      BY Zenon, <1>0, <1>1 DEF Wait, TypeOK, bufVars, Threadings
<1>3. MemChange(t) /\ OwnMem(t)
      BY Zenon, <1>0, QuietMem DEF Wait, bufVars
<1>4. CvStep(t) /\ OwnCvs(t) /\ OwnStep(t)
      BY Zenon, <1>0, <1>1, QuietCvs DEF Wait, OwnStep, Working
<1>5. Local(t)'
  <2>5. Place(t)'
        BY Zenon, <1>0, <1>1 DEF Local, Place
  <2>6. Knows(t)'
        BY Zenon, <1>0, <1>1 DEF Local, Place, Knows, Working, Pins
  <2>7. Sizes(t)'
        BY Zenon, <1>0, <1>1 DEF Local, Place, Sizes
  <2> QED BY Zenon, <2>5, <2>6, <2>7 DEF Local
<1>6. PinStep
  <2>1. \A m \in Mgrs, k \in Keys : Pins(t, m, k)' <=> Pins(t, m, k)
        BY Zenon, <1>0, <1>1 DEF Pins, Local, Place
  <2> QED BY Zenon, <2>1, <1>0, <1>1, OthersPins, PinsKept DEF Wait, bufVars
<1>o. OthersStay(t) /\ failed' \in {"no", "LOG(FATAL)"}
      BY Zenon, <1>0, <1>1 DEF Wait
<1> QED BY Zenon, <1>o, <1>2, <1>3, <1>4, <1>5, <1>6, StepKeeps

\* A call of getBuffer begins.
LEMMA RequestKeeps ==
    ASSUME Exclusive, IInv, InUsePinned, NEW t \in Threads, NEW r \in Requests, Request(t, r[1], r[2], r[3])
    PROVE  IInv' /\ PinStep
<1>0. TypeOK /\ Local(t) /\ InUsePinned /\ failed \in {"no", "LOG(FATAL)"} /\ th[t].pc = "idle"
      BY Zenon DEF IInv, Request, At
<1>r. r = <<r[1], r[2], r[3]>> /\ r[1] \in Mgrs /\ r[2] \in Keys /\ r[3] \in Nat
      BY CacheAssumption
<1>1. /\ th' \in Threadings /\ OthersStay(t)
      /\ th'[t].pc = "look" /\ th'[t].mgr = r[1] /\ th'[t].key = r[2]
      /\ th'[t].bytes = r[3] /\ th'[t].at = r[1]
  <2>1. th \in Threadings
        BY Zenon, <1>0 DEF TypeOK, Threadings
  <2> QED BY Zenon, <2>1, <1>r DEF Request, Threadings, OthersStay
<1>2. TypeOK'
  <2>1. left \in Nat
        BY Zenon, <1>0 DEF TypeOK
  <2>2. left' \in Nat
        BY <2>1 DEF Request
  <2> QED BY Zenon, <1>0, <1>1, <2>2 DEF Request, TypeOK, bufVars, Threadings
<1>3. MemChange(t) /\ OwnMem(t)
      BY Zenon, <1>0, QuietMem DEF Request, bufVars
<1>4. CvStep(t) /\ OwnCvs(t) /\ OwnStep(t)
      BY Zenon, <1>0, <1>1, QuietCvs DEF Request, OwnStep, Working
<1>5. Local(t)'
  <2>5. Place(t)'
        BY Zenon, <1>r, <1>1 DEF Local, Place
  <2>6. Knows(t)'
        BY Zenon, <1>r, <1>1 DEF Local, Place, Knows, Working, Pins
  <2>7. Sizes(t)'
        BY Zenon, <1>r, <1>1 DEF Local, Sizes
  <2> QED BY Zenon, <2>5, <2>6, <2>7 DEF Local
<1>6. PinStep
  <2>1. \A m \in Mgrs, k \in Keys : Pins(t, m, k)' <=> Pins(t, m, k)
        BY Zenon, <1>0, <1>1, CacheAssumption DEF Pins, Local, Place
  <2> QED BY Zenon, <2>1, <1>0, <1>1, OthersPins, PinsKept DEF Request, bufVars
<1>o. OthersStay(t) /\ failed' \in {"no", "LOG(FATAL)"}
      BY Zenon, <1>0, <1>1 DEF Request
<1> QED BY Zenon, <1>o, <1>2, <1>3, <1>4, <1>5, <1>6, StepKeeps

\* getBuffer claims a missing chunk with a condition variable.
LEMMA MissKeeps ==
    ASSUME Exclusive, IInv, InUsePinned, NEW t \in Threads, Miss(t)
    PROVE  IInv' /\ PinStep
<1>0. TypeOK /\ Local(t) /\ InUsePinned /\ failed \in {"no", "LOG(FATAL)"} /\ th[t].pc = "look"
      BY Zenon DEF IInv, Miss, At
<1>k. th[t].key \in Keys /\ th[t].mgr \in Mgrs /\ in_progress \in [Mgrs -> SUBSET Keys]
      BY Zenon, <1>0, Asked, ThTypes DEF TypeOK
<1>1. /\ th' \in Threadings /\ OthersStay(t)
      /\ th'[t].pc = "create" /\ th'[t].mgr = th[t].mgr /\ th'[t].key = th[t].key
      /\ th'[t].bytes = th[t].bytes /\ th'[t].at = th[t].at
      BY Zenon, <1>0, GotoMoves DEF Miss, Pcs
<1>c. /\ in_progress' \in [Mgrs -> SUBSET Keys]
      /\ th[t].key \in in_progress'[th[t].mgr]
      /\ \A m \in Mgrs, k \in Keys : k \in in_progress'[m] <=>
            k \in in_progress[m] \/ (m = th[t].mgr /\ k = th[t].key)
      BY Zenon, <1>k DEF Miss
<1>2. TypeOK'
      BY Zenon, <1>0, <1>1, <1>c DEF Miss, TypeOK, bufVars, Threadings
<1>3. MemChange(t) /\ OwnMem(t)
      BY Zenon, <1>0, QuietMem DEF Miss, bufVars
<1>4. CvStep(t) /\ OwnCvs(t) /\ OwnStep(t)
      BY Zenon, <1>0, <1>1, <1>c DEF Miss, CvStep, OwnCvs, OwnStep, Working
<1>5. Local(t)'
  <2>5. Place(t)'
        BY Zenon, <1>0, <1>1, <1>c DEF Local, Place
  <2>6. Knows(t)'
        BY Zenon, <1>0, <1>1, <1>c DEF Miss, bufVars, Local, Place, Knows, Working, Pins
  <2>7. Sizes(t)'
        BY Zenon, <1>0, <1>1, <1>c DEF Miss, bufVars, Local, Sizes
  <2> QED BY Zenon, <2>5, <2>6, <2>7 DEF Local
<1>6. PinStep
  <2>1. \A m \in Mgrs, k \in Keys : Pins(t, m, k)' <=> Pins(t, m, k)
        BY Zenon, <1>0, <1>1 DEF Pins, Local, Place
  <2> QED BY Zenon, <2>1, <1>0, <1>1, OthersPins, PinsKept DEF Miss, bufVars
<1>o. OthersStay(t) /\ failed' \in {"no", "LOG(FATAL)"}
      BY Zenon, <1>0, <1>1 DEF Miss
<1> QED BY Zenon, <1>o, <1>2, <1>3, <1>4, <1>5, <1>6, StepKeeps

\* A GPU manager calls fetchBuffer of the CPU manager.
LEMMA FetchFromParentKeeps ==
    ASSUME Exclusive, IInv, InUsePinned, NEW t \in Threads, FetchFromParent(t)
    PROVE  IInv' /\ PinStep
<1>0. TypeOK /\ Local(t) /\ InUsePinned /\ failed \in {"no", "LOG(FATAL)"} /\ th[t].pc = "fetch"
      BY Zenon DEF IInv, FetchFromParent, At
<1>a. th[t].at = th[t].mgr /\ th[t].mgr # Cpu /\ Cpu \in Mgrs
      BY Zenon, <1>0 DEF FetchFromParent, Local, Place, Mgrs
<1>1. /\ th' \in Threadings /\ OthersStay(t)
      /\ th'[t].pc = "find" /\ th'[t].mgr = th[t].mgr /\ th'[t].key = th[t].key
      /\ th'[t].bytes = th[t].bytes /\ th'[t].at = Cpu
  <2>1. th \in Threadings
        BY Zenon, <1>0 DEF TypeOK, Threadings
  <2> QED BY Zenon, <2>1, <1>a DEF FetchFromParent, Threadings, OthersStay
<1>2. TypeOK'
      BY Zenon, <1>0, <1>1 DEF FetchFromParent, TypeOK, bufVars, Threadings
<1>3. MemChange(t) /\ OwnMem(t)
      BY Zenon, <1>0, QuietMem DEF FetchFromParent, bufVars
<1>4. CvStep(t) /\ OwnCvs(t) /\ OwnStep(t)
      BY Zenon, <1>0, <1>1, QuietCvs DEF FetchFromParent, OwnStep, Working
<1>5. \A m \in Mgrs, k \in Keys : Pins(t, m, k)' <=> Pins(t, m, k)
      BY Zenon, <1>0, <1>1, <1>a DEF Pins, Local, Place
<1>6. Local(t)'
  <2>5. Place(t)'
        BY Zenon, <1>0, <1>1, <1>a, <1>5 DEF Local, Place
  <2>6. Knows(t)'
        BY Zenon, <1>0, <1>1, <1>a, <1>5 DEF FetchFromParent, bufVars, Local, Place, Knows, Working
  <2>7. Sizes(t)'
        BY Zenon, <1>0, <1>1, <1>a, <1>5 DEF FetchFromParent, bufVars, Local, Sizes
  <2> QED BY Zenon, <2>5, <2>6, <2>7 DEF Local
<1>7. PinStep
      BY Zenon, <1>5, <1>0, <1>1, OthersPins, PinsKept DEF FetchFromParent, bufVars
<1>o. OthersStay(t) /\ failed' \in {"no", "LOG(FATAL)"}
      BY Zenon, <1>0, <1>1 DEF FetchFromParent
<1> QED BY Zenon, <1>o, <1>2, <1>3, <1>4, <1>6, <1>7, StepKeeps

\* createBuffer finds no entry, and makes one: its CHECK is never met.
LEMMA CreateKeeps ==
    ASSUME Exclusive, IInv, InUsePinned, NEW t \in Threads, Create(t)
    PROVE  IInv' /\ PinStep
<1>0. TypeOK /\ Local(t) /\ InUsePinned /\ failed \in {"no", "LOG(FATAL)"} /\ th[t].pc = "create"
      BY Zenon DEF IInv, Create, At
<1>k. /\ th[t].key \in Keys /\ th[t].at \in Mgrs /\ th[t].key \notin chunk_index[th[t].at]
      /\ chunk_index \in [Mgrs -> SUBSET Keys]
      BY Zenon, <1>0, Asked, ThTypes DEF TypeOK, Local, Knows
<1>c. /\ chunk_index' = [chunk_index EXCEPT ![th[t].at] = @ \cup {th[t].key}]
      /\ Goto(t, "construct")
      /\ UNCHANGED <<live, pins, pages, size, in_progress, left, refused, failed>>
      BY Zenon, <1>k DEF Create
<1>1. /\ th' \in Threadings /\ OthersStay(t)
      /\ th'[t].pc = "construct" /\ th'[t].mgr = th[t].mgr /\ th'[t].key = th[t].key
      /\ th'[t].bytes = th[t].bytes /\ th'[t].at = th[t].at
      BY Zenon, <1>0, <1>c, GotoMoves DEF Pcs
<1>i. /\ chunk_index' \in [Mgrs -> SUBSET Keys]
      /\ \A m \in Mgrs, k \in Keys : k \in chunk_index'[m] <=>
            k \in chunk_index[m] \/ (m = th[t].at /\ k = th[t].key)
      BY Zenon, <1>k, <1>c
<1>2. TypeOK'
      BY Zenon, <1>0, <1>1, <1>c, <1>i DEF TypeOK, Threadings
<1>3. MemChange(t)
  <2>1. \A m \in Mgrs, k \in Keys : k # th[t].key => Same(m, k)
        BY Zenon, <1>c, <1>i DEF Same
  <2>2. \A m \in Mgrs : size'[m][th[t].key] >= size[m][th[t].key]
        BY SMTT(30), <1>c, <1>k, <1>0, BufTypes
  <2> QED BY Zenon, <2>1, <2>2, <1>c, <1>0 DEF MemChange, MemStep, Working
<1>4. OwnMem(t)
  <2>1. \A m \in Mgrs : th[t].key \in chunk_index[m] => th[t].key \in live[m]
        BY <1>0, <1>k DEF IInv, Mem, OneOwner, Working
  <2> QED BY Zenon, <2>1, <1>1, <1>c, <1>i DEF OwnMem, IInv, Mem
<1>5. CvStep(t) /\ OwnCvs(t) /\ OwnStep(t)
      BY Zenon, <1>0, <1>1, <1>c, QuietCvs DEF OwnStep, Working
<1>6. \A m \in Mgrs, k \in Keys : Pins(t, m, k)' <=> Pins(t, m, k)
      BY Zenon, <1>0, <1>1 DEF Pins
<1>7. Local(t)'
  <2>1. th[t].key \notin live[th[t].at]
        BY Zenon, <1>k DEF IInv, Mem
  <2>2. live' = live /\ size' = size /\ in_progress' = in_progress
        BY Zenon, <1>c
  <2>5. Place(t)'
        BY Zenon, <1>0, <1>1 DEF Local, Place
  <2>6. Knows(t)'
        BY Zenon, <2>1, <2>2, <1>0, <1>1, <1>i, <1>k, <1>6 DEF Local, Knows, Working
  <2>7. Sizes(t)'
        BY Zenon, <2>2, <1>0, <1>1 DEF Local, Sizes
  <2> QED BY Zenon, <2>5, <2>6, <2>7 DEF Local
<1>8. PinStep
      BY Zenon, <1>6, <1>c, <1>0, <1>1, OthersPins, PinsKept
<1>o. OthersStay(t) /\ failed' \in {"no", "LOG(FATAL)"}
      BY Zenon, <1>0, <1>1, <1>c
<1> QED BY Zenon, <1>o, <1>2, <1>3, <1>4, <1>5, <1>7, <1>8, StepKeeps

\* getBuffer pins a chunk that is there: the entry has a buffer, for nobody constructs it.
LEMMA HitKeeps ==
    ASSUME Exclusive, IInv, InUsePinned, NEW t \in Threads, Hit(t)
    PROVE  IInv' /\ PinStep
<1>0. TypeOK /\ Local(t) /\ InUsePinned /\ failed \in {"no", "LOG(FATAL)"} /\ th[t].pc = "look"
      BY Zenon DEF IInv, Hit, At
<1>m. PICK m \in Mgrs, k \in Keys : m = th[t].mgr /\ k = th[t].key
      BY Zenon, <1>0, Asked, ThTypes
<1>k. /\ k \notin in_progress[m] /\ k \in chunk_index[m]
      /\ in_progress \in [Mgrs -> SUBSET Keys] /\ pins \in [Mgrs -> [Keys -> Nat]]
      BY Zenon, <1>0, <1>m DEF TypeOK, Hit
<1>l. k \in live[m]
  <2>1. \A u \in Threads : th[u].pc = "construct" => th[u].key # k
    <3> SUFFICES ASSUME NEW u \in Threads, th[u].pc = "construct", th[u].key = k
                 PROVE  FALSE
        BY Zenon
    <3>1. th[u].mgr = m
          BY Zenon, <1>0, <1>m, SameManager DEF IInv
    <3> QED BY Zenon, <3>1, <1>k DEF IInv, Local, Knows, Working
  <2> QED BY SMTT(30), <2>1, <1>k DEF IInv, Mem
<1>c. /\ pins' = [pins EXCEPT ![m][k] = @ + 1]
      /\ UNCHANGED <<chunk_index, live, pages, size, left, refused, failed>>
      BY Zenon, <1>l, <1>m DEF Hit
<1>d. \/ /\ size[m][k] < th[t].bytes
         /\ in_progress' = [in_progress EXCEPT ![m] = @ \cup {k}]
         /\ th' = [th EXCEPT ![t].pc = "fetch", ![t].hit = TRUE]
      \/ /\ ~(size[m][k] < th[t].bytes)
         /\ Goto(t, "held") /\ UNCHANGED in_progress
      BY Zenon, <1>l, <1>m DEF Hit
<1>1. /\ th' \in Threadings /\ OthersStay(t)
      /\ th'[t].pc \in {"fetch", "held"} /\ th'[t].mgr = th[t].mgr /\ th'[t].key = th[t].key
      /\ th'[t].bytes = th[t].bytes /\ th'[t].at = th[t].at
      /\ th'[t].pc = "fetch" => size[m][k] < th[t].bytes
      /\ th'[t].pc = "held" => ~(size[m][k] < th[t].bytes)
  <2>1. th \in Threadings
        BY Zenon, <1>0 DEF TypeOK, Threadings
  <2> QED BY <2>1, <1>d DEF Goto, Threadings, OthersStay
<1>p. /\ in_progress' \in [Mgrs -> SUBSET Keys]
      /\ \A n \in Mgrs, q \in Keys : q \in in_progress'[n] <=>
            q \in in_progress[n] \/ (th'[t].pc = "fetch" /\ n = m /\ q = k)
  <2>1. th \in Threadings
        BY Zenon, <1>0 DEF TypeOK, Threadings
  <2>2. CASE size[m][k] < th[t].bytes
    <3>1. in_progress' = [in_progress EXCEPT ![m] = @ \cup {k}] /\ th'[t].pc = "fetch"
          BY <2>1, <2>2, <1>d DEF Threadings
    <3> QED BY Zenon, <3>1, <1>k
  <2>3. CASE ~(size[m][k] < th[t].bytes)
        BY Zenon, <2>3, <1>d, <1>k, <1>1
  <2> QED BY Zenon, <2>2, <2>3
<1>2. TypeOK'
  <2>1. pins' \in [Mgrs -> [Keys -> Nat]]
        BY <1>c, <1>k
  <2> QED BY Zenon, <2>1, <1>0, <1>1, <1>c, <1>p DEF TypeOK, Threadings
<1>3. MemChange(t) /\ OwnMem(t)
      BY Zenon, <1>0, <1>c, QuietMem
<1>4. CvStep(t) /\ OwnCvs(t) /\ OwnStep(t)
      BY Zenon, <1>0, <1>1, <1>c, <1>p, <1>k, <1>m DEF CvStep, OwnCvs, OwnStep, Working
<1>5. th[t].at = m
      BY Zenon, <1>0, <1>m DEF Local, Place
<1>6. Local(t)'
  <2>1. Place(t)'
        BY Zenon, <1>0, <1>1, <1>5, <1>m DEF Local, Place
  <2>2. Knows(t)'
        BY Zenon, <1>1, <1>5, <1>l, <1>c, <1>p, <1>k, <1>m DEF Knows, Pins, Working
  <2>3. size[m][k] \in Nat /\ th[t].bytes \in Nat
        BY Zenon, <1>0, <1>k, BufTypes, ThTypes
  <2>4. Sizes(t)'
        BY SMTT(30), <2>3, <1>1, <1>5, <1>c, <1>m DEF Sizes
  <2> QED BY Zenon, <2>1, <2>2, <2>4 DEF Local
<1>7. PinStep
  <2>1. ~Pins(t, m, k) /\ Pins(t, m, k)'
        BY Zenon, <1>0, <1>1, <1>5, <1>m DEF Pins
  <2>2. \A n \in Mgrs, q \in Keys : n # m \/ q # k => (Pins(t, n, q)' <=> Pins(t, n, q))
        BY Zenon, <1>0, <1>1, <1>5, <1>m DEF Pins
  <2>3. OnlyPin(t, m, k)
        BY Zenon, <2>2, <1>0, <1>1, OthersPins DEF OnlyPin
  <2> QED BY Zenon, <2>1, <2>3, <1>0, <1>c, <1>k, PinsGained
<1>o. OthersStay(t) /\ failed' \in {"no", "LOG(FATAL)"}
      BY Zenon, <1>0, <1>1, <1>c
<1> QED BY Zenon, <1>o, <1>2, <1>3, <1>4, <1>6, <1>7, StepKeeps

\* getBuffer wakes the waiting threads and returns.
LEMMA FinishKeeps ==
    ASSUME Exclusive, IInv, InUsePinned, NEW t \in Threads, Finish(t)
    PROVE  IInv' /\ PinStep
<1>0. TypeOK /\ Local(t) /\ InUsePinned /\ failed \in {"no", "LOG(FATAL)"} /\ th[t].pc = "finish"
      BY Zenon DEF IInv, Finish, At
<1>k. th[t].mgr \in Mgrs /\ in_progress \in [Mgrs -> SUBSET Keys] /\ th[t].at = th[t].mgr
      BY Zenon, <1>0, ThTypes DEF TypeOK, Local, Place
<1>1. /\ th' \in Threadings /\ OthersStay(t)
      /\ th'[t].pc = "held" /\ th'[t].mgr = th[t].mgr /\ th'[t].key = th[t].key
      /\ th'[t].bytes = th[t].bytes /\ th'[t].at = th[t].at
  <2>1. th \in Threadings
        BY Zenon, <1>0 DEF TypeOK, Threadings
  <2> QED BY <2>1 DEF Finish, Waiters, Threadings, OthersStay
<1>c. /\ in_progress' \in [Mgrs -> SUBSET Keys]
      /\ \A m \in Mgrs, k \in Keys : k \in in_progress'[m] <=>
            k \in in_progress[m] /\ ~(m = th[t].mgr /\ k = th[t].key)
      BY Zenon, <1>k DEF Finish
<1>2. TypeOK'
      BY Zenon, <1>0, <1>1, <1>c DEF Finish, TypeOK, bufVars, Threadings
<1>3. MemChange(t) /\ OwnMem(t)
      BY Zenon, <1>0, QuietMem DEF Finish, bufVars
<1>4. CvStep(t) /\ OwnCvs(t) /\ OwnStep(t)
      BY Zenon, <1>0, <1>1, <1>c DEF Finish, CvStep, OwnCvs, OwnStep, Working
<1>5. \A m \in Mgrs, k \in Keys : Pins(t, m, k)' <=> Pins(t, m, k)
      BY Zenon, <1>0, <1>1, <1>k DEF Pins
<1>6. Local(t)'
      BY Zenon, <1>0, <1>1, <1>k, <1>5 DEF Finish, bufVars, Local, Place, Knows, Sizes, Working
<1>7. PinStep
      BY Zenon, <1>5, <1>0, <1>1, OthersPins, PinsKept DEF Finish, bufVars
<1>o. OthersStay(t) /\ failed' \in {"no", "LOG(FATAL)"}
      BY Zenon, <1>0, <1>1 DEF Finish
<1> QED BY Zenon, <1>o, <1>2, <1>3, <1>4, <1>6, <1>7, StepKeeps

\* The query gives back its pin.
LEMMA UnpinKeeps ==
    ASSUME Exclusive, IInv, InUsePinned, NEW t \in Threads, Unpin(t)
    PROVE  IInv' /\ PinStep
<1>0. TypeOK /\ Local(t) /\ InUsePinned /\ failed \in {"no", "LOG(FATAL)"} /\ th[t].pc = "held"
      BY Zenon DEF IInv, Unpin, At
<1>m. PICK m \in Mgrs, k \in Keys : m = th[t].mgr /\ k = th[t].key
      BY Zenon, <1>0, Asked, ThTypes
<1>k. th[t].at = m /\ Cpu \in Mgrs
      BY Zenon, <1>0, <1>m DEF Local, Place, Mgrs
<1>1. /\ th' \in Threadings /\ OthersStay(t)
      /\ th'[t].pc = "idle" /\ th'[t].mgr = th'[t].at /\ th'[t].key = NoKey
  <2>1. th \in Threadings
        BY Zenon, <1>0 DEF TypeOK, Threadings
  <2> QED BY Zenon, <2>1, <1>k DEF Unpin, Idle, Threadings, OthersStay
<1>2. PinStep /\ pins' \in [Mgrs -> [Keys -> Nat]]
  <2>1. Pins(t, m, k) /\ ~Pins(t, m, k)'
        BY Zenon, <1>0, <1>1, <1>k, <1>m, CacheAssumption DEF Pins
  <2>2. \A n \in Mgrs, q \in Keys : n # m \/ q # k => (Pins(t, n, q)' <=> Pins(t, n, q))
        BY Zenon, <1>0, <1>1, <1>k, <1>m, CacheAssumption DEF Pins
  <2>3. OnlyPin(t, m, k)
        BY Zenon, <2>2, <1>0, <1>1, OthersPins DEF OnlyPin
  <2>4. pins' = [pins EXCEPT ![m][k] = @ - 1] /\ refused' = refused
        BY Zenon, <1>m DEF Unpin
  <2> QED BY Zenon, <2>1, <2>3, <2>4, <1>0, <1>k, PinsLost
<1>3. TypeOK'
      BY Zenon, <1>0, <1>1, <1>2 DEF Unpin, TypeOK, Threadings
<1>4. MemChange(t) /\ OwnMem(t)
      BY Zenon, <1>0, QuietMem DEF Unpin
<1>5. CvStep(t) /\ OwnCvs(t) /\ OwnStep(t)
      BY Zenon, <1>0, <1>1, QuietCvs DEF Unpin, OwnStep, Working
<1>6. Local(t)'
      BY Zenon, <1>1, CacheAssumption DEF Local, Place, Knows, Sizes, Working, Pins
<1>o. OthersStay(t) /\ failed' \in {"no", "LOG(FATAL)"}
      BY Zenon, <1>0, <1>1 DEF Unpin
<1> QED BY Zenon, <1>o, <1>2, <1>3, <1>4, <1>5, <1>6, StepKeeps

\* fetchBuffer pins the parent's buffer, or has to make one.
LEMMA FindInParentKeeps ==
    ASSUME Exclusive, IInv, InUsePinned, NEW t \in Threads, FindInParent(t)
    PROVE  IInv' /\ PinStep
<1>0. TypeOK /\ Local(t) /\ InUsePinned /\ failed \in {"no", "LOG(FATAL)"} /\ th[t].pc = "find"
      BY Zenon DEF IInv, FindInParent, At
<1>m. PICK k \in Keys : k = th[t].key
      BY Zenon, <1>0, Asked
<1>k. th[t].at = Cpu /\ th[t].mgr # Cpu /\ th[t].mgr \in Mgrs /\ Cpu \in Mgrs
      BY Zenon, <1>0, ThTypes DEF Local, Place, Mgrs
<1>n. UNCHANGED <<chunk_index, live, pages, size, in_progress, left, refused, failed>>
  <2>1. k \in chunk_index[Cpu] => k \in live[Cpu]
        BY SMTT(30), <1>0, <1>k, <1>m DEF IInv, Mem, OneOwner, Working
  <2> QED BY Zenon, <2>1, <1>m DEF FindInParent, bufVars
<1>l. k \in chunk_index[Cpu] => k \in live[Cpu]
      BY <1>0, <1>k, <1>m DEF IInv, Mem, OneOwner, Working
<1>g. /\ k \notin chunk_index[Cpu] => Goto(t, "create") /\ pins' = pins
      /\ k \in chunk_index[Cpu] =>
            /\ pins' = [pins EXCEPT ![Cpu][k] = @ + 1]
            /\ th[t].bytes > size[Cpu][k] => Goto(t, "fetch")
            /\ ~(th[t].bytes > size[Cpu][k]) => Goto(t, "copy")
      BY Zenon, <1>l, <1>m DEF FindInParent, bufVars
<1>1. /\ th' \in Threadings /\ OthersStay(t)
      /\ th'[t].mgr = th[t].mgr /\ th'[t].key = th[t].key
      /\ th'[t].bytes = th[t].bytes /\ th'[t].at = th[t].at
      /\ k \notin chunk_index[Cpu] => th'[t].pc = "create"
      /\ k \in chunk_index[Cpu] /\ th[t].bytes > size[Cpu][k] => th'[t].pc = "fetch"
      /\ k \in chunk_index[Cpu] /\ ~(th[t].bytes > size[Cpu][k]) => th'[t].pc = "copy"
      BY Zenon, <1>0, <1>g, GotoMoves DEF Pcs
<1>2. TypeOK'
  <2>1. pins \in [Mgrs -> [Keys -> Nat]]
        BY Zenon, <1>0 DEF TypeOK
  <2>2. pins' \in [Mgrs -> [Keys -> Nat]]
        BY <1>g, <1>k, <2>1
  <2> QED BY Zenon, <2>2, <1>0, <1>1, <1>n DEF TypeOK, Threadings
<1>3. MemChange(t) /\ OwnMem(t)
      BY Zenon, <1>0, <1>n, QuietMem
<1>4. CvStep(t) /\ OwnCvs(t) /\ OwnStep(t)
  <2>1. th'[t].pc \in {"create", "fetch", "copy"}
        BY Zenon, <1>1
  <2> QED BY Zenon, <2>1, <1>0, <1>1, <1>n, QuietCvs DEF OwnStep, Working
<1>5. CASE k \notin chunk_index[Cpu]
  <2>1. \A m \in Mgrs, q \in Keys : Pins(t, m, q)' <=> Pins(t, m, q)
        BY Zenon, <1>5, <1>0, <1>1, <1>k DEF Pins
  <2>2. Local(t)'
        BY Zenon, <2>1, <1>5, <1>0, <1>1, <1>k, <1>m, <1>n DEF Local, Place, Knows, Sizes, Working
  <2>3. PinStep
        BY Zenon, <2>1, <1>5, <1>0, <1>1, <1>g, <1>n, OthersPins, PinsKept
  <2>o. OthersStay(t) /\ failed' \in {"no", "LOG(FATAL)"}
        BY Zenon, <1>0, <1>1, <1>n
  <2> QED BY Zenon, <2>o, <2>2, <2>3, <1>2, <1>3, <1>4, StepKeeps
<1>6. CASE k \in chunk_index[Cpu]
  <2>1. ~Pins(t, Cpu, k) /\ Pins(t, Cpu, k)'
        BY Zenon, <1>6, <1>0, <1>1, <1>k, <1>m DEF Pins
  <2>2. \A m \in Mgrs, q \in Keys : m # Cpu \/ q # k => (Pins(t, m, q)' <=> Pins(t, m, q))
        BY Zenon, <1>6, <1>0, <1>1, <1>k, <1>m DEF Pins
  <2>3. OnlyPin(t, Cpu, k)
        BY Zenon, <2>2, <1>0, <1>1, OthersPins DEF OnlyPin
  <2>4. PinStep
        BY Zenon, <2>1, <2>3, <1>0, <1>6, <1>g, <1>k, <1>n, PinsGained
  <2>5. Place(t)'
        BY Zenon, <1>6, <1>0, <1>1, <1>k DEF Local, Place
  <2>6. Knows(t)'
        BY Zenon, <2>1, <2>2, <1>6, <1>0, <1>1, <1>k, <1>l, <1>n DEF Local, Knows, Working
  <2>7. size[Cpu][k] \in Nat /\ th[t].bytes \in Nat
        BY Zenon, <1>0, <1>k, BufTypes, ThTypes
  <2>8. Sizes(t)'
        BY <2>7, <1>6, <1>0, <1>1, <1>k, <1>m, <1>n DEF Local, Sizes
  <2>9. Local(t)'
        BY Zenon, <2>5, <2>6, <2>8 DEF Local
  <2>o. OthersStay(t) /\ failed' \in {"no", "LOG(FATAL)"}
        BY Zenon, <1>0, <1>1, <1>n
  <2> QED BY Zenon, <2>o, <2>4, <2>9, <1>2, <1>3, <1>4, StepKeeps
<1> QED BY Zenon, <1>5, <1>6

\* The constructor of a buffer evicts others and takes the first pin.
LEMMA ConstructKeeps ==
    ASSUME Exclusive, IInv, InUsePinned, NEW t \in Threads, Construct(t)
    PROVE  IInv' /\ PinStep
<1>0. TypeOK /\ Local(t) /\ InUsePinned /\ failed \in {"no", "LOG(FATAL)"} /\ th[t].pc = "construct"
      BY Zenon DEF IInv, Construct, At
<1>m. PICK m \in Mgrs, k \in Keys, n \in Nat \ {0} : m = th[t].at /\ k = th[t].key /\ n = th[t].bytes
      BY <1>0, Asked, ThTypes
<1>k. k \in chunk_index[m] /\ k \notin live[m] /\ th[t].mgr \in Mgrs
      BY Zenon, <1>0, <1>m, ThTypes DEF Local, Knows
<1>n. /\ pins' = [pins EXCEPT ![m][k] = 1]
      /\ UNCHANGED <<in_progress, left, refused, failed>>
      BY Zenon, <1>m DEF Construct
<1>g. PICK gone \in Victims(m, k, n) :
          Reserve(m, k, n, gone) /\ size' = [size EXCEPT ![m] = SizeAfter(m, k, 0, gone)]
      BY Zenon, <1>m DEF Construct
<1>1. /\ th' \in Threadings /\ OthersStay(t)
      /\ th'[t].pc = "fetch" /\ th'[t].mgr = th[t].mgr /\ th'[t].key = th[t].key
      /\ th'[t].bytes = th[t].bytes /\ th'[t].at = th[t].at
      BY Zenon, <1>0, GotoMoves DEF Construct, Pcs
<1>r. Reserved(t, m, k, 0)
  <2>1. Working(t) /\ th[t].at = m /\ k = th[t].key
        BY Zenon, <1>0, <1>m DEF Working
  <2> QED BY Zenon, <2>1, <1>g, <1>k, ReserveMem
<1>3. /\ MemChange(t) /\ OwnMem(t)
      /\ chunk_index' \in [Mgrs -> SUBSET Keys] /\ live' \in [Mgrs -> SUBSET Keys]
      /\ pages' \in [Mgrs -> [Keys -> Nat]] /\ size' \in [Mgrs -> [Keys -> Nat]]
      /\ k \in live'[m] /\ size'[m][k] = 0
      /\ \A o \in Mgrs \ {m} : Same(o, k)
      BY Zenon, <1>r DEF Reserved
<1>2. TypeOK'
  <2>1. pins \in [Mgrs -> [Keys -> Nat]]
        BY Zenon, <1>0 DEF TypeOK
  <2>2. pins' \in [Mgrs -> [Keys -> Nat]]
        BY Zenon, <1>n, <2>1
  <2> QED BY Zenon, <2>2, <1>0, <1>1, <1>3, <1>n DEF TypeOK, Threadings
<1>4. CvStep(t) /\ OwnCvs(t) /\ OwnStep(t)
      BY Zenon, <1>0, <1>1, <1>n, QuietCvs DEF OwnStep, Working
<1>5. /\ Pins(t, m, k)'
      /\ \A o \in Mgrs, q \in Keys : o # m \/ q # k => (Pins(t, o, q)' <=> Pins(t, o, q))
      BY Zenon, <1>0, <1>1, <1>m, <1>k DEF Pins, Local, Place
<1>6. PinStep
  <2>1. \A u \in Threads : ~Pins(u, m, k)
        BY Zenon, <1>k DEF IInv, Local, Knows
  <2>2. OnlyPin(t, m, k)
        BY Zenon, <1>5, <1>0, <1>1, OthersPins DEF OnlyPin
  <2> QED BY Zenon, <2>1, <2>2, <1>5, <1>0, <1>n, PinsFirst
<1>7. Local(t)'
  <2>1. Place(t)'
        BY Zenon, <1>0, <1>1 DEF Local, Place
  <2>2. Knows(t)'
    <3>1. \A o \in Mgrs, q \in Keys : Pins(t, o, q)' => q = k
          BY Zenon, <1>1, <1>m DEF Pins
    <3>2. \A o \in Mgrs, q \in Keys : Pins(t, o, q)' => q \in live'[o]
          BY <3>1, <1>0, <1>3, <1>5 DEF Local, Knows, Same
    <3> QED BY Zenon, <3>2, <1>0, <1>1, <1>n DEF Local, Knows, Working
  <2>3. Sizes(t)'
        BY <1>0, <1>1, <1>3, <1>m, <1>k DEF Local, Sizes, Same
  <2> QED BY Zenon, <2>1, <2>2, <2>3 DEF Local
<1>o. OthersStay(t) /\ failed' \in {"no", "LOG(FATAL)"}
      BY Zenon, <1>0, <1>1, <1>n
<1> QED BY Zenon, <1>o, <1>2, <1>3, <1>4, <1>6, <1>7, StepKeeps

\* The storage fills the buffer.
LEMMA FetchFromStorageKeeps ==
    ASSUME Exclusive, IInv, InUsePinned, NEW t \in Threads, FetchFromStorage(t)
    PROVE  IInv' /\ PinStep
<1>0. /\ TypeOK /\ Local(t) /\ InUsePinned /\ failed \in {"no", "LOG(FATAL)"}
      /\ th[t].pc = "fetch" /\ th[t].at = Cpu
      BY Zenon DEF IInv, FetchFromStorage, At
<1>m. PICK k \in Keys, n \in Nat \ {0} : k = th[t].key /\ n = th[t].bytes
      BY SMTT(30), <1>0, Asked, ThTypes
<1>k. k \in chunk_index[Cpu] /\ k \in live[Cpu] /\ Cpu \in Mgrs /\ size[Cpu][k] < n
  <2>1. Cpu \in Mgrs
        BY Zenon DEF Mgrs
  <2>2. Pins(t, Cpu, k)
        BY Zenon, <1>0, <1>m DEF Pins
  <2> QED BY Zenon, <2>1, <2>2, <1>0, <1>m DEF IInv, Mem, Local, Knows, Sizes
<1>n. UNCHANGED <<pins, in_progress, left, refused, failed>> /\ Goto(t, AfterFetch(t))
      BY Zenon DEF FetchFromStorage
<1>1. /\ th' \in Threadings /\ OthersStay(t)
      /\ th'[t].pc = (IF th[t].at = th[t].mgr THEN "finish" ELSE "copy")
      /\ th'[t].mgr = th[t].mgr /\ th'[t].key = th[t].key
      /\ th'[t].bytes = th[t].bytes /\ th'[t].at = th[t].at
      BY Zenon, <1>0, <1>n, GotoMoves DEF AfterFetch, Pcs
<1>r. Reserved(t, Cpu, k, n)
  <2>1. PICK p \in Nat \ {0} : p = (IF pages[Cpu][k] >= n THEN pages[Cpu][k] ELSE n)
    <3>1. pages[Cpu][k] \in Nat
          BY Zenon, <1>0, <1>k, BufTypes
    <3> QED BY <3>1
  <2>2. PICK gone \in Victims(Cpu, k, n) :
            Reserve(Cpu, k, p, gone) /\ size' = [size EXCEPT ![Cpu] = SizeAfter(Cpu, k, n, gone)]
        BY Zenon, <2>1, <1>m DEF FetchFromStorage
  <2>3. Working(t) /\ k = th[t].key
        BY Zenon, <1>0, <1>m DEF Working
  <2>4. n >= size[Cpu][k] /\ n \in Nat
    <3>1. size[Cpu][k] \in Nat
          BY Zenon, <1>0, <1>k, BufTypes
    <3> QED BY <3>1, <1>k
  <2> QED BY Zenon, <2>2, <2>3, <2>4, <1>0, <1>k, ReserveMem
<1>3. /\ MemChange(t) /\ OwnMem(t)
      /\ chunk_index' \in [Mgrs -> SUBSET Keys] /\ live' \in [Mgrs -> SUBSET Keys]
      /\ pages' \in [Mgrs -> [Keys -> Nat]] /\ size' \in [Mgrs -> [Keys -> Nat]]
      /\ k \in live'[Cpu] /\ size'[Cpu][k] = n
      /\ \A o \in Mgrs \ {Cpu} : Same(o, k)
      BY Zenon, <1>r DEF Reserved
<1>2. TypeOK'
      BY Zenon, <1>0, <1>1, <1>3, <1>n DEF TypeOK, Threadings
<1>4. CvStep(t) /\ OwnCvs(t) /\ OwnStep(t)
      BY Zenon, <1>0, <1>1, <1>n, QuietCvs DEF OwnStep, Working
<1>5. \A m \in Mgrs, q \in Keys : Pins(t, m, q)' <=> Pins(t, m, q)
      BY Zenon, <1>0, <1>1 DEF Pins
<1>6. PinStep
      BY Zenon, <1>5, <1>0, <1>1, <1>n, OthersPins, PinsKept
<1>7. Local(t)'
  <2>1. Place(t)'
        BY Zenon, <1>0, <1>1 DEF Local, Place
  <2>2. \A m \in Mgrs, q \in Keys : Pins(t, m, q)' => q \in live'[m]
    <3>1. \A m \in Mgrs, q \in Keys : Pins(t, m, q) => q = k /\ q \in live[m]
          BY Zenon, <1>0, <1>m DEF Pins, Local, Knows
    <3> QED BY <3>1, <1>3, <1>5 DEF Same
  <2>3. Knows(t)'
        BY Zenon, <2>2, <1>0, <1>1, <1>n DEF Local, Knows, Working
  <2>4. Sizes(t)'
        BY <1>0, <1>1, <1>3, <1>m, ThTypes DEF Local, Sizes, Same
  <2> QED BY Zenon, <2>1, <2>3, <2>4 DEF Local
<1>o. OthersStay(t) /\ failed' \in {"no", "LOG(FATAL)"}
      BY Zenon, <1>0, <1>1, <1>n
<1> QED BY Zenon, <1>o, <1>2, <1>3, <1>4, <1>6, <1>7, StepKeeps

\* fetchBuffer copies to the child and gives back its pin: copyTo's CHECK is never met.
LEMMA CopyToKeeps ==
    ASSUME Exclusive, IInv, InUsePinned, NEW t \in Threads, CopyTo(t)
    PROVE  IInv' /\ PinStep
<1>0. TypeOK /\ Local(t) /\ InUsePinned /\ failed \in {"no", "LOG(FATAL)"} /\ th[t].pc = "copy"
      BY Zenon DEF IInv, CopyTo, At
<1>m. PICK m \in Mgrs, k \in Keys, n \in Nat \ {0} : m = th[t].mgr /\ k = th[t].key /\ n = th[t].bytes
      BY <1>0, Asked, ThTypes
<1>a. th[t].at = Cpu /\ m # Cpu /\ Cpu \in Mgrs
      BY Zenon, <1>0, <1>m DEF Local, Place, Mgrs
<1>k. k \in chunk_index[m] /\ k \in live[m] /\ size[m][k] < n
  <2>1. Pins(t, m, k)
        BY Zenon, <1>0, <1>m DEF Pins
  <2> QED BY Zenon, <2>1, <1>0, <1>m, <1>a DEF IInv, Mem, Local, Knows, Sizes
<1>f. ~(size[Cpu][k] < n)
  <2>1. size[Cpu][k] \in Nat /\ size[Cpu][k] >= n
        BY Zenon, <1>0, <1>m, <1>a, BufTypes DEF Local, Sizes
  <2> QED BY SMTT(30), <2>1
<1>n. /\ UNCHANGED <<in_progress, left, refused, failed>>
      /\ pins' = [pins EXCEPT ![Cpu][k] = @ - 1]
      /\ th' = [th EXCEPT ![t].pc = "finish", ![t].at = m]
      BY Zenon, <1>f, <1>m DEF CopyTo
<1>1. /\ th' \in Threadings /\ OthersStay(t)
      /\ th'[t].pc = "finish" /\ th'[t].mgr = th[t].mgr /\ th'[t].key = th[t].key
      /\ th'[t].bytes = th[t].bytes /\ th'[t].at = m
  <2>1. th \in Threadings
        BY Zenon, <1>0 DEF TypeOK, Threadings
  <2> QED BY Zenon, <2>1, <1>n DEF Threadings, OthersStay
<1>r. Reserved(t, m, k, n)
  <2>1. PICK p \in Nat \ {0} : p = (IF pages[m][k] >= n THEN pages[m][k] ELSE n)
    <3>1. pages[m][k] \in Nat
          BY Zenon, <1>0, <1>k, BufTypes
    <3> QED BY <3>1
  <2>2. PICK gone \in Victims(m, k, n) :
            Reserve(m, k, p, gone) /\ size' = [size EXCEPT ![m] = SizeAfter(m, k, n, gone)]
        BY Zenon, <2>1, <1>m, <1>f DEF CopyTo
  <2>3. Working(t) /\ k = th[t].key
        BY Zenon, <1>0, <1>m DEF Working
  <2>4. n >= size[m][k] /\ n \in Nat
    <3>1. size[m][k] \in Nat
          BY Zenon, <1>0, <1>k, BufTypes
    <3> QED BY <3>1, <1>k
  <2> QED BY Zenon, <2>2, <2>3, <2>4, <1>0, <1>k, ReserveMem
<1>3. /\ MemChange(t) /\ OwnMem(t)
      /\ chunk_index' \in [Mgrs -> SUBSET Keys] /\ live' \in [Mgrs -> SUBSET Keys]
      /\ pages' \in [Mgrs -> [Keys -> Nat]] /\ size' \in [Mgrs -> [Keys -> Nat]]
      /\ k \in live'[m] /\ size'[m][k] = n
      BY Zenon, <1>r DEF Reserved
<1>5. PinStep /\ pins' \in [Mgrs -> [Keys -> Nat]]
  <2>1. Pins(t, Cpu, k) /\ ~Pins(t, Cpu, k)'
        BY Zenon, <1>0, <1>1, <1>a, <1>m DEF Pins
  <2>2. \A o \in Mgrs, q \in Keys : o # Cpu \/ q # k => (Pins(t, o, q)' <=> Pins(t, o, q))
        BY Zenon, <1>0, <1>1, <1>a, <1>m DEF Pins
  <2>3. OnlyPin(t, Cpu, k)
        BY Zenon, <2>2, <1>0, <1>1, OthersPins DEF OnlyPin
  <2> QED BY Zenon, <2>1, <2>3, <1>0, <1>a, <1>n, PinsLost
<1>2. TypeOK'
      BY Zenon, <1>0, <1>1, <1>3, <1>5, <1>n DEF TypeOK, Threadings
<1>4. CvStep(t) /\ OwnCvs(t) /\ OwnStep(t)
      BY Zenon, <1>0, <1>1, <1>n, QuietCvs DEF OwnStep, Working
<1>6. Local(t)'
  <2>1. Place(t)'
        BY Zenon, <1>0, <1>1, <1>m DEF Local, Place
  <2>2. \A o \in Mgrs, q \in Keys : Pins(t, o, q)' => q = k /\ o = m
        BY Zenon, <1>1, <1>m DEF Pins
  <2>3. Knows(t)'
        BY Zenon, <2>2, <1>0, <1>1, <1>3, <1>n DEF Local, Knows, Working
  <2>4. Sizes(t)'
        BY SMTT(30), <1>1, <1>3, <1>m DEF Sizes
  <2> QED BY Zenon, <2>1, <2>3, <2>4 DEF Local
<1>o. OthersStay(t) /\ failed' \in {"no", "LOG(FATAL)"}
      BY Zenon, <1>0, <1>1, <1>n
<1> QED BY Zenon, <1>o, <1>2, <1>3, <1>4, <1>5, <1>6, StepKeeps

\* The buffer takes the memory of the storage.
LEMMA ConstructZeroCopyKeeps ==
    ASSUME Exclusive, ZeroCopyFixed, IInv, InUsePinned, NEW t \in Threads, ConstructZeroCopy(t)
    PROVE  IInv' /\ PinStep
<1>0. /\ TypeOK /\ Local(t) /\ InUsePinned /\ failed \in {"no", "LOG(FATAL)"}
      /\ th[t].pc = "construct" /\ th[t].mgr = Cpu /\ th[t].key \in ZeroCopyKeys
      BY Zenon DEF IInv, ConstructZeroCopy, ZeroCopy, At
<1>m. PICK k \in Keys, n \in Nat \ {0} : k = th[t].key /\ n = th[t].bytes
      BY SMTT(30), <1>0, Asked, ThTypes
<1>k. Cpu \in Mgrs /\ th[t].at = Cpu /\ k \in chunk_index[Cpu] /\ k \notin live[Cpu]
      BY Zenon, <1>0, <1>m DEF Mgrs, Local, Place, Knows
<1>n. /\ live' = [live EXCEPT ![Cpu] = @ \cup {k}]
      /\ pins' = [pins EXCEPT ![Cpu][k] = 1]
      /\ size' = [size EXCEPT ![Cpu][k] = n]
      /\ UNCHANGED <<chunk_index, pages, in_progress, left, refused, failed>>
      BY Zenon, <1>m DEF ConstructZeroCopy
<1>1. /\ th' \in Threadings /\ OthersStay(t)
      /\ th'[t].pc = "finish" /\ th'[t].mgr = th[t].mgr /\ th'[t].key = th[t].key
      /\ th'[t].bytes = th[t].bytes /\ th'[t].at = th[t].at
      BY Zenon, <1>0, GotoMoves DEF ConstructZeroCopy, Pcs
<1>l. /\ live' \in [Mgrs -> SUBSET Keys]
      /\ \A m \in Mgrs, q \in Keys : q \in live'[m] <=> q \in live[m] \/ (m = Cpu /\ q = k)
  <2>1. live \in [Mgrs -> SUBSET Keys]
        BY Zenon, <1>0 DEF TypeOK
  <2> QED BY Zenon, <2>1, <1>n, <1>k
<1>s. /\ size' \in [Mgrs -> [Keys -> Nat]] /\ size'[Cpu][k] = n
      /\ \A m \in Mgrs, q \in Keys : m # Cpu \/ q # k => size'[m][q] = size[m][q]
  <2>1. size \in [Mgrs -> [Keys -> Nat]]
        BY Zenon, <1>0 DEF TypeOK
  <2> QED BY Zenon, <2>1, <1>n, <1>k
<1>2. TypeOK'
  <2>1. pins \in [Mgrs -> [Keys -> Nat]]
        BY Zenon, <1>0 DEF TypeOK
  <2>2. pins' \in [Mgrs -> [Keys -> Nat]]
        BY Zenon, <1>n, <2>1
  <2> QED BY Zenon, <2>2, <1>0, <1>1, <1>l, <1>s, <1>n DEF TypeOK, Threadings
<1>3. MemChange(t)
  <2>1. \A m \in Mgrs, q \in Keys : q # k => Same(m, q)
        BY Zenon, <1>l, <1>s, <1>n DEF Same
  <2>2. \A m \in Mgrs : k \in live[m] => k \in live'[m] /\ size'[m][k] >= size[m][k]
    <3>1. \A m \in Mgrs : size[m][k] \in Nat
          BY Zenon, <1>0, BufTypes
    <3> QED BY <3>1, <1>k, <1>l, <1>s
  <2> QED BY Zenon, <2>1, <2>2, <1>0, <1>m DEF MemChange, MemStep, Working
<1>4. OwnMem(t)
  <2> SUFFICES ASSUME NEW m \in Mgrs
               PROVE  /\ k \in live'[m] => k \in chunk_index'[m]
                      /\ k \in chunk_index'[m] => k \in live'[m]
                      /\ k \in live'[m] /\ pages'[m][k] = 0 =>
                            \A r \in Requests : r[2] = k => size'[m][k] >= r[3]
      BY Zenon, <1>m DEF OwnMem
  <2>1. CASE m = Cpu
    <3>1. <<Cpu, k, n>> \in Requests
          BY Zenon, <1>0, <1>m DEF Local, Place
    <3>2. \A r \in Requests : r[2] = k => r[3] = n
          BY Zenon, <3>1, <1>0, <1>m DEF ZeroCopyFixed
    <3> QED BY SMTT(30), <2>1, <3>2, <1>k, <1>l, <1>s, <1>n
  <2>2. CASE m # Cpu
    <3>1. k \in chunk_index[m] => k \in live[m]
          BY SMTT(30), <2>2, <1>0, <1>k, <1>m DEF IInv, Mem, OneOwner, Working
    <3> QED BY SMTT(30), <2>2, <3>1, <1>l, <1>s, <1>n DEF IInv, Mem
  <2> QED BY Zenon, <2>1, <2>2
<1>5. CvStep(t) /\ OwnCvs(t) /\ OwnStep(t)
      BY Zenon, <1>0, <1>1, <1>n, QuietCvs DEF OwnStep, Working
<1>6. /\ Pins(t, Cpu, k)'
      /\ \A o \in Mgrs, q \in Keys : o # Cpu \/ q # k => (Pins(t, o, q)' <=> Pins(t, o, q))
      BY Zenon, <1>0, <1>1, <1>m, <1>k DEF Pins
<1>7. PinStep
  <2>1. \A u \in Threads : ~Pins(u, Cpu, k)
        BY Zenon, <1>k DEF IInv, Local, Knows
  <2>2. OnlyPin(t, Cpu, k)
        BY Zenon, <1>6, <1>0, <1>1, OthersPins DEF OnlyPin
  <2> QED BY Zenon, <2>1, <2>2, <1>6, <1>0, <1>k, <1>n, PinsFirst
<1>8. Local(t)'
  <2>1. Place(t)'
        BY Zenon, <1>0, <1>1, <1>k DEF Local, Place
  <2>2. Knows(t)'
        BY Zenon, <1>0, <1>1, <1>6, <1>l, <1>n DEF Local, Knows, Working
  <2>3. Sizes(t)'
        BY SMTT(30), <1>0, <1>1, <1>k, <1>m, <1>s DEF Sizes
  <2> QED BY Zenon, <2>1, <2>2, <2>3 DEF Local
<1>o. OthersStay(t) /\ failed' \in {"no", "LOG(FATAL)"}
      BY Zenon, <1>0, <1>1, <1>n
<1> QED BY Zenon, <1>o, <1>2, <1>3, <1>4, <1>5, <1>7, <1>8, StepKeeps

\* The constructor is refused memory.
LEMMA ConstructFailsKeeps ==
    ASSUME Exclusive, IInv, InUsePinned, NEW t \in Threads, ConstructFails(t)
    PROVE  IInv' /\ PinStep
<1>0. TypeOK /\ Local(t) /\ InUsePinned /\ failed \in {"no", "LOG(FATAL)"} /\ th[t].pc = "construct"
      BY Zenon DEF IInv, ConstructFails, At
<1>m. PICK m \in Mgrs, k \in Keys : m = th[t].at /\ k = th[t].key
      BY Zenon, <1>0, Asked, ThTypes
<1>1. CASE Abort("LOG(FATAL)")
      BY Zenon, <1>1, AbortKeeps
<1>2. CASE /\ chunk_index' = [chunk_index EXCEPT ![m] = @ \ {k}]
           /\ Throw(t)
           /\ UNCHANGED <<live, pins, pages, size>>
  <2>1. k \notin live[m]
        BY Zenon, <1>0, <1>m DEF Local, Knows
  <2>2. /\ chunk_index' \in [Mgrs -> SUBSET Keys]
        /\ \A o \in Mgrs, q \in Keys : q \in chunk_index'[o] <=>
              q \in chunk_index[o] /\ ~(o = m /\ q = k)
    <3>1. chunk_index \in [Mgrs -> SUBSET Keys]
          BY Zenon, <1>0 DEF TypeOK
    <3> QED BY Zenon, <3>1, <1>2
  <2>3. /\ th' \in Threadings /\ OthersStay(t) /\ refused' \in BOOLEAN
        /\ UNCHANGED <<in_progress, left, failed>>
        /\ Local(t)' /\ PinStep /\ CvStep(t) /\ OwnStep(t) /\ OwnCvs(t)
        BY Zenon, <1>0, <1>2, ThrowMoves
  <2>4. TypeOK'
        BY Zenon, <2>2, <2>3, <1>0, <1>2 DEF TypeOK, Threadings
  <2>5. MemChange(t)
    <3>1. \A o \in Mgrs, q \in Keys : q # k => Same(o, q)
          BY Zenon, <2>2, <1>2 DEF Same
    <3>2. \A o \in Mgrs : size'[o][k] >= size[o][k]
          BY SMTT(30), <1>2, <1>0, BufTypes
    <3> QED BY Zenon, <3>1, <3>2, <1>0, <1>2, <1>m DEF MemChange, MemStep, Working
  <2>6. OwnMem(t)
    <3>1. \A o \in Mgrs \ {m} : k \in chunk_index[o] => k \in live[o]
          BY <1>0, <1>m DEF IInv, Mem, OneOwner, Working
    <3> QED BY <3>1, <2>1, <2>2, <1>2, <1>m DEF OwnMem, IInv, Mem
  <2> QED BY Zenon, <2>3, <2>4, <2>5, <2>6, <1>0, StepKeeps
<1> QED BY Zenon, <1>1, <1>2, <1>m DEF ConstructFails

\* The storage's reserve is refused: the buffer has pages, so it keeps its size.
LEMMA FetchFailsKeeps ==
    ASSUME Exclusive, IInv, InUsePinned, NEW t \in Threads, FetchFails(t)
    PROVE  IInv' /\ PinStep
<1>0. /\ TypeOK /\ Local(t) /\ InUsePinned /\ failed \in {"no", "LOG(FATAL)"}
      /\ th[t].pc = "fetch" /\ th[t].at = Cpu
      BY Zenon DEF IInv, FetchFails, At
<1>m. PICK k \in Keys, n \in Nat \ {0} : k = th[t].key /\ n = th[t].bytes
      BY <1>0, Asked, ThTypes
<1>1. CASE Abort("LOG(FATAL)")
      BY Zenon, <1>1, AbortKeeps
<1>2. CASE /\ size' = [size EXCEPT ![Cpu][k] = IF pages[Cpu][k] = 0 THEN 0 ELSE @]
           /\ Throw(t)
           /\ UNCHANGED <<chunk_index, live, pins, pages>>
  <2>1. pages[Cpu][k] # 0
    <3>1. Cpu \in Mgrs /\ size[Cpu][k] < n /\ <<th[t].mgr, k, n>> \in Requests
          BY Zenon, <1>0, <1>m DEF Mgrs, Local, Place, Sizes
    <3>2. Pins(t, Cpu, k) /\ size[Cpu][k] \in Nat
          BY Zenon, <3>1, <1>0, <1>m, BufTypes DEF Pins
    <3>3. pages[Cpu][k] = 0 => size[Cpu][k] >= n
          BY <3>1, <3>2, <1>0 DEF Local, Knows, IInv, Mem
    <3> QED BY SMTT(30), <3>1, <3>2, <3>3
  <2>2. size' = size
    <3>1. size \in [Mgrs -> [Keys -> Nat]]
          BY Zenon, <1>0 DEF TypeOK
    <3> QED BY Zenon, <3>1, <2>1, <1>2
  <2>3. /\ th' \in Threadings /\ OthersStay(t) /\ refused' \in BOOLEAN
        /\ UNCHANGED <<in_progress, left, failed>>
        /\ Local(t)' /\ PinStep /\ CvStep(t) /\ OwnStep(t) /\ OwnCvs(t)
        BY Zenon, <1>0, <1>2, ThrowMoves
  <2>4. TypeOK'
        BY Zenon, <2>2, <2>3, <1>0, <1>2 DEF TypeOK, Threadings
  <2>5. MemChange(t) /\ OwnMem(t)
        BY Zenon, <2>2, <1>0, <1>2, QuietMem
  <2> QED BY Zenon, <2>3, <2>4, <2>5, <1>0, StepKeeps
<1> QED BY Zenon, <1>1, <1>2, <1>m DEF FetchFails

\* The reserve of copyTo is refused.
LEMMA CopyFailsKeeps ==
    ASSUME Exclusive, IInv, InUsePinned, NEW t \in Threads, CopyFails(t)
    PROVE  IInv' /\ PinStep
<1>0. TypeOK /\ Local(t) /\ InUsePinned /\ failed \in {"no", "LOG(FATAL)"} /\ th[t].pc = "copy"
      BY Zenon DEF IInv, CopyFails, At
<1>1. Throw(t) /\ UNCHANGED <<chunk_index, live, pins, pages, size>>
      BY Zenon DEF CopyFails, bufVars
<1>2. /\ th' \in Threadings /\ OthersStay(t) /\ refused' \in BOOLEAN
      /\ UNCHANGED <<in_progress, left, failed>>
      /\ Local(t)' /\ PinStep /\ CvStep(t) /\ OwnStep(t) /\ OwnCvs(t)
      BY Zenon, <1>0, <1>1, ThrowMoves
<1>3. TypeOK'
      BY Zenon, <1>0, <1>1, <1>2 DEF TypeOK, Threadings
<1>4. MemChange(t) /\ OwnMem(t)
      BY Zenon, <1>0, <1>1, QuietMem
<1> QED BY Zenon, <1>0, <1>2, <1>3, <1>4, StepKeeps
-----------------------------------------------------------------------------
\* Nothing happens.
LEMMA StutterKeeps ==
    ASSUME IInv, UNCHANGED vars
    PROVE  IInv' /\ PinStep
<1>0. UNCHANGED <<chunk_index, live, pins, pages, size, in_progress, th, left, refused, failed>>
      BY Zenon DEF vars, bufVars
<1>1. TypeOK'
      BY Zenon, <1>0 DEF IInv, TypeOK
<1>2. \A t \in Threads : Local(t)'
      BY ZenonT(30), <1>0 DEF IInv, Local, Place, Knows, Sizes, Working, Pins
<1>3. OneOwner' /\ Mem' /\ CvsOwned'
      BY <1>0 DEF IInv, OneOwner, Mem, CvsOwned, Working
<1>4. PinStep
      BY <1>0, PinsKept DEF Pins
<1> QED BY Zenon, <1>0, <1>1, <1>2, <1>3, <1>4 DEF IInv

\* Every step keeps the invariant, and takes or gives back one pin at most.
LEMMA NextKeeps ==
    ASSUME Exclusive, ZeroCopyFixed, IInv, InUsePinned, [Next]_vars
    PROVE  IInv' /\ PinStep
<1>1. ASSUME NEW t \in Threads, NEW r \in Requests, Request(t, r[1], r[2], r[3])
      PROVE  IInv' /\ PinStep
      BY Zenon, <1>1, RequestKeeps
<1>2. ASSUME NEW t \in Threads, Step(t)
      PROVE  IInv' /\ PinStep
  <2>1. CASE Wait(t)
        BY Zenon, <2>1, WaitKeeps
  <2>2. CASE Hit(t)
        BY Zenon, <2>2, HitKeeps
  <2>3. CASE Miss(t)
        BY Zenon, <2>3, MissKeeps
  <2>4. CASE Create(t)
        BY Zenon, <2>4, CreateKeeps
  <2>5. CASE ConstructZeroCopy(t)
        BY Zenon, <2>5, ConstructZeroCopyKeeps
  <2>6. CASE Construct(t)
        BY Zenon, <2>6, ConstructKeeps
  <2>7. CASE ConstructFails(t)
        BY Zenon, <2>7, ConstructFailsKeeps
  <2>8. CASE FetchFromStorage(t)
        BY Zenon, <2>8, FetchFromStorageKeeps
  <2>9. CASE FetchFails(t)
        BY Zenon, <2>9, FetchFailsKeeps
  <2>10. CASE FetchFromParent(t)
        BY Zenon, <2>10, FetchFromParentKeeps
  <2>11. CASE FindInParent(t)
        BY Zenon, <2>11, FindInParentKeeps
  <2>12. CASE CopyTo(t)
        BY Zenon, <2>12, CopyToKeeps
  <2>13. CASE CopyFails(t)
        BY Zenon, <2>13, CopyFailsKeeps
  <2>14. CASE Finish(t)
        BY Zenon, <2>14, FinishKeeps
  <2>15. CASE Unpin(t)
        BY Zenon, <2>15, UnpinKeeps
  <2> QED BY Zenon, <1>2, <2>1, <2>2, <2>3, <2>4, <2>5, <2>6, <2>7, <2>8, <2>9, <2>10, <2>11,
             <2>12, <2>13, <2>14, <2>15 DEF Step
<1>3. CASE UNCHANGED vars
      BY Zenon, <1>3, StutterKeeps
<1> QED BY Zenon, <1>1, <1>2, <1>3 DEF Next
-----------------------------------------------------------------------------
\* An empty pool and no calls.
LEMMA InitKeeps ==
    ASSUME Init
    PROVE  IInv /\ PinsCounted
<1>0. Cpu \in Mgrs
      BY Zenon DEF Mgrs
<1>1. TypeOK
      BY Zenon, <1>0, CacheAssumption DEF Init, TypeOK, Idle
<1>2. \A t \in Threads : /\ th[t].pc = "idle" /\ th[t].key = NoKey
                         /\ th[t].at = Cpu /\ th[t].mgr = Cpu
      BY Zenon DEF Init, Idle
<1>3. \A t \in Threads : Local(t)
      BY Zenon, <1>2, CacheAssumption DEF Local, Place, Knows, Sizes, Working, Pins
<1>4. OneOwner /\ Mem /\ CvsOwned
      BY Zenon, <1>2 DEF Init, OneOwner, Mem, CvsOwned, Working
<1>5. PinsCounted
  <2> SUFFICES ASSUME NEW m \in Mgrs, NEW k \in Keys
               PROVE  pins[m][k] = 0 /\ Cardinality(Holders(m, k)) = 0
      BY DEF PinsCounted
  <2>1. Holders(m, k) = {}
        BY Zenon, <1>2, CacheAssumption DEF Holders
  <2> QED BY Zenon, <2>1, FS_EmptySet DEF Init
<1> QED BY Zenon, <1>1, <1>3, <1>4, <1>5 DEF IInv, Init

\* The inductive invariant holds of every behaviour.
LEMMA AlwaysIInv ==
    ASSUME Exclusive, ZeroCopyFixed
    PROVE  Spec => [](IInv /\ PinsCounted)
<1>1. Init => IInv /\ PinsCounted
      BY Zenon, InitKeeps
<1>2. IInv /\ PinsCounted /\ [Next]_vars => (IInv /\ PinsCounted)'
  <2> SUFFICES ASSUME IInv, PinsCounted, [Next]_vars
               PROVE  IInv' /\ PinsCounted'
      BY Zenon
  <2>1. TypeOK /\ InUsePinned
        BY Zenon, HolderPinned DEF IInv
  <2>2. IInv' /\ PinStep
        BY Zenon, <2>1, NextKeeps
  <2> QED BY Zenon, <2>1, <2>2, PinStepCounts
<1> QED BY <1>1, <1>2, PTL DEF Spec

\* The fields of a thread's call and of a buffer keep their types: no pin count drops
\* below zero.
THEOREM StateTyped ==
    ASSUME Exclusive, ZeroCopyFixed
    PROVE  Spec => []TypeOK
<1>1. IInv => TypeOK
      BY Zenon DEF IInv
<1> QED BY <1>1, AlwaysIInv, PTL

\* A chunk that getBuffer returned stays in the pool with all the bytes asked for
\* while the query works on it, whatever other threads evict, grow or are refused.
THEOREM HeldChunksComplete ==
    ASSUME Exclusive, ZeroCopyFixed
    PROVE  Spec => []HeldIsComplete
<1>1. IInv => HeldIsComplete
  <2> SUFFICES ASSUME IInv, NEW t \in Threads, th[t].pc = "held"
               PROVE  /\ th[t].key \in live[th[t].mgr]
                      /\ th[t].key \in chunk_index[th[t].mgr]
                      /\ size[th[t].mgr][th[t].key] >= th[t].bytes
      BY Zenon DEF HeldIsComplete
  <2>1. Local(t) /\ TypeOK
        BY Zenon DEF IInv
  <2>2. th[t].key \in Keys /\ th[t].mgr \in Mgrs
        BY Zenon, <2>1, Asked, ThTypes
  <2>3. Pins(t, th[t].mgr, th[t].key)
        BY Zenon DEF Pins
  <2> QED BY Zenon, <2>1, <2>2, <2>3 DEF Local, Knows, Sizes, IInv, Mem
<1> QED BY <1>1, AlwaysIInv, PTL

\* Every pin is some thread's, but for those that an exception in getBuffer left: the
\* pins of a constructor, a hit and fetchBuffer are each given back once.
THEOREM PinsBalance ==
    ASSUME Exclusive, ZeroCopyFixed
    PROVE  Spec => []PinsAreHeld
<1>1. PinsCounted => PinsAreHeld
      BY Zenon DEF PinsCounted, PinsAreHeld
<1> QED BY <1>1, AlwaysIInv, PTL

\* One thread at a time initializes or extends the buffer of a chunk, and owns its
\* condition variable; getBuffer, createBuffer, fetchBuffer and copyTo meet none of
\* their CHECKs and no null buffer.
THEOREM OneInitializes ==
    ASSUME Exclusive, ZeroCopyFixed
    PROVE  Spec => []OneInitializer
<1>1. IInv => OneInitializer
  <2> SUFFICES ASSUME IInv
               PROVE  OneInitializer
      BY Zenon
  <2>1. ASSUME NEW m \in Mgrs, NEW k \in Keys
        PROVE  LET owners == Cardinality({t \in Threads :
                                /\ th[t].mgr = m /\ th[t].key = k
                                /\ th[t].pc \notin {"idle", "look", "wait", "held"}})
               IN  /\ owners <= IF k \in in_progress[m] THEN 1 ELSE 0
                   /\ ~refused => owners = IF k \in in_progress[m] THEN 1 ELSE 0
    <3> DEFINE own == {t \in Threads : /\ th[t].mgr = m /\ th[t].key = k
                                       /\ th[t].pc \notin {"idle", "look", "wait", "held"}}
    <3>1. \A t \in own : Working(t) /\ t \in Threads /\ k \in in_progress[m]
          BY Zenon DEF IInv, Local, Knows, Working
    <3>2. \A t, u \in own : t = u
          BY Zenon, <3>1 DEF IInv, OneOwner
    <3>3. ~refused /\ k \in in_progress[m] => \E t \in Threads : t \in own
          BY DEF IInv, CvsOwned, Working
    <3>4. own = {} \/ \E t \in own : own = {t}
          BY Zenon, <3>2
    <3>5. /\ own = {} => Cardinality(own) = 0
          /\ own # {} => Cardinality(own) = 1
          BY Zenon, <3>4, FS_EmptySet, FS_Singleton
    <3>6. own # {} => k \in in_progress[m]
          BY Zenon, <3>1
    <3> HIDE DEF own
    <3>7. Cardinality(own) <= IF k \in in_progress[m] THEN 1 ELSE 0
          BY <3>5, <3>6
    <3>8. ~refused => Cardinality(own) = IF k \in in_progress[m] THEN 1 ELSE 0
          BY Zenon, <3>3, <3>5, <3>6
    <3> QED BY Zenon, <3>7, <3>8 DEF own
  <2>2. failed \in {"no", "LOG(FATAL)"}
        BY Zenon DEF IInv
  <2> QED BY Zenon, <2>1, <2>2 DEF OneInitializer
<1> QED BY <1>1, AlwaysIInv, PTL
=============================================================================

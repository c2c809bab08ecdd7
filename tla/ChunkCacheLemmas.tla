--------------------------- MODULE ChunkCacheLemmas ---------------------------
(***************************************************************************)
(* The inductive invariant of ChunkCache and what its actions have in      *)
(* common.  A thread between finding a chunk missing or short and          *)
(* returning it owns the condition variable of the chunk, so it is alone   *)
(* with the entry and the buffer it makes (Local, OneOwner); an entry      *)
(* without a buffer is one whose constructor runs (Mem).  A step keeps     *)
(* this as long as a buffer that a thread relies on is pinned              *)
(* (InUsePinned), and it is: each buffer has at least a pin for each of    *)
(* its holders (PinsCounted), so no reservation evicts it.                 *)
(***************************************************************************)
EXTENDS ChunkCache, FiniteSetTheorems, TLAPS

\* No chunk is asked of two managers.
Exclusive == \A r, s \in Requests : r[2] = s[2] => r[1] = s[1]

\* A chunk whose memory the storage hands out is asked for with one size only.
ZeroCopyFixed ==
    \A r, s \in Requests :
        r[1] = Cpu /\ r[2] \in ZeroCopyKeys /\ s[2] = r[2] => s[3] = r[3]

\* The thread initializes or extends a buffer.
Working(t) == th[t].pc \notin {"idle", "look", "wait", "held"}

\* The thread has a pin on the buffer of k at m.
Pins(t, m, k) ==
    /\ th[t].key = k
    /\ \/ th[t].mgr = m /\ th[t].pc \in {"held", "fetch", "find", "copy", "finish"}
       \/ th[t].mgr = m /\ th[t].at # m
       \/ th[t].mgr # m /\ th[t].at = m /\ th[t].pc \in {"fetch", "copy"}

\* Where a thread can be in getBuffer and fetchBuffer.
Place(t) ==
    /\ IF th[t].pc = "idle" THEN th[t].key = NoKey
       ELSE <<th[t].mgr, th[t].key, th[t].bytes>> \in Requests
    /\ th[t].at # th[t].mgr =>
          th[t].at = Cpu /\ th[t].pc \in {"find", "create", "construct", "fetch", "copy"}
    /\ th[t].pc \in {"find", "copy"} => th[t].at # th[t].mgr

\* What it knows of the entries and buffers of its chunk.
Knows(t) ==
    /\ Working(t) => th[t].key \in in_progress[th[t].mgr]
    /\ th[t].pc = "create" => th[t].key \notin chunk_index[th[t].at]
    /\ th[t].pc = "construct" =>
          th[t].key \in chunk_index[th[t].at] /\ th[t].key \notin live[th[t].at]
    /\ \A m \in Mgrs, k \in Keys : Pins(t, m, k) => k \in live[m]

\* What it knows of their sizes.
Sizes(t) ==
    /\ th[t].pc \in {"held", "finish"} => size[th[t].mgr][th[t].key] >= th[t].bytes
    /\ th[t].pc = "copy" => size[Cpu][th[t].key] >= th[t].bytes
    /\ th[t].pc = "fetch" => size[th[t].at][th[t].key] < th[t].bytes
    /\ th[t].at # th[t].mgr => size[th[t].mgr][th[t].key] < th[t].bytes

Local(t) == Place(t) /\ Knows(t) /\ Sizes(t)

OneOwner ==
    \A t, u \in Threads : Working(t) /\ Working(u) /\ th[t].key = th[u].key => t = u

\* An entry without a buffer is being constructed, and a buffer without pages is the
\* storage's and never too short.
Mem ==
    \A m \in Mgrs, k \in Keys :
        /\ k \in live[m] => k \in chunk_index[m]
        /\ k \in chunk_index[m] =>
              \/ k \in live[m]
              \/ \E t \in Threads : th[t].pc = "construct" /\ th[t].at = m /\ th[t].key = k
        /\ k \in live[m] /\ pages[m][k] = 0 =>
              \A r \in Requests : r[2] = k => size[m][k] >= r[3]

\* Unless an exception left getBuffer, a condition variable has its owner.
CvsOwned ==
    ~refused => \A m \in Mgrs, k \in Keys : k \in in_progress[m] =>
        \E t \in Threads : Working(t) /\ th[t].mgr = m /\ th[t].key = k

IInv ==
    /\ TypeOK
    /\ \A t \in Threads : Local(t)
    /\ OneOwner /\ Mem /\ CvsOwned
    /\ failed \in {"no", "LOG(FATAL)"}

\* A buffer that a thread relies on is pinned.
InUsePinned == \A t \in Threads, m \in Mgrs, k \in Keys : Pins(t, m, k) => pins[m][k] > 0
-----------------------------------------------------------------------------
\* Pin counts, pages and sizes are numbers.
LEMMA BufTypes ==
    ASSUME TypeOK, NEW m \in Mgrs, NEW k \in Keys
    PROVE  pins[m][k] \in Nat /\ pages[m][k] \in Nat /\ size[m][k] \in Nat
<1>1. pins \in [Mgrs -> [Keys -> Nat]]
      BY Zenon DEF TypeOK
<1>2. pages \in [Mgrs -> [Keys -> Nat]]
      BY Zenon DEF TypeOK
<1>3. size \in [Mgrs -> [Keys -> Nat]]
      BY Zenon DEF TypeOK
<1>4. pins[m] \in [Keys -> Nat] /\ pages[m] \in [Keys -> Nat] /\ size[m] \in [Keys -> Nat]
      BY Zenon, <1>1, <1>2, <1>3
<1> QED BY Zenon, <1>4

(* Pins.                                                                     *)

\* No pin changes hands but that of t on the buffer of k at m.
OnlyPin(t, m, k) ==
    \A u \in Threads, n \in Mgrs, q \in Keys :
        (u # t \/ n # m \/ q # k) => (Pins(u, n, q)' <=> Pins(u, n, q))

PinTaken(t, m, k) ==
    /\ ~Pins(t, m, k) /\ Pins(t, m, k)'
    /\ pins' = [pins EXCEPT ![m][k] = @ + 1]

FirstPin(t, m, k) ==
    /\ \A u \in Threads : ~Pins(u, m, k)
    /\ Pins(t, m, k)'
    /\ pins' = [pins EXCEPT ![m][k] = 1]

PinReturned(t, m, k) ==
    /\ Pins(t, m, k) /\ ~Pins(t, m, k)'
    /\ pins' = [pins EXCEPT ![m][k] = @ - 1]

\* No pin changes hands, an exception leaves pins without their thread, or one thread
\* takes or gives back one pin.
PinStep ==
    \/ /\ refused' = refused /\ pins' = pins
       /\ \A u \in Threads, m \in Mgrs, k \in Keys : Pins(u, m, k)' <=> Pins(u, m, k)
    \/ /\ refused' = TRUE /\ pins' = pins
       /\ \A u \in Threads, m \in Mgrs, k \in Keys : Pins(u, m, k)' => Pins(u, m, k)
    \/ /\ refused' = refused
       /\ \E t \in Threads, m \in Mgrs, k \in Keys :
             /\ OnlyPin(t, m, k)
             /\ PinTaken(t, m, k) \/ FirstPin(t, m, k) \/ PinReturned(t, m, k)

\* No pin is taken or given back.
LEMMA PinsKept ==
    ASSUME refused' = refused, pins' = pins,
           \A u \in Threads, m \in Mgrs, k \in Keys : Pins(u, m, k)' <=> Pins(u, m, k)
    PROVE  PinStep
BY Zenon DEF PinStep

\* Pins of an exception stay without their thread.
LEMMA PinsLeft ==
    ASSUME refused' = TRUE, pins' = pins,
           \A u \in Threads, m \in Mgrs, k \in Keys : Pins(u, m, k)' => Pins(u, m, k)
    PROVE  PinStep
BY Zenon DEF PinStep

\* The pin of a hit or of fetchBuffer.
LEMMA PinsGained ==
    ASSUME refused' = refused, NEW t \in Threads, NEW m \in Mgrs, NEW k \in Keys,
           ~Pins(t, m, k), Pins(t, m, k)', pins' = [pins EXCEPT ![m][k] = @ + 1],
           OnlyPin(t, m, k)
    PROVE  PinStep
BY Zenon DEF PinStep, PinTaken

\* The pin of a constructor.
LEMMA PinsFirst ==
    ASSUME refused' = refused, NEW t \in Threads, NEW m \in Mgrs, NEW k \in Keys,
           Pins(t, m, k)', \A u \in Threads : ~Pins(u, m, k),
           pins' = [pins EXCEPT ![m][k] = 1], OnlyPin(t, m, k)
    PROVE  PinStep
BY Zenon DEF PinStep, FirstPin

\* A pin is given back.
LEMMA PinsLost ==
    ASSUME TypeOK, InUsePinned, refused' = refused,
           NEW t \in Threads, NEW m \in Mgrs, NEW k \in Keys, Pins(t, m, k), ~Pins(t, m, k)',
           pins' = [pins EXCEPT ![m][k] = @ - 1],
           OnlyPin(t, m, k)
    PROVE  PinStep /\ pins' \in [Mgrs -> [Keys -> Nat]]
<1>1. pins \in [Mgrs -> [Keys -> Nat]]
      BY Zenon DEF TypeOK
<1>2. pins[m][k] - 1 \in Nat
      BY <1>1 DEF InUsePinned
<1>3. PinStep
      BY Zenon DEF PinStep, PinReturned
<1> QED BY Zenon, <1>1, <1>2, <1>3
-----------------------------------------------------------------------------
(* What a step of one thread does to the others.                             *)

\* The entry and the buffer of k at m stay as they are, or an unpinned buffer goes.
Same(m, k) ==
    /\ k \in chunk_index'[m] <=> k \in chunk_index[m]
    /\ k \in live'[m] <=> k \in live[m]
    /\ size'[m][k] = size[m][k]
    /\ pages'[m][k] = pages[m][k]

Evicted(m, k) ==
    /\ k \in live[m] /\ pins[m][k] = 0
    /\ k \notin live'[m] /\ k \notin chunk_index'[m]

\* A step on behalf of the chunk key: other chunks are evicted at most, and the
\* buffers of this one do not shrink.
MemStep(key) ==
    /\ \A m \in Mgrs, k \in Keys : k # key => Same(m, k) \/ Evicted(m, k)
    /\ \A m \in Mgrs : key \in live[m] => key \in live'[m] /\ size'[m][key] >= size[m][key]

\* A condition variable is erased by its owner only.
CvStep(t) ==
    \A m \in Mgrs, k \in Keys :
        k \in in_progress[m] =>
            \/ k \in in_progress'[m]
            \/ Working(t) /\ th[t].mgr = m /\ th[t].key = k

\* The fields of a thread's call.
LEMMA ThTypes ==
    ASSUME TypeOK, NEW t \in Threads
    PROVE  /\ th[t].mgr \in Mgrs /\ th[t].at \in Mgrs /\ th[t].bytes \in Nat
           /\ th[t].key \in Keys \cup {NoKey}
           /\ th[t].pc \in {"idle", "look", "wait", "create", "construct", "fetch", "find",
                            "copy", "finish", "held"}
<1>1. th \in [Threads -> [pc : {"idle", "look", "wait", "create", "construct", "fetch",
                                "find", "copy", "finish", "held"},
                   mgr : Mgrs, key : Keys \cup {NoKey}, bytes : Nat, at : Mgrs,
                   hit : BOOLEAN]]
      BY Zenon DEF TypeOK
<1> QED BY Zenon, <1>1

\* A request is for a chunk at a manager, and for some bytes.
LEMMA Asked ==
    ASSUME TypeOK, NEW t \in Threads, Local(t), th[t].pc # "idle"
    PROVE  th[t].key \in Keys /\ th[t].key # NoKey /\ th[t].bytes > 0
<1>1. <<th[t].mgr, th[t].key, th[t].bytes>> \in Mgrs \X Keys \X (Nat \ {0})
      BY Zenon, CacheAssumption DEF Local, Place
<1> QED BY <1>1, ThTypes, CacheAssumption

\* A thread that is not the one that moves keeps what it knows.
LEMMA OthersKnow ==
    ASSUME IInv, InUsePinned, TypeOK', NEW t \in Threads, NEW u \in Threads \ {t}, th'[u] = th[u],
           NEW key, MemStep(key), CvStep(t), Working(u) => th[u].key # key
    PROVE  Local(u)'
<1>l. Local(u) /\ TypeOK /\ InUsePinned
      BY Zenon DEF IInv
<1>1. CASE th[u].pc = "idle"
  <2>1. th[u].key \notin Keys /\ th[u].at = th[u].mgr
        BY Zenon, <1>1, <1>l, CacheAssumption DEF Local, Place
  <2> QED BY Zenon, <1>1, <1>l, <2>1 DEF Local, Place, Knows, Sizes, Working, Pins
<1>2. CASE th[u].pc # "idle"
  <2> DEFINE k == th[u].key
  <2>k. k \in Keys /\ th[u].mgr \in Mgrs /\ th[u].at \in Mgrs /\ Cpu \in Mgrs /\ th[u].bytes \in Nat
        BY Zenon, <1>2, <1>l, Asked, ThTypes DEF Mgrs
  <2>1. Place(u)'
        BY Zenon, <1>l DEF Local, Place
  <2>2. \A m \in Mgrs : Pins(u, m, k) => k \in live[m] /\ pins[m][k] > 0
        BY Zenon, <2>k, <1>l DEF InUsePinned, Local, Knows
  <2>3. \A m \in Mgrs : Pins(u, m, k) => k \in live'[m]
        BY <2>k, <2>2 DEF MemStep, Same, Evicted
  <2>4. Working(u) => \A m \in Mgrs : Same(m, k) \/ Evicted(m, k)
        BY Zenon, <2>k DEF MemStep
  <2>5. Knows(u)'
    <3>1. Working(u) => k \in in_progress'[th[u].mgr]
          BY Zenon, <2>k, <1>l DEF CvStep, Local, Knows, IInv, OneOwner
    <3>2. th[u].pc = "create" => k \notin chunk_index'[th[u].at]
          BY Zenon, <2>k, <2>4, <1>l DEF Local, Knows, Working, Same, Evicted
    <3>3. th[u].pc = "construct" => k \in chunk_index'[th[u].at] /\ k \notin live'[th[u].at]
          BY Zenon, <2>k, <2>4, <1>l DEF Local, Knows, Working, Same, Evicted
    <3>4. \A m \in Mgrs, q \in Keys : Pins(u, m, q)' => q \in live'[m]
          BY Zenon, <2>3 DEF Pins
    <3> QED BY Zenon, <3>1, <3>2, <3>3, <3>4 DEF Knows, Working
  <2>6. \A m \in Mgrs : Pins(u, m, k) /\ Working(u) => size'[m][k] = size[m][k]
        BY <2>2, <2>4 DEF Same, Evicted
  <2>7. Sizes(u)'
    <3>1. th[u].pc = "held" => size'[th[u].mgr][k] >= th[u].bytes
      <4> SUFFICES ASSUME th[u].pc = "held"
                   PROVE  size'[th[u].mgr][k] >= th[u].bytes
          BY Zenon
      <4>1. size' \in [Mgrs -> [Keys -> Nat]]
            BY Zenon DEF TypeOK
      <4>2. size'[th[u].mgr][k] \in Nat /\ size[th[u].mgr][k] \in Nat
            BY Zenon, <4>1, <2>k, <1>l, BufTypes
      <4>3. Pins(u, th[u].mgr, k)
            BY Zenon DEF Pins
      <4>4. size'[th[u].mgr][k] >= size[th[u].mgr][k]
            BY <4>2, <4>3, <2>2, <2>k DEF MemStep, Same, Evicted
      <4>5. size[th[u].mgr][k] >= th[u].bytes
            BY Zenon, <1>l DEF Local, Sizes
      <4> QED BY <4>2, <4>4, <4>5, <2>k
    <3>2. th[u].pc = "finish" => size'[th[u].mgr][k] >= th[u].bytes
          BY Zenon, <2>k, <2>6, <1>l DEF Local, Sizes, Working, Pins
    <3>3. th[u].pc = "copy" => size'[Cpu][k] >= th[u].bytes
          BY Zenon, <2>k, <2>6, <1>l DEF Local, Sizes, Working, Pins, Place
    <3>4. th[u].pc = "fetch" => size'[th[u].at][k] < th[u].bytes
          BY Zenon, <2>k, <2>6, <1>l DEF Local, Sizes, Working, Pins
    <3>5. th[u].at # th[u].mgr => size'[th[u].mgr][k] < th[u].bytes
          BY Zenon, <2>k, <2>6, <1>l DEF Local, Sizes, Working, Pins, Place
    <3> QED BY Zenon, <3>1, <3>2, <3>3, <3>4, <3>5 DEF Sizes
  <2> QED BY Zenon, <2>1, <2>5, <2>7 DEF Local
<1> QED BY Zenon, <1>1, <1>2

\* A thread that is woken has no stake in any buffer.
LEMMA WokenKnows ==
    ASSUME NEW u \in Threads, Local(u), TypeOK, th[u].pc = "wait",
           th'[u] = [th[u] EXCEPT !.pc = "look"]
    PROVE  Local(u)'
<1>1. /\ th'[u].pc = "look" /\ th'[u].mgr = th[u].mgr /\ th'[u].key = th[u].key
      /\ th'[u].bytes = th[u].bytes /\ th'[u].at = th[u].at
  <2>1. th \in [Threads -> [pc : {"idle", "look", "wait", "create", "construct", "fetch",
                                "find", "copy", "finish", "held"},
                   mgr : Mgrs, key : Keys \cup {NoKey}, bytes : Nat, at : Mgrs,
                   hit : BOOLEAN]]
        BY Zenon DEF TypeOK
  <2> QED BY Zenon, <2>1
<1>2. th[u].at = th[u].mgr
      BY Zenon DEF Local, Place
<1>3. Place(u)'
      BY Zenon, <1>1, <1>2 DEF Local, Place
<1>4. Knows(u)' /\ Sizes(u)'
      BY Zenon, <1>1, <1>2 DEF Knows, Sizes, Working, Pins
<1> QED BY Zenon, <1>3, <1>4 DEF Local

\* The threads but t stay, or are woken.
OthersStay(t) ==
    \A u \in Threads \ {t} :
        \/ th'[u] = th[u]
        \/ th[u].pc = "wait" /\ th'[u] = [th[u] EXCEPT !.pc = "look"]

\* Either no entry and no buffer changes, or those of a chunk nobody else works on.
MemChange(t) ==
    \/ \A m \in Mgrs, k \in Keys : Same(m, k)
    \/ /\ MemStep(th[t].key)
       /\ Working(t) \/ (th[t].pc = "look" /\ th[t].key \notin in_progress[th[t].mgr])

\* The thread begins to initialize a buffer only if nobody does.
OwnStep(t) ==
    Working(t)' =>
        /\ th'[t].key = th[t].key /\ th'[t].mgr = th[t].mgr
        /\ Working(t) \/ (th[t].pc = "look" /\ th[t].key \notin in_progress[th[t].mgr])

\* The entries and buffers of its chunk.
OwnMem(t) ==
    LET key == th[t].key
    IN  \A m \in Mgrs : key \in Keys =>
            /\ key \in live'[m] => key \in chunk_index'[m]
            /\ key \in chunk_index'[m] =>
                  \/ key \in live'[m]
                  \/ th'[t].pc = "construct" /\ th'[t].at = m /\ th'[t].key = key
                  \/ key \in chunk_index[m] /\ key \notin live[m] /\ ~Working(t)
            /\ key \in live'[m] /\ pages'[m][key] = 0 =>
                  \A r \in Requests : r[2] = key => size'[m][key] >= r[3]

\* Its condition variables.
OwnCvs(t) ==
    ~refused' =>
        /\ ~refused
        /\ \A m \in Mgrs, k \in Keys : k \in in_progress'[m] =>
              \/ k \in in_progress[m] /\ ~(Working(t) /\ th[t].mgr = m /\ th[t].key = k)
              \/ Working(t)' /\ th'[t].mgr = m /\ th'[t].key = k

\* Two threads that work on one chunk got it from the same manager.
LEMMA SameManager ==
    ASSUME Exclusive, TypeOK, NEW t \in Threads, NEW u \in Threads, Local(t), Local(u),
           th[t].pc # "idle", th[u].pc # "idle", th[t].key = th[u].key
    PROVE  th[t].mgr = th[u].mgr
BY Zenon DEF Exclusive, Local, Place

\* What is left to show of a step.
LEMMA StepKeeps ==
    ASSUME Exclusive, IInv, InUsePinned, TypeOK', PinStep, failed' \in {"no", "LOG(FATAL)"},
           NEW t \in Threads, OthersStay(t), MemChange(t), CvStep(t),
           Local(t)', OwnStep(t), OwnMem(t), OwnCvs(t)
    PROVE  IInv' /\ PinStep
<1>0. /\ TypeOK /\ \A u \in Threads : Local(u)
      /\ OneOwner /\ Mem /\ CvsOwned
      BY Zenon DEF IInv
<1>1. \A u \in Threads \ {t} : /\ th'[u].key = th[u].key /\ th'[u].mgr = th[u].mgr
                               /\ th'[u].at = th[u].at
                               /\ th'[u].pc = th[u].pc \/ (th[u].pc = "wait" /\ th'[u].pc = "look")
  <2>1. th \in [Threads -> [pc : {"idle", "look", "wait", "create", "construct", "fetch",
                                "find", "copy", "finish", "held"},
                   mgr : Mgrs, key : Keys \cup {NoKey}, bytes : Nat, at : Mgrs,
                   hit : BOOLEAN]]
        BY Zenon, <1>0 DEF TypeOK
  <2> QED BY ZenonT(30), <2>1 DEF OthersStay
<1>2. \A u \in Threads \ {t} : Working(u)' <=> Working(u)
      BY Zenon, <1>1 DEF Working
<1>3. \A u \in Threads \ {t} :
          Working(u) /\ (Working(t) \/ (th[t].pc = "look" /\ th[t].key \notin in_progress[th[t].mgr]))
              => th[u].key # th[t].key
  <2> SUFFICES ASSUME NEW u \in Threads \ {t}, Working(u), th[u].key = th[t].key,
                      ~Working(t), th[t].pc = "look", th[t].key \notin in_progress[th[t].mgr]
               PROVE  FALSE
      BY Zenon, <1>0 DEF OneOwner
  <2>1. th[t].mgr = th[u].mgr
        BY Zenon, <1>0, SameManager DEF Working
  <2> QED BY Zenon, <2>1, <1>0 DEF Local, Knows
<1>4. ASSUME NEW u \in Threads \ {t} PROVE Local(u)'
  <2>1. CASE th'[u] = th[u]
    <3>1. CASE \A m \in Mgrs, k \in Keys : Same(m, k)
      <4>1. MemStep(NoKey)
        <5>1. live \in [Mgrs -> SUBSET Keys]
              BY Zenon, <1>0 DEF TypeOK
        <5> QED BY Zenon, <3>1, <5>1, CacheAssumption DEF MemStep
      <4>2. Working(u) => th[u].key # NoKey
            BY Zenon, <1>0, Asked DEF Working
      <4> QED BY Zenon, <2>1, <4>1, <4>2, OthersKnow
    <3>2. CASE ~(\A m \in Mgrs, k \in Keys : Same(m, k))
          BY Zenon, <2>1, <3>2, <1>3, OthersKnow DEF MemChange
    <3> QED BY Zenon, <3>1, <3>2
  <2>2. CASE th[u].pc = "wait" /\ th'[u] = [th[u] EXCEPT !.pc = "look"]
        BY Zenon, <2>2, <1>0, WokenKnows
  <2> QED BY Zenon, <2>1, <2>2 DEF OthersStay
<1>5. OneOwner'
  <2> SUFFICES ASSUME NEW u \in Threads, NEW v \in Threads, Working(u)', Working(v)',
                      th'[u].key = th'[v].key, u # v
               PROVE  FALSE
      BY Zenon DEF OneOwner
  <2>1. CASE u # t /\ v # t
        BY Zenon, <2>1, <1>0, <1>1, <1>2 DEF OneOwner
  <2>2. CASE u = t
        BY Zenon, <2>2, <1>1, <1>2, <1>3 DEF OwnStep
  <2>3. CASE v = t
        BY <2>3, <1>1, <1>2, <1>3 DEF OwnStep
  <2> QED BY Zenon, <2>1, <2>2, <2>3
<1>6. Mem'
  <2> SUFFICES ASSUME NEW m \in Mgrs, NEW k \in Keys
               PROVE  /\ k \in live'[m] => k \in chunk_index'[m]
                      /\ k \in chunk_index'[m] =>
                            \/ k \in live'[m]
                            \/ \E u \in Threads :
                                  th'[u].pc = "construct" /\ th'[u].at = m /\ th'[u].key = k
                      /\ k \in live'[m] /\ pages'[m][k] = 0 =>
                            \A r \in Requests : r[2] = k => size'[m][k] >= r[3]
      BY Zenon DEF Mem
  <2>1. \A u \in Threads : th[u].pc = "construct" /\ th[u].at = m /\ th[u].key = k
             => u = t \/ (th'[u].pc = "construct" /\ th'[u].at = m /\ th'[u].key = k)
        BY Zenon, <1>1
  <2>2. CASE k = th[t].key
    <3>1. \A u \in Threads : th[u].pc = "construct" /\ ~Working(t) => u # t
          BY Zenon DEF Working
    <3>2. k \in chunk_index[m] /\ k \notin live[m] /\ ~Working(t) =>
             \E u \in Threads : th'[u].pc = "construct" /\ th'[u].at = m /\ th'[u].key = k
          BY <2>1, <3>1, <1>0 DEF Mem
    <3> QED BY Zenon, <2>2, <3>2 DEF OwnMem
  <2>3. CASE k # th[t].key
    <3>1. Same(m, k) \/ Evicted(m, k)
          BY Zenon, <2>3 DEF MemChange, MemStep
    <3>2. CASE Evicted(m, k)
          BY Zenon, <3>2 DEF Evicted
    <3>3. CASE Same(m, k)
          BY SMTT(30), <3>3, <2>1, <2>3, <1>0 DEF Same, Mem
    <3> QED BY Zenon, <3>1, <3>2, <3>3
  <2> QED BY Zenon, <2>2, <2>3
<1>7. CvsOwned'
  <2> SUFFICES ASSUME ~refused', NEW m \in Mgrs, NEW k \in Keys, k \in in_progress'[m]
               PROVE  \E u \in Threads : Working(u)' /\ th'[u].mgr = m /\ th'[u].key = k
      BY Zenon DEF CvsOwned
  <2>1. CASE k \in in_progress[m] /\ ~(Working(t) /\ th[t].mgr = m /\ th[t].key = k)
    <3>1. ~refused
          BY Zenon DEF OwnCvs
    <3>2. PICK u \in Threads : Working(u) /\ th[u].mgr = m /\ th[u].key = k
          BY Zenon, <2>1, <3>1, <1>0 DEF CvsOwned
    <3> QED BY Zenon, <2>1, <3>2, <1>1, <1>2
  <2>2. CASE Working(t)' /\ th'[t].mgr = m /\ th'[t].key = k
        BY Zenon, <2>2
  <2> QED BY Zenon, <2>1, <2>2 DEF OwnCvs
<1> QED BY Zenon, <1>4, <1>5, <1>6, <1>7 DEF IInv
-----------------------------------------------------------------------------
(* Moves that several actions make.                                          *)

Threadings ==
    [Threads -> [pc : {"idle", "look", "wait", "create", "construct", "fetch", "find",
                       "copy", "finish", "held"},
                 mgr : Mgrs, key : Keys \cup {NoKey}, bytes : Nat, at : Mgrs,
                 hit : BOOLEAN]]

Pcs == {"idle", "look", "wait", "create", "construct", "fetch", "find", "copy", "finish", "held"}

\* A thread goes on to p in its call.
LEMMA GotoMoves ==
    ASSUME TypeOK, NEW t \in Threads, NEW p \in Pcs, Goto(t, p)
    PROVE  /\ th' \in Threadings /\ OthersStay(t)
           /\ th'[t].pc = p /\ th'[t].mgr = th[t].mgr /\ th'[t].key = th[t].key
           /\ th'[t].bytes = th[t].bytes /\ th'[t].at = th[t].at
<1>1. th \in Threadings
      BY Zenon DEF TypeOK, Threadings
<1> QED BY Zenon, <1>1 DEF Threadings, Goto, OthersStay, Pcs

\* The pins of the other threads.
LEMMA OthersPins ==
    ASSUME TypeOK, NEW t \in Threads, OthersStay(t)
    PROVE  \A u \in Threads \ {t}, m \in Mgrs, k \in Keys : Pins(u, m, k)' <=> Pins(u, m, k)
<1>1. th \in Threadings
      BY Zenon DEF TypeOK, Threadings
<1> SUFFICES ASSUME NEW u \in Threads \ {t}, NEW m \in Mgrs, NEW k \in Keys
             PROVE  Pins(u, m, k)' <=> Pins(u, m, k)
    BY Zenon
<1>2. /\ th'[u].mgr = th[u].mgr /\ th'[u].key = th[u].key /\ th'[u].at = th[u].at
      /\ th'[u].pc = th[u].pc \/ (th[u].pc = "wait" /\ th'[u].pc = "look")
      BY ZenonT(30), <1>1 DEF Threadings, OthersStay
<1> QED BY Zenon, <1>2 DEF Pins

\* Entries and buffers stay as they are.
LEMMA QuietMem ==
    ASSUME IInv, NEW t \in Threads, th[t].pc # "construct",
           UNCHANGED <<chunk_index, live, pages, size>>
    PROVE  MemChange(t) /\ OwnMem(t)
<1>1. MemChange(t)
      BY Zenon DEF MemChange, Same
<1>2. \A m \in Mgrs : th[t].key \in Keys /\ th[t].key \in chunk_index[m] /\ Working(t)
          => th[t].key \in live[m]
      BY DEF IInv, Mem, OneOwner, Working
<1>3. OwnMem(t)
      BY <1>2 DEF OwnMem, IInv, Mem
<1> QED BY Zenon, <1>1, <1>3

\* Condition variables stay as they are, and their owners too.
LEMMA QuietCvs ==
    ASSUME NEW t \in Threads, UNCHANGED <<in_progress, refused>>,
           Working(t) => Working(t)' /\ th'[t].mgr = th[t].mgr /\ th'[t].key = th[t].key
    PROVE  CvStep(t) /\ OwnCvs(t)
BY Zenon DEF CvStep, OwnCvs

\* The thread has a buffer of size s for its chunk k at m, and others may be evicted.
Reserved(t, m, k, s) ==
    /\ MemChange(t) /\ OwnMem(t)
    /\ chunk_index' \in [Mgrs -> SUBSET Keys] /\ live' \in [Mgrs -> SUBSET Keys]
    /\ pages' \in [Mgrs -> [Keys -> Nat]] /\ size' \in [Mgrs -> [Keys -> Nat]]
    /\ k \in live'[m] /\ size'[m][k] = s
    /\ \A o \in Mgrs \ {m} : Same(o, k)

\* A reservation for the chunk that the thread works on.
LEMMA ReserveMem ==
    ASSUME IInv, NEW t \in Threads, Working(t), NEW m \in Mgrs, NEW k \in Keys, k = th[t].key,
           th[t].pc = "construct" => th[t].at = m, k \in chunk_index[m],
           NEW b, NEW gone \in Victims(m, k, b), NEW n \in Nat \ {0}, NEW s \in Nat,
           Reserve(m, k, n, gone), size' = [size EXCEPT ![m] = SizeAfter(m, k, s, gone)],
           k \in live[m] => s >= size[m][k]
    PROVE  Reserved(t, m, k, s)
<1>0. /\ chunk_index \in [Mgrs -> SUBSET Keys] /\ live \in [Mgrs -> SUBSET Keys]
      /\ pages \in [Mgrs -> [Keys -> Nat]] /\ size \in [Mgrs -> [Keys -> Nat]]
      BY Zenon DEF IInv, TypeOK
<1>1. gone \subseteq Keys /\ k \notin gone /\ \A q \in gone : q \in live[m] /\ pins[m][q] = 0
  <2>1. gone = {} \/ (gone \in SUBSET Keys /\ gone \subseteq Evictable(m) \ {k})
        BY Zenon DEF Victims, MakesRoom
  <2> QED BY Zenon, <2>1 DEF Evictable
<1>2. /\ chunk_index' \in [Mgrs -> SUBSET Keys]
      /\ chunk_index'[m] = chunk_index[m] \ gone
      /\ \A o \in Mgrs \ {m} : chunk_index'[o] = chunk_index[o]
      BY Zenon, <1>0 DEF Reserve
<1>3. /\ live' \in [Mgrs -> SUBSET Keys]
      /\ live'[m] = (live[m] \ gone) \cup {k}
      /\ \A o \in Mgrs \ {m} : live'[o] = live[o]
      BY Zenon, <1>0 DEF Reserve
<1>4. /\ pages' \in [Mgrs -> [Keys -> Nat]]
      /\ pages'[m] = [q \in Keys |-> IF q = k THEN n ELSE IF q \in gone THEN 0 ELSE pages[m][q]]
      /\ \A o \in Mgrs \ {m} : pages'[o] = pages[o]
  <2>1. [q \in Keys |-> IF q = k THEN n ELSE IF q \in gone THEN 0 ELSE pages[m][q]] \in [Keys -> Nat]
        BY Zenon, <1>0
  <2> QED BY Zenon, <1>0, <2>1 DEF Reserve
<1>5. /\ size' \in [Mgrs -> [Keys -> Nat]]
      /\ size'[m] = SizeAfter(m, k, s, gone)
      /\ \A o \in Mgrs \ {m} : size'[o] = size[o]
  <2>1. SizeAfter(m, k, s, gone) \in [Keys -> Nat]
        BY Zenon, <1>0 DEF SizeAfter
  <2> QED BY Zenon, <1>0, <2>1
<1>6. \A o \in Mgrs \ {m}, q \in Keys : Same(o, q)
      BY Zenon, <1>2, <1>3, <1>4, <1>5 DEF Same
<1>7. \A q \in Keys \ {k} : Same(m, q) \/ Evicted(m, q)
  <2> SUFFICES ASSUME NEW q \in Keys \ {k}
               PROVE  Same(m, q) \/ Evicted(m, q)
      BY Zenon
  <2>1. CASE q \in gone
        BY Zenon, <2>1, <1>1, <1>2, <1>3 DEF Evicted
  <2>2. CASE q \notin gone
    <3>1. size'[m][q] = size[m][q] /\ pages'[m][q] = pages[m][q]
          BY Zenon, <2>2, <1>4, <1>5 DEF SizeAfter
    <3> QED BY Zenon, <2>2, <3>1, <1>2, <1>3 DEF Same
  <2> QED BY Zenon, <2>1, <2>2
<1>8. size'[m][k] = s /\ pages'[m][k] = n /\ k \in live'[m] /\ k \in chunk_index'[m]
      BY Zenon, <1>1, <1>2, <1>3, <1>4, <1>5 DEF SizeAfter
<1>9. MemChange(t)
  <2>1. \A o \in Mgrs : k \in live[o] => k \in live'[o] /\ size'[o][k] >= size[o][k]
    <3> SUFFICES ASSUME NEW o \in Mgrs, k \in live[o]
                 PROVE  k \in live'[o] /\ size'[o][k] >= size[o][k]
        BY Zenon
    <3>1. size[o][k] \in Nat
          BY Zenon, <1>0
    <3>2. CASE o = m
          BY Zenon, <3>2, <1>8
    <3>3. CASE o # m
          BY SMTT(30), <3>1, <3>3, <1>6 DEF Same
    <3> QED BY Zenon, <3>2, <3>3
  <2>2. \A o \in Mgrs, q \in Keys : q # k => Same(o, q) \/ Evicted(o, q)
        BY Zenon, <1>6, <1>7
  <2> QED BY Zenon, <2>1, <2>2 DEF MemChange, MemStep
<1>10. OwnMem(t)
  <2> SUFFICES ASSUME NEW o \in Mgrs
               PROVE  /\ k \in live'[o] => k \in chunk_index'[o]
                      /\ k \in chunk_index'[o] => k \in live'[o]
                      /\ k \in live'[o] /\ pages'[o][k] = 0 =>
                            \A r \in Requests : r[2] = k => size'[o][k] >= r[3]
      BY Zenon DEF OwnMem
  <2>1. CASE o = m
        BY Zenon, <2>1, <1>8
  <2>2. CASE o # m
    <3>1. k \in chunk_index[o] => k \in live[o]
          BY <2>2 DEF IInv, Mem, OneOwner, Working
    <3> QED BY SMTT(30), <2>2, <3>1, <1>6 DEF Same, IInv, Mem
  <2> QED BY Zenon, <2>1, <2>2
<1> QED BY Zenon, <1>2, <1>3, <1>4, <1>5, <1>6, <1>8, <1>9, <1>10 DEF Reserved

\* An exception leaves getBuffer.
LEMMA ThrowMoves ==
    ASSUME TypeOK, NEW t \in Threads, Throw(t), pins' = pins
    PROVE  /\ th' \in Threadings /\ OthersStay(t) /\ refused' \in BOOLEAN
           /\ UNCHANGED <<in_progress, left, failed>>
           /\ Local(t)' /\ PinStep /\ CvStep(t) /\ OwnStep(t) /\ OwnCvs(t)
<1>0. refused' = TRUE /\ UNCHANGED <<in_progress, left, failed>>
      BY Zenon DEF Throw
<1>1. /\ th' \in Threadings /\ OthersStay(t)
      /\ th'[t].pc = "idle" /\ th'[t].mgr = th'[t].at /\ th'[t].key = NoKey
  <2>1. th \in Threadings /\ Cpu \in Mgrs
        BY Zenon DEF TypeOK, Threadings, Mgrs
  <2> QED BY Zenon, <2>1 DEF Throw, Idle, Threadings, OthersStay
<1>2. Local(t)'
      BY Zenon, <1>1, CacheAssumption DEF Local, Place, Knows, Sizes, Working, Pins
<1>3. \A m \in Mgrs, k \in Keys : ~Pins(t, m, k)'
      BY Zenon, <1>1, CacheAssumption DEF Pins
<1>4. PinStep
      BY Zenon, <1>0, <1>1, <1>3, OthersPins, PinsLeft
<1>5. CvStep(t) /\ OwnStep(t) /\ OwnCvs(t)
      BY Zenon, <1>0, <1>1 DEF CvStep, OwnStep, OwnCvs, Working
<1> QED BY Zenon, <1>0, <1>1, <1>2, <1>4, <1>5

\* The process ends where the code says LOG(FATAL).
LEMMA AbortKeeps ==
    ASSUME IInv, Abort("LOG(FATAL)")
    PROVE  IInv' /\ PinStep
<1>0. UNCHANGED <<chunk_index, live, pins, pages, size, in_progress, th, left, refused>>
      BY Zenon DEF Abort, bufVars
<1>1. TypeOK'
      BY Zenon, <1>0 DEF Abort, IInv, TypeOK
<1>2. \A t \in Threads : Local(t)'
      BY <1>0 DEF IInv, Local, Place, Knows, Sizes, Working, Pins
<1>3. OneOwner' /\ Mem' /\ CvsOwned'
      BY <1>0 DEF IInv, OneOwner, Mem, CvsOwned, Working
<1>4. PinStep
      BY Zenon, <1>0, PinsKept DEF Pins
<1> QED BY Zenon, <1>1, <1>2, <1>3, <1>4 DEF IInv, Abort
-----------------------------------------------------------------------------
(* The pins are counted.                                                     *)

\* A buffer has a pin of each of its holders, and no other unless an exception left
\* getBuffer.
PinsCounted ==
    \A m \in Mgrs, k \in Keys :
        /\ pins[m][k] >= Cardinality(Holders(m, k))
        /\ ~refused => pins[m][k] = Cardinality(Holders(m, k))

\* Holders, of the property PinsAreHeld, in terms of one thread's pins.
LEMMA HoldersPin ==
    ASSUME NEW m \in Mgrs, NEW k \in Keys, NEW t \in Threads
    PROVE  /\ t \in Holders(m, k) <=> Pins(t, m, k)
           /\ t \in Holders(m, k)' <=> Pins(t, m, k)'
<1>1. t \in Holders(m, k) <=> Pins(t, m, k)
      BY Zenon DEF Holders, Pins
<1>2. t \in Holders(m, k)' <=> Pins(t, m, k)'
      BY Zenon DEF Holders, Pins
<1> QED BY Zenon, <1>1, <1>2

\* The holders can be counted.
LEMMA HoldersFinite ==
    ASSUME NEW m \in Mgrs, NEW k \in Keys
    PROVE  /\ IsFiniteSet(Holders(m, k)) /\ Cardinality(Holders(m, k)) \in Nat
           /\ Holders(m, k) # {} => Cardinality(Holders(m, k)) > 0
<1>1. Holders(m, k) \subseteq Threads
      BY Zenon DEF Holders
<1>2. IsFiniteSet(Holders(m, k))
      BY Zenon, <1>1, FS_Subset, CacheAssumption
<1> QED BY <1>2, FS_CardinalityType, FS_EmptySet

\* The holders of a buffer nobody lets go or takes stay.
LEMMA SameHolders ==
    ASSUME NEW m \in Mgrs, NEW k \in Keys, \A u \in Threads : Pins(u, m, k)' <=> Pins(u, m, k)
    PROVE  Holders(m, k)' = Holders(m, k)
<1>1. \A u \in Threads : u \in Holders(m, k)' <=> u \in Holders(m, k)
      BY Zenon, HoldersPin
<1>2. Holders(m, k) \subseteq Threads /\ Holders(m, k)' \subseteq Threads
      BY Zenon DEF Holders
<1> QED BY Zenon, <1>1, <1>2

\* One holder more.
LEMMA HolderMore ==
    ASSUME NEW m \in Mgrs, NEW k \in Keys, NEW t \in Threads, ~Pins(t, m, k), Pins(t, m, k)',
           \A u \in Threads \ {t} : Pins(u, m, k)' <=> Pins(u, m, k)
    PROVE  Cardinality(Holders(m, k)') = Cardinality(Holders(m, k)) + 1
<1>1. \A u \in Threads : u \in Holders(m, k)' <=> u \in Holders(m, k) \cup {t}
      BY Zenon, HoldersPin
<1>2. Holders(m, k) \subseteq Threads /\ Holders(m, k)' \subseteq Threads
      BY Zenon DEF Holders
<1>3. Holders(m, k)' = Holders(m, k) \cup {t} /\ t \notin Holders(m, k)
      BY Zenon, <1>1, <1>2, HoldersPin
<1> QED BY Zenon, <1>3, HoldersFinite, FS_AddElement

\* One holder less.
LEMMA HolderLess ==
    ASSUME NEW m \in Mgrs, NEW k \in Keys, NEW t \in Threads, Pins(t, m, k), ~Pins(t, m, k)',
           \A u \in Threads \ {t} : Pins(u, m, k)' <=> Pins(u, m, k)
    PROVE  /\ Cardinality(Holders(m, k)') = Cardinality(Holders(m, k)) - 1
           /\ Cardinality(Holders(m, k)) > 0
<1>1. \A u \in Threads : u \in Holders(m, k)' <=> u \in Holders(m, k) \ {t}
      BY Zenon, HoldersPin
<1>2. Holders(m, k) \subseteq Threads /\ Holders(m, k)' \subseteq Threads
      BY Zenon DEF Holders
<1>3. Holders(m, k)' = Holders(m, k) \ {t} /\ t \in Holders(m, k)
      BY Zenon, <1>1, <1>2, HoldersPin
<1>4. Cardinality(Holders(m, k)') = Cardinality(Holders(m, k)) - 1
      BY Zenon, <1>3, HoldersFinite, FS_RemoveElement
<1>5. Cardinality(Holders(m, k)) > 0
      BY Zenon, <1>3, HoldersFinite
<1> QED BY Zenon, <1>4, <1>5

\* The only holder.
LEMMA HolderAlone ==
    ASSUME NEW m \in Mgrs, NEW k \in Keys, NEW t \in Threads, Pins(t, m, k)',
           \A u \in Threads \ {t} : ~Pins(u, m, k)'
    PROVE  Cardinality(Holders(m, k)') = 1
<1>1. \A u \in Threads : u \in Holders(m, k)' <=> u \in {t}
      BY Zenon, HoldersPin
<1>2. Holders(m, k)' \subseteq Threads
      BY Zenon DEF Holders
<1>3. Holders(m, k)' = {t}
      BY Zenon, <1>1, <1>2
<1> QED BY Zenon, <1>3, FS_Singleton

\* No holder is added.
LEMMA HoldersShrink ==
    ASSUME NEW m \in Mgrs, NEW k \in Keys, \A u \in Threads : Pins(u, m, k)' => Pins(u, m, k)
    PROVE  /\ Cardinality(Holders(m, k)') \in Nat
           /\ Cardinality(Holders(m, k)) \in Nat
           /\ Cardinality(Holders(m, k)') <= Cardinality(Holders(m, k))
<1>1. \A u \in Threads : u \in Holders(m, k)' => u \in Holders(m, k)
      BY Zenon, HoldersPin
<1>2. Holders(m, k) \subseteq Threads /\ Holders(m, k)' \subseteq Threads
      BY Zenon DEF Holders
<1>3. Holders(m, k)' \subseteq Holders(m, k)
      BY Zenon, <1>1, <1>2
<1> QED BY Zenon, <1>3, HoldersFinite, FS_Subset, FS_CardinalityType

\* The counts hold at a buffer whose holders and pins stay.
LEMMA CountStays ==
    ASSUME PinsCounted, refused' = refused, NEW m \in Mgrs, NEW k \in Keys,
           pins'[m][k] = pins[m][k], \A u \in Threads : Pins(u, m, k)' <=> Pins(u, m, k)
    PROVE  /\ pins'[m][k] >= Cardinality(Holders(m, k)')
           /\ ~refused' => pins'[m][k] = Cardinality(Holders(m, k)')
BY Zenon, SameHolders DEF PinsCounted

\* No pin is taken or given back.
LEMMA CountKept ==
    ASSUME PinsCounted, refused' = refused, pins' = pins,
           \A u \in Threads, m \in Mgrs, k \in Keys : Pins(u, m, k)' <=> Pins(u, m, k)
    PROVE  PinsCounted'
BY Zenon, CountStays DEF PinsCounted

\* Pins of an exception stay without their thread.
LEMMA CountLeft ==
    ASSUME TypeOK, PinsCounted, refused' = TRUE, pins' = pins,
           \A u \in Threads, m \in Mgrs, k \in Keys : Pins(u, m, k)' => Pins(u, m, k)
    PROVE  PinsCounted'
<1> SUFFICES ASSUME NEW m \in Mgrs, NEW k \in Keys
             PROVE  pins[m][k] >= Cardinality(Holders(m, k)')
    BY Zenon DEF PinsCounted
<1>1. pins[m][k] >= Cardinality(Holders(m, k))
      BY Zenon DEF PinsCounted
<1>2. /\ Cardinality(Holders(m, k)') \in Nat /\ Cardinality(Holders(m, k)) \in Nat
      /\ Cardinality(Holders(m, k)') <= Cardinality(Holders(m, k))
      BY Zenon, HoldersShrink
<1> QED BY <1>1, <1>2, BufTypes

\* The pin of a hit or of fetchBuffer.
LEMMA CountTaken ==
    ASSUME TypeOK, PinsCounted, refused' = refused,
           NEW t \in Threads, NEW m \in Mgrs, NEW k \in Keys, ~Pins(t, m, k), Pins(t, m, k)',
           pins' = [pins EXCEPT ![m][k] = @ + 1],
           OnlyPin(t, m, k)
    PROVE  PinsCounted'
<1>t. pins \in [Mgrs -> [Keys -> Nat]]
      BY Zenon DEF TypeOK
<1>1. ASSUME NEW n \in Mgrs, NEW q \in Keys, n # m \/ q # k
      PROVE  /\ pins'[n][q] >= Cardinality(Holders(n, q)')
             /\ ~refused' => pins'[n][q] = Cardinality(Holders(n, q)')
  <2>1. pins'[n][q] = pins[n][q]
        BY Zenon, <1>1, <1>t
  <2>2. \A u \in Threads : Pins(u, n, q)' <=> Pins(u, n, q)
        BY Zenon, <1>1 DEF OnlyPin
  <2> QED BY Zenon, <2>1, <2>2, CountStays
<1>2. pins'[m][k] = pins[m][k] + 1
      BY Zenon, <1>t
<1>3. Cardinality(Holders(m, k)') = Cardinality(Holders(m, k)) + 1
      BY Zenon, HolderMore DEF OnlyPin
<1>4. pins[m][k] \in Nat /\ Cardinality(Holders(m, k)) \in Nat
      BY Zenon, BufTypes, HoldersFinite
<1>5. pins[m][k] >= Cardinality(Holders(m, k))
      BY Zenon DEF PinsCounted
<1>6. pins'[m][k] >= Cardinality(Holders(m, k)')
      BY <1>2, <1>3, <1>4, <1>5
<1>7. ~refused' => pins'[m][k] = Cardinality(Holders(m, k)')
      BY Zenon, <1>2, <1>3 DEF PinsCounted
<1> QED BY Zenon, <1>1, <1>6, <1>7 DEF PinsCounted

\* The pin of a constructor.
LEMMA CountFirst ==
    ASSUME TypeOK, PinsCounted, refused' = refused,
           NEW t \in Threads, NEW m \in Mgrs, NEW k \in Keys, Pins(t, m, k)',
           \A u \in Threads : ~Pins(u, m, k),
           pins' = [pins EXCEPT ![m][k] = 1],
           OnlyPin(t, m, k)
    PROVE  PinsCounted'
<1>t. pins \in [Mgrs -> [Keys -> Nat]]
      BY Zenon DEF TypeOK
<1>1. ASSUME NEW n \in Mgrs, NEW q \in Keys, n # m \/ q # k
      PROVE  /\ pins'[n][q] >= Cardinality(Holders(n, q)')
             /\ ~refused' => pins'[n][q] = Cardinality(Holders(n, q)')
  <2>1. pins'[n][q] = pins[n][q]
        BY Zenon, <1>1, <1>t
  <2>2. \A u \in Threads : Pins(u, n, q)' <=> Pins(u, n, q)
        BY Zenon, <1>1 DEF OnlyPin
  <2> QED BY Zenon, <2>1, <2>2, CountStays
<1>2. pins'[m][k] = 1
      BY Zenon, <1>t
<1>3. Cardinality(Holders(m, k)') = 1
      BY Zenon, HolderAlone DEF OnlyPin
<1>4. /\ pins'[m][k] >= Cardinality(Holders(m, k)')
      /\ pins'[m][k] = Cardinality(Holders(m, k)')
      BY <1>2, <1>3
<1> QED BY Zenon, <1>1, <1>4 DEF PinsCounted

\* A pin is given back.
LEMMA CountReturned ==
    ASSUME TypeOK, PinsCounted, refused' = refused,
           NEW t \in Threads, NEW m \in Mgrs, NEW k \in Keys, Pins(t, m, k), ~Pins(t, m, k)',
           pins' = [pins EXCEPT ![m][k] = @ - 1],
           OnlyPin(t, m, k)
    PROVE  PinsCounted'
<1>t. pins \in [Mgrs -> [Keys -> Nat]]
      BY Zenon DEF TypeOK
<1>1. ASSUME NEW n \in Mgrs, NEW q \in Keys, n # m \/ q # k
      PROVE  /\ pins'[n][q] >= Cardinality(Holders(n, q)')
             /\ ~refused' => pins'[n][q] = Cardinality(Holders(n, q)')
  <2>1. pins'[n][q] = pins[n][q]
        BY Zenon, <1>1, <1>t
  <2>2. \A u \in Threads : Pins(u, n, q)' <=> Pins(u, n, q)
        BY Zenon, <1>1 DEF OnlyPin
  <2> QED BY Zenon, <2>1, <2>2, CountStays
<1>2. pins'[m][k] = pins[m][k] - 1
      BY Zenon, <1>t
<1>3. /\ Cardinality(Holders(m, k)') = Cardinality(Holders(m, k)) - 1
      /\ Cardinality(Holders(m, k)) > 0
      BY Zenon, HolderLess DEF OnlyPin
<1>4. pins[m][k] \in Nat /\ Cardinality(Holders(m, k)) \in Nat
      BY Zenon, BufTypes, HoldersFinite
<1>5. pins[m][k] >= Cardinality(Holders(m, k))
      BY Zenon DEF PinsCounted
<1>6. pins'[m][k] >= Cardinality(Holders(m, k)') 
      BY <1>2, <1>3, <1>4, <1>5
<1>7. ~refused' => pins'[m][k] = Cardinality(Holders(m, k)')
      BY Zenon, <1>2, <1>3 DEF PinsCounted
<1> QED BY Zenon, <1>1, <1>6, <1>7 DEF PinsCounted

\* However a step changes the pins, they stay counted.
LEMMA PinStepCounts ==
    ASSUME TypeOK, PinsCounted, PinStep
    PROVE  PinsCounted'
<1>1. CASE /\ refused' = refused /\ pins' = pins
           /\ \A u \in Threads, m \in Mgrs, k \in Keys : Pins(u, m, k)' <=> Pins(u, m, k)
      BY Zenon, <1>1, CountKept
<1>2. CASE /\ refused' = TRUE /\ pins' = pins
           /\ \A u \in Threads, m \in Mgrs, k \in Keys : Pins(u, m, k)' => Pins(u, m, k)
      BY Zenon, <1>2, CountLeft
<1>3. CASE refused' = refused /\ \E t \in Threads, m \in Mgrs, k \in Keys :
               OnlyPin(t, m, k) /\ (PinTaken(t, m, k) \/ FirstPin(t, m, k) \/ PinReturned(t, m, k))
  <2>1. PICK t \in Threads, m \in Mgrs, k \in Keys :
            OnlyPin(t, m, k) /\ (PinTaken(t, m, k) \/ FirstPin(t, m, k) \/ PinReturned(t, m, k))
        BY Zenon, <1>3
  <2>2. CASE PinTaken(t, m, k)
        BY Zenon, <1>3, <2>1, <2>2, CountTaken DEF PinTaken
  <2>3. CASE FirstPin(t, m, k)
        BY Zenon, <1>3, <2>1, <2>3, CountFirst DEF FirstPin
  <2>4. CASE PinReturned(t, m, k)
        BY Zenon, <1>3, <2>1, <2>4, CountReturned DEF PinReturned
  <2> QED BY Zenon, <2>1, <2>2, <2>3, <2>4
<1> QED BY Zenon, <1>1, <1>2, <1>3 DEF PinStep

\* A buffer that a thread relies on is pinned.
LEMMA HolderPinned ==
    ASSUME TypeOK, PinsCounted
    PROVE  InUsePinned
<1> SUFFICES ASSUME NEW t \in Threads, NEW m \in Mgrs, NEW k \in Keys, Pins(t, m, k)
             PROVE  pins[m][k] > 0
    BY Zenon DEF InUsePinned
<1>1. t \in Holders(m, k)
      BY Zenon, HoldersPin
<1>2. Cardinality(Holders(m, k)) \in Nat /\ Cardinality(Holders(m, k)) > 0
      BY Zenon, <1>1, HoldersFinite
<1>3. pins[m][k] \in Nat
      BY Zenon, BufTypes
<1>4. pins[m][k] >= Cardinality(Holders(m, k))
      BY Zenon DEF PinsCounted
<1> QED BY <1>2, <1>3, <1>4
=============================================================================

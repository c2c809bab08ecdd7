-------------------------- MODULE CodeCacheProofs ---------------------------
(***************************************************************************)
(* OneCompiler, FailsForCause and TypeOK of CodeCacheAccessor, for any     *)
(* threads, executors, keys and cache size.  OneCompiler is not inductive: *)
(* that put finds no entry needs that the key of a thread that compiles is *)
(* not in the cache, which stays so as nobody else puts it.  TypeOK needs  *)
(* that a list never names a key twice (LruInv).  The mutex of an executor *)
(* is held by one of its threads that compiles (CompilesAlone).            *)
(***************************************************************************)
EXTENDS CodeCacheAccessor, TLAPS

\* The requests of the threads.
ThTypes ==
    /\ th \in [Threads -> [pc : {"idle", "lock", "get", "wait", "woken", "lock_stub", "compile"},
                           acc : Accessors, key : Keys \cup {NoKey}]]
    /\ \A t \in Threads : th[t].pc # "idle" => th[t].key \in Keys
    /\ \A t \in Threads : th[t].pc \in {"wait", "woken"} => th[t].acc \in Waiting

\* The types that the steps below need.
Types ==
    /\ code_cache \in [Accessors -> Seq(Keys)]
    /\ compiling_key \in [Waiting -> Keys \cup {NoKey}]
    /\ ThTypes

\* A thread that compiles is the only one, its key is the one being compiled, and it
\* is not in the cache.
Sole(t) ==
    Compiles(t) =>
        /\ \A u \in Threads : Compiles(u) /\ th[u].acc = th[t].acc => u = t
        /\ compiling_key[th[t].acc] = th[t].key
        /\ ~Cached(th[t].acc, th[t].key)

\* A key is only being compiled while a thread is compiling it.
Owned(a) ==
    compiling_key[a] # NoKey => \E t \in Threads : Compiles(t) /\ th[t].acc = a

IInv ==
    /\ Types
    /\ \A t \in Threads : Sole(t)
    /\ \A a \in Waiting : Owned(a)
    /\ failed # "put"

-----------------------------------------------------------------------------
(* The lists of keys.                                                        *)

\* LruCache::get moves an entry and neither adds nor loses a key.
LEMMA SplicedKeys ==
    ASSUME NEW s \in Seq(Keys), NEW k \in Range(s)
    PROVE  /\ Spliced(s, k) \in Seq(Keys)
           /\ Range(Spliced(s, k)) \subseteq Range(s)
<1> DEFINE at == CHOOSE i \in DOMAIN s : s[i] = k
<1>1. at \in 1..Len(s) /\ s[at] = k
  BY DEF Range
<1>2. k \in Keys
  BY DEF Range
<1>3. \A i \in 1..Len(s) : s[i] \in Keys
  OBVIOUS
<1>4. \A i \in 1..Len(s) :
         (IF i = 1 THEN k ELSE IF i <= at THEN s[i - 1] ELSE s[i]) \in Range(s)
  BY <1>1 DEF Range
<1>5. Range(s) \subseteq Keys
  BY <1>3 DEF Range
<1> QED
  BY <1>4, <1>5 DEF Spliced, Range

\* LruCache::put adds one key.
LEMMA PutKeys ==
    ASSUME Types, NEW acc \in Accessors, NEW k \in Keys, PutLatest(acc, k)
    PROVE  /\ code_cache' \in [Accessors -> Seq(Keys)]
           /\ Range(code_cache'[acc]) \subseteq Range(code_cache[acc]) \cup {k}
           /\ \A a \in Accessors \ {acc} : code_cache'[a] = code_cache[a]
<1> DEFINE all == <<k>> \o code_cache[acc]
           new == IF Len(all) > MaxSize THEN SubSeq(all, 1, Len(all) - 1) ELSE all
<1>1. code_cache[acc] \in Seq(Keys)
  BY Zenon DEF Types
<1>2. all \in Seq(Keys) /\ Len(all) = Len(code_cache[acc]) + 1
      /\ \A i \in 1..Len(all) : all[i] = IF i = 1 THEN k ELSE code_cache[acc][i - 1]
  BY <1>1
<1>3. new \in Seq(Keys) /\ Len(new) <= Len(all) /\ \A i \in 1..Len(new) : new[i] = all[i]
  BY <1>2
<1>4. code_cache' = [code_cache EXCEPT ![acc] = new]
  BY Zenon DEF PutLatest
<1>5. code_cache'[acc] = new
  BY Zenon, <1>4 DEF Types
<1>6. \A i \in 1..Len(new) : new[i] \in Range(code_cache[acc]) \cup {k}
  BY <1>1, <1>2, <1>3 DEF Range
<1>7. Range(new) \subseteq Range(code_cache[acc]) \cup {k}
  BY <1>3, <1>6 DEF Range
<1> QED
  BY Zenon, <1>3, <1>4, <1>5, <1>7 DEF Types
-----------------------------------------------------------------------------
(* Steps that no thread begins or ends a compilation in.                     *)

\* No thread begins or ends a compilation.
SameWork ==
    \A t \in Threads :
        /\ Compiles(t)' <=> Compiles(t)
        /\ Compiles(t) => th'[t].acc = th[t].acc /\ th'[t].key = th[t].key

\* Nor do the caches get a key.
Quiet ==
    /\ compiling_key' = compiling_key
    /\ SameWork
    /\ \A a \in Waiting : Range(code_cache'[a]) \subseteq Range(code_cache[a])

\* Such a step preserves what is said of compilations.
LEMMA QuietKeeps ==
    ASSUME IInv, Quiet
    PROVE  /\ \A t \in Threads : Sole(t)'
           /\ \A a \in Waiting : Owned(a)'
<1>1. ASSUME NEW t \in Threads PROVE Sole(t)'
  <2> SUFFICES ASSUME Compiles(t)'
               PROVE  /\ \A u \in Threads : Compiles(u)' /\ th'[u].acc = th'[t].acc => u = t
                      /\ compiling_key'[th'[t].acc] = th'[t].key
                      /\ ~(th'[t].key \in Range(code_cache'[th'[t].acc]))
    BY Zenon DEF Sole, Cached
  <2>1. Compiles(t) /\ th'[t].acc = th[t].acc /\ th'[t].key = th[t].key
    BY Zenon DEF Quiet, SameWork
  <2>2. /\ \A u \in Threads : Compiles(u) /\ th[u].acc = th[t].acc => u = t
        /\ compiling_key[th[t].acc] = th[t].key
        /\ ~(th[t].key \in Range(code_cache[th[t].acc]))
    BY <2>1, Zenon DEF IInv, Sole, Cached
  <2>3. th[t].acc \in Waiting
    BY <2>1, Zenon DEF Compiles
  <2>4. ASSUME NEW u \in Threads, Compiles(u)', th'[u].acc = th'[t].acc PROVE u = t
    <3>1. Compiles(u) /\ th'[u].acc = th[u].acc
      BY <2>4, Zenon DEF Quiet, SameWork
    <3> QED
      BY <3>1, <2>4, <2>1, <2>2, Zenon
  <2>5. compiling_key'[th'[t].acc] = th'[t].key
    BY <2>1, <2>2, Zenon DEF Quiet, SameWork
  <2>6. ~(th'[t].key \in Range(code_cache'[th'[t].acc]))
    BY <2>1, <2>2, <2>3, Zenon DEF Quiet, SameWork
  <2> QED
    BY <2>4, <2>5, <2>6, Zenon
<1>2. ASSUME NEW a \in Waiting PROVE Owned(a)'
  <2> SUFFICES ASSUME compiling_key'[a] # NoKey
               PROVE  \E t \in Threads : Compiles(t)' /\ th'[t].acc = a
    BY Zenon DEF Owned
  <2>1. PICK t \in Threads : Compiles(t) /\ th[t].acc = a
    BY Zenon DEF IInv, Owned, Quiet, SameWork
  <2>2. Compiles(t)' /\ th'[t].acc = a
    BY <2>1, Zenon DEF Quiet, SameWork
  <2> QED
    BY <2>2, Zenon
<1> QED
  BY <1>1, <1>2, Zenon
-----------------------------------------------------------------------------
(* The steps of a thread.                                                    *)

\* A thread becomes idle, waits or asks, and is not one that compiles.
LEMMA Moves ==
    ASSUME Types, NEW t \in Threads, ~Compiles(t),
           th' = [th EXCEPT ![t] = th'[t]],
           th'[t] \in [pc : {"idle", "lock", "get", "wait", "woken"}, acc : Accessors,
                       key : Keys \cup {NoKey}],
           th'[t].pc # "idle" => th'[t].key \in Keys,
           th'[t].pc \in {"wait", "woken"} => th'[t].acc \in Waiting
    PROVE  ThTypes' /\ SameWork
<1>1. \A u \in Threads \ {t} : th'[u] = th[u]
  BY Zenon DEF Types, ThTypes
<1>2. ~Compiles(t)'
  BY Zenon DEF Compiles
<1>3. \A u \in Threads \ {t} : Compiles(u)' <=> Compiles(u)
  BY Zenon, <1>1 DEF Compiles
<1>4. ThTypes'
  BY Zenon, <1>1 DEF Types, ThTypes
<1>5. SameWork
  BY <1>1, <1>2, <1>3, Zenon DEF SameWork
<1> QED
  BY Zenon, <1>4, <1>5

\* Request
LEMMA RequestStep ==
    ASSUME IInv, NEW t \in Threads, NEW acc \in Accessors, NEW k \in Keys, Request(t, acc, k)
    PROVE  IInv'
<1>1. Types /\ ~Compiles(t)
  BY Zenon DEF IInv, Request, At, Compiles
<1>2. th'[t] = [pc |-> IF acc = "s_stubs" THEN "get" ELSE "lock", acc |-> acc, key |-> k]
  BY Zenon, <1>1 DEF Request, Types, ThTypes
<1>3. th' = [th EXCEPT ![t] = th'[t]]
  BY <1>2, Zenon DEF Request
<1>4. ThTypes' /\ SameWork
  BY <1>1, <1>2, <1>3, Moves
<1>5. Quiet
  BY Zenon, <1>4 DEF Request, Quiet
<1>6. Types' /\ failed' # "put"
  BY Zenon, <1>1, <1>4 DEF Request, Types, IInv
<1> QED
  BY <1>5, <1>6, QuietKeeps, Zenon DEF IInv

\* Lock
LEMMA LockStep ==
    ASSUME IInv, NEW t \in Threads, Lock(t)
    PROVE  IInv'
<1>1. Types
  BY Zenon DEF IInv
<1> DEFINE p == IF th[t].pc = "lock" THEN "get" ELSE "compile"
<1>2. /\ p \in {"get", "compile"} /\ th' = [th EXCEPT ![t].pc = p]
      /\ (th[t].pc = "lock" /\ p = "get") \/ (th[t].pc = "lock_stub" /\ p = "compile")
  <2>1. th' = [th EXCEPT ![t].pc = p]
    BY Zenon DEF Lock, Goto
  <2>2. th[t].pc \in {"lock", "lock_stub"}
    BY Zenon DEF Lock
  <2>3. (th[t].pc = "lock" /\ p = "get") \/ (th[t].pc = "lock_stub" /\ p = "compile")
    BY Zenon, <2>2
  <2> QED
    BY <2>1, <2>3, Zenon
<1> HIDE DEF p
<1>a. th[t] \in [pc : {"idle", "lock", "get", "wait", "woken", "lock_stub", "compile"},
                 acc : Accessors, key : Keys \cup {NoKey}] /\ th[t].key \in Keys
  BY Zenon, <1>1, <1>2 DEF Types, ThTypes
<1>b. th'[t] = [th[t] EXCEPT !.pc = p] /\ \A u \in Threads \ {t} : th'[u] = th[u]
  BY Zenon, <1>1, <1>2 DEF Types, ThTypes
<1>c. th'[t].pc = p /\ th'[t].acc = th[t].acc /\ th'[t].key = th[t].key
      /\ th'[t] \in [pc : {"get", "compile"}, acc : Accessors, key : Keys]
  BY <1>2, <1>a, <1>b
<1>3. \A u \in Threads : th'[u].acc = th[u].acc /\ th'[u].key = th[u].key
  BY <1>b, <1>c, Zenon
<1>4. ThTypes'
  <2>1. th' = [u \in Threads |-> th'[u]]
    BY Zenon, <1>1, <1>2 DEF Types, ThTypes
  <2> QED
    BY ZenonT(30), <1>1, <1>b, <1>c, <2>1 DEF Types, ThTypes
<1>5. \A u \in Threads : Compiles(u)' <=> Compiles(u)
  BY Zenon, <1>2, <1>b, <1>c DEF Compiles
<1>6. SameWork
  BY <1>3, <1>5, Zenon DEF SameWork
<1>7. Quiet
  BY Zenon, <1>6 DEF Lock, Quiet
<1>8. Types' /\ failed' # "put"
  BY Zenon, <1>1, <1>4 DEF Lock, Types, IInv
<1> QED
  BY <1>7, <1>8, QuietKeeps, Zenon DEF IInv

\* A thread that does not compile finds its key in the cache.
LEMMA HitStep ==
    ASSUME IInv, NEW t \in Threads, th[t].acc \in Waiting, ~Compiles(t),
           Cached(th[t].acc, th[t].key), Hit(t)
    PROVE  IInv'
<1> DEFINE acc == th[t].acc
           k == th[t].key
<1>1. Types /\ acc \in Accessors
  BY Zenon DEF IInv, Accessors
<1>2. th' = [th EXCEPT ![t] = Idle] /\ th'[t] = Idle
  BY Zenon, <1>1 DEF Hit, Return, Types, ThTypes
<1>3. ThTypes' /\ SameWork
  <2>1. Idle \in [pc : {"idle", "lock", "get", "wait", "woken"}, acc : Accessors,
                  key : Keys \cup {NoKey}] /\ Idle.pc = "idle"
    BY Zenon DEF Idle, Accessors, Waiting
  <2>2. th' = [th EXCEPT ![t] = th'[t]]
    BY <1>2, Zenon
  <2> QED
    BY Zenon, <1>1, <1>2, <2>1, <2>2, Moves
<1>4. code_cache[acc] \in Seq(Keys) /\ k \in Range(code_cache[acc])
  BY Zenon, <1>1 DEF Types, Cached
<1>5. Spliced(code_cache[acc], k) \in Seq(Keys)
      /\ Range(Spliced(code_cache[acc], k)) \subseteq Range(code_cache[acc])
  BY <1>4, SplicedKeys, Zenon
<1>6. code_cache' = [code_cache EXCEPT ![acc] = Spliced(code_cache[acc], k)]
  BY Zenon DEF Hit, Touch
<1>7. code_cache' \in [Accessors -> Seq(Keys)]
      /\ \A a \in Accessors : code_cache'[a] = IF a = acc THEN Spliced(code_cache[acc], k)
                                                ELSE code_cache[a]
  BY Zenon, <1>1, <1>5, <1>6 DEF Types
<1>8. \A a \in Waiting : Range(code_cache'[a]) \subseteq Range(code_cache[a])
  BY Zenon, <1>5, <1>7 DEF Accessors
<1>9. Quiet /\ Types' /\ failed' # "put"
  BY Zenon, <1>1, <1>3, <1>7, <1>8 DEF Hit, Quiet, Types, IInv
<1> QED
  BY <1>9, QuietKeeps, Zenon DEF IInv

\* get_or_wait waits.
LEMMA WaitStep ==
    ASSUME IInv, NEW t \in Threads, th[t].acc \in Waiting, th[t].pc \in {"get", "woken"},
           Goto(t, "wait"), UNCHANGED <<code_cache, compiling_key, failed>>
    PROVE  IInv'
<1>1. Types /\ ~Compiles(t)
  BY Zenon DEF IInv, Compiles
<1>2. th' = [th EXCEPT ![t] = th'[t]] /\ th'[t] = [th[t] EXCEPT !.pc = "wait"]
  BY Zenon, <1>1 DEF Goto, Types, ThTypes
<1>3. th[t] \in [pc : {"idle", "lock", "get", "wait", "woken", "lock_stub", "compile"},
                 acc : Accessors, key : Keys \cup {NoKey}] /\ th[t].key \in Keys
  BY Zenon, <1>1 DEF Types, ThTypes
<1>4. th'[t] \in [pc : {"idle", "lock", "get", "wait", "woken"}, acc : Accessors,
                  key : Keys \cup {NoKey}] /\ th'[t].key \in Keys /\ th'[t].acc \in Waiting
  BY Zenon, <1>2, <1>3
<1>5. ThTypes' /\ SameWork
  BY Zenon, <1>1, <1>2, <1>4, Moves
<1>6. Quiet /\ Types' /\ failed' # "put"
  BY Zenon, <1>1, <1>5 DEF Quiet, Types, IInv
<1> QED
  BY <1>6, QuietKeeps, Zenon DEF IInv

\* get_or_wait claims a key that is not in the cache and that nobody compiles.
LEMMA ClaimStep ==
    ASSUME IInv, NEW t \in Threads, th[t].acc \in Waiting, th[t].pc \in {"get", "woken"},
           ~Cached(th[t].acc, th[t].key), Claim(t)
    PROVE  IInv'
<1> DEFINE acc == th[t].acc
           k == th[t].key
<1>1. Types /\ th[t] \in [pc : {"get", "woken"}, acc : Waiting, key : Keys]
  BY Zenon DEF IInv, Types, ThTypes
<1>2. CASE compiling_key[acc] # NoKey
  <2>1. UNCHANGED <<th, compiling_key, code_cache>> /\ failed' = "get_or_wait"
    BY Zenon, <1>2 DEF Claim
  <2>2. Quiet /\ Types' /\ failed' # "put"
    BY Zenon, <1>1, <2>1 DEF Quiet, SameWork, Compiles, Types, ThTypes
  <2> QED
    BY <2>2, QuietKeeps, Zenon DEF IInv
<1>3. CASE compiling_key[acc] = NoKey
  <2> DEFINE p == IF acc = "s_stubs" THEN "lock_stub" ELSE "compile"
  <2>1. /\ p \in {"lock_stub", "compile"} /\ th' = [th EXCEPT ![t].pc = p]
        /\ compiling_key' = [compiling_key EXCEPT ![acc] = k]
        /\ UNCHANGED <<code_cache, failed>>
    BY Zenon, <1>3 DEF Claim, Goto
  <2> HIDE DEF p
  <2>2. th'[t] = [th[t] EXCEPT !.pc = p] /\ \A u \in Threads \ {t} : th'[u] = th[u]
    BY Zenon, <1>1, <2>1 DEF Types, ThTypes
  <2>3. th'[t].pc = p /\ th'[t].acc = acc /\ th'[t].key = k
        /\ th'[t] \in [pc : {"lock_stub", "compile"}, acc : Waiting, key : Keys]
    BY <1>1, <2>1, <2>2
  <2>4. ThTypes'
    <3>1. th' = [u \in Threads |-> th'[u]]
      BY Zenon, <1>1, <2>1 DEF Types, ThTypes
    <3>2. th'[t] \in [pc : {"idle", "lock", "get", "wait", "woken", "lock_stub", "compile"},
                      acc : Accessors, key : Keys \cup {NoKey}] /\ th'[t].key \in Keys
          /\ th'[t].acc \in Waiting
      BY Zenon, <2>3 DEF Accessors
    <3>3. \A u \in Threads \ {t} :
             th'[u] \in [pc : {"idle", "lock", "get", "wait", "woken", "lock_stub", "compile"},
                         acc : Accessors, key : Keys \cup {NoKey}]
             /\ (th'[u].pc # "idle" => th'[u].key \in Keys)
             /\ (th'[u].pc \in {"wait", "woken"} => th'[u].acc \in Waiting)
      BY Zenon, <1>1, <2>2 DEF Types, ThTypes
    <3> QED
      BY Zenon, <3>1, <3>2, <3>3 DEF ThTypes
  <2>5. compiling_key' \in [Waiting -> Keys \cup {NoKey}] /\ compiling_key'[acc] = k
        /\ \A a \in Waiting \ {acc} : compiling_key'[a] = compiling_key[a]
    BY Zenon, <1>1, <2>1 DEF Types
  <2>6. Types' /\ failed' # "put"
    BY Zenon, <1>1, <2>1, <2>4, <2>5 DEF Types, IInv
  <2>7. Compiles(t)' /\ \A u \in Threads \ {t} : Compiles(u)' <=> Compiles(u)
    BY Zenon, <2>2, <2>3 DEF Compiles
  <2>8. \A u \in Threads : ~(Compiles(u) /\ th[u].acc = acc)
    <3> SUFFICES ASSUME NEW u \in Threads, Compiles(u), th[u].acc = acc PROVE FALSE
      BY Zenon
    <3>1. compiling_key[acc] = th[u].key
      BY Zenon DEF IInv, Sole
    <3>2. th[u].key \in Keys
      BY Zenon, <1>1 DEF Types, ThTypes, Compiles
    <3> QED
      BY Zenon, <1>3, <3>1, <3>2, CacheAssumption
  <2>9. ASSUME NEW u \in Threads PROVE Sole(u)'
    <3>1. CASE u = t
      <4>1. \A v \in Threads : Compiles(v)' /\ th'[v].acc = th'[u].acc => v = u
        BY <3>1, <2>2, <2>3, <2>7, <2>8, Zenon
      <4>2. compiling_key'[th'[u].acc] = th'[u].key /\ th'[u].key \notin Range(code_cache'[th'[u].acc])
        BY <3>1, <2>1, <2>3, <2>5, Zenon DEF Cached
      <4> QED
        BY <4>1, <4>2, Zenon DEF Sole, Cached
    <3>2. CASE u # t
      <4> SUFFICES ASSUME Compiles(u)' PROVE Sole(u)'
        BY Zenon DEF Sole
      <4>1. Compiles(u) /\ th'[u] = th[u]
        BY <3>2, <2>2, <2>7, Zenon
      <4>2. th[u].acc # acc /\ th[u].acc \in Waiting
        BY <4>1, <2>8, Zenon DEF Compiles
      <4>3. /\ \A v \in Threads : Compiles(v) /\ th[v].acc = th[u].acc => v = u
            /\ compiling_key[th[u].acc] = th[u].key
            /\ ~Cached(th[u].acc, th[u].key)
        BY <4>1, Zenon DEF IInv, Sole
      <4>4. \A v \in Threads : Compiles(v)' /\ th'[v].acc = th'[u].acc => v = u
        BY <4>1, <4>2, <4>3, <2>2, <2>3, <2>7, Zenon
      <4>5. compiling_key'[th'[u].acc] = th'[u].key /\ th'[u].key \notin Range(code_cache'[th'[u].acc])
        BY <4>1, <4>2, <4>3, <2>1, <2>5, Zenon DEF Cached
      <4> QED
        BY <4>4, <4>5, Zenon DEF Sole, Cached
    <3> QED
      BY Zenon, <3>1, <3>2
  <2>10. ASSUME NEW a \in Waiting PROVE Owned(a)'
    <3>1. CASE a = acc
      BY <3>1, <2>3, <2>7, Zenon DEF Owned
    <3>2. CASE a # acc
      <4> SUFFICES ASSUME compiling_key'[a] # NoKey
                   PROVE  \E u \in Threads : Compiles(u)' /\ th'[u].acc = a
        BY Zenon DEF Owned
      <4>1. PICK u \in Threads : Compiles(u) /\ th[u].acc = a
        BY <3>2, <2>5, Zenon DEF IInv, Owned
      <4>2. u # t
        BY Zenon, <4>1, <3>2
      <4>3. Compiles(u)' /\ th'[u].acc = a
        BY <4>1, <4>2, <2>2, <2>7, Zenon
      <4> QED
        BY <4>3, Zenon
    <3> QED
      BY Zenon, <3>1, <3>2
  <2> QED
    BY <2>6, <2>9, <2>10, Zenon DEF IInv
<1> QED
  BY Zenon, <1>2, <1>3

\* put ends a compilation and wakes those who wait.
LEMMA PutStep ==
    ASSUME IInv, NEW t \in Threads, Put(t)
    PROVE  IInv'
<1> DEFINE acc == th[t].acc
           k == th[t].key
<1>1. Types /\ Compiles(t) /\ acc \in Waiting /\ acc \in Accessors /\ k \in Keys
  BY Zenon DEF IInv, Types, ThTypes, Put, At, Compiles, Accessors
<1>2. ~Cached(acc, k)
  BY <1>1, Zenon DEF IInv, Sole
<1>3. /\ PutLatest(acc, k)
      /\ compiling_key' = [compiling_key EXCEPT ![acc] = NoKey]
      /\ th' = NotifyAll(t)
      /\ failed' = failed
  BY <1>2, Zenon DEF Put
<1>4. /\ code_cache' \in [Accessors -> Seq(Keys)]
      /\ \A a \in Accessors \ {acc} : code_cache'[a] = code_cache[a]
  BY <1>1, <1>3, PutKeys, Zenon
<1>5. compiling_key' \in [Waiting -> Keys \cup {NoKey}] /\ compiling_key'[acc] = NoKey
      /\ \A a \in Waiting \ {acc} : compiling_key'[a] = compiling_key[a]
  BY Zenon, <1>1, <1>3 DEF Types
<1>6. \A u \in Threads :
         th'[u] = IF u = t THEN Idle
                  ELSE IF th[u].pc = "wait" /\ th[u].acc = acc
                  THEN [th[u] EXCEPT !.pc = "woken"] ELSE th[u]
  BY Zenon, <1>3 DEF NotifyAll
<1>7. \A u \in Threads \ {t} :
         /\ th'[u].acc = th[u].acc /\ th'[u].key = th[u].key
         /\ th'[u].pc = th[u].pc \/ (th[u].pc = "wait" /\ th'[u].pc = "woken")
         /\ th'[u] \in [pc : {"idle", "lock", "get", "wait", "woken", "lock_stub", "compile"},
                        acc : Accessors, key : Keys \cup {NoKey}]
  <2> SUFFICES ASSUME NEW u \in Threads \ {t}
               PROVE  /\ th'[u].acc = th[u].acc /\ th'[u].key = th[u].key
                      /\ th'[u].pc = th[u].pc \/ (th[u].pc = "wait" /\ th'[u].pc = "woken")
                      /\ th'[u] \in [pc : {"idle", "lock", "get", "wait", "woken", "lock_stub",
                                          "compile"},
                                     acc : Accessors, key : Keys \cup {NoKey}]
    BY Zenon, Zenon
  <2>1. th[u] \in [pc : {"idle", "lock", "get", "wait", "woken", "lock_stub", "compile"},
                   acc : Accessors, key : Keys \cup {NoKey}]
    BY Zenon, <1>1 DEF Types, ThTypes
  <2>2. CASE th[u].pc = "wait" /\ th[u].acc = acc
    <3>1. th'[u] = [th[u] EXCEPT !.pc = "woken"]
      BY Zenon, <1>6, <2>2
    <3> QED
      BY Zenon, <2>1, <2>2, <3>1
  <2>3. CASE ~(th[u].pc = "wait" /\ th[u].acc = acc)
    <3>1. th'[u] = th[u]
      BY Zenon, <1>6, <2>3
    <3> QED
      BY Zenon, <2>1, <3>1
  <2> QED
    BY Zenon, <2>2, <2>3
<1>8. th'[t] = Idle /\ Idle.pc = "idle" /\ ~Compiles(t)'
      /\ Idle \in [pc : {"idle", "lock", "get", "wait", "woken", "lock_stub", "compile"},
                   acc : Accessors, key : Keys \cup {NoKey}]
  <2>1. th'[t] = Idle
    BY Zenon, <1>6
  <2>2. Idle.pc = "idle"
        /\ Idle \in [pc : {"idle", "lock", "get", "wait", "woken", "lock_stub", "compile"},
                     acc : Accessors, key : Keys \cup {NoKey}]
    BY Zenon DEF Idle, Accessors, Waiting
  <2>3. ~Compiles(t)'
    BY Zenon, <2>1, <2>2 DEF Compiles
  <2> QED
    BY Zenon, <2>1, <2>2, <2>3
<1>9. ThTypes'
  <2>1. th' = [u \in Threads |-> th'[u]]
    BY Zenon, <1>3 DEF NotifyAll
  <2>2. \A u \in Threads : th'[u].pc # "idle" => th'[u].key \in Keys
    BY Zenon, <1>1, <1>7, <1>8 DEF Types, ThTypes
  <2>3. \A u \in Threads : th'[u].pc \in {"wait", "woken"} => th'[u].acc \in Waiting
    BY Zenon, <1>1, <1>7, <1>8 DEF Types, ThTypes
  <2> QED
    BY Zenon, <1>7, <1>8, <2>1, <2>2, <2>3 DEF ThTypes
<1>10. Types' /\ failed' # "put"
  BY Zenon, <1>3, <1>4, <1>5, <1>9 DEF Types, IInv
<1>11. \A u \in Threads \ {t} : Compiles(u)' <=> Compiles(u)
  BY Zenon, <1>7 DEF Compiles
<1>12. \A u \in Threads \ {t} : Compiles(u) => th[u].acc # acc
  BY <1>1, Zenon DEF IInv, Sole
<1>13. ASSUME NEW u \in Threads PROVE Sole(u)'
  <2> SUFFICES ASSUME Compiles(u)' PROVE Sole(u)'
    BY Zenon DEF Sole
  <2>1. u # t /\ Compiles(u) /\ th'[u].acc = th[u].acc /\ th'[u].key = th[u].key
    BY <1>7, <1>8, <1>11, Zenon
  <2>2. th[u].acc # acc /\ th[u].acc \in Waiting /\ th[u].acc \in Accessors
    BY Zenon, <2>1, <1>12 DEF Compiles, Accessors
  <2>3. /\ \A v \in Threads : Compiles(v) /\ th[v].acc = th[u].acc => v = u
        /\ compiling_key[th[u].acc] = th[u].key
        /\ th[u].key \notin Range(code_cache[th[u].acc])
    BY <2>1, Zenon DEF IInv, Sole, Cached
  <2>4. \A v \in Threads : Compiles(v)' /\ th'[v].acc = th'[u].acc => v = u
    BY <2>1, <2>3, <1>7, <1>8, <1>11, Zenon
  <2>5. compiling_key'[th'[u].acc] = th'[u].key
    BY <2>1, <2>2, <2>3, <1>5, Zenon
  <2>6. th'[u].key \notin Range(code_cache'[th'[u].acc])
    BY <2>1, <2>2, <2>3, <1>4, Zenon
  <2> QED
    BY <2>4, <2>5, <2>6, Zenon DEF Sole, Cached
<1>14. ASSUME NEW a \in Waiting PROVE Owned(a)'
  <2> SUFFICES ASSUME compiling_key'[a] # NoKey
               PROVE  \E u \in Threads : Compiles(u)' /\ th'[u].acc = a
    BY Zenon DEF Owned
  <2>1. a # acc /\ compiling_key[a] # NoKey
    BY <1>5, Zenon
  <2>2. PICK u \in Threads : Compiles(u) /\ th[u].acc = a
    BY <2>1, Zenon DEF IInv, Owned
  <2>3. u # t
    BY Zenon, <2>1, <2>2
  <2>4. Compiles(u)' /\ th'[u].acc = a
    BY <2>2, <2>3, <1>7, <1>11, Zenon
  <2> QED
    BY <2>4, Zenon
<1> QED
  BY <1>10, <1>13, <1>14, Zenon DEF IInv

\* get_value, the put for it, and clear.
LEMMA ValueStep ==
    ASSUME IInv, NEW t \in Threads, GetValue(t) \/ PutValue(t)
    PROVE  IInv'
<1>1. Types /\ ~Compiles(t) /\ th[t].acc = "cpu_code" /\ "cpu_code" \in Accessors
      /\ th[t].key \in Keys
  BY Zenon DEF IInv, Types, ThTypes, GetValue, PutValue, At, Compiles, Accessors, Waiting
<1>2. /\ code_cache' \in [Accessors -> Seq(Keys)]
      /\ \A a \in Waiting : code_cache'[a] = code_cache[a]
  <2>1. CASE code_cache' = code_cache
    BY Zenon, <1>1, <2>1 DEF Types
  <2>2. CASE PutLatest("cpu_code", th[t].key)
    <3>1. /\ code_cache' \in [Accessors -> Seq(Keys)]
          /\ \A a \in Accessors \ {"cpu_code"} : code_cache'[a] = code_cache[a]
      BY <1>1, <2>2, PutKeys, Zenon
    <3> QED
      BY Zenon, <3>1 DEF Accessors, Waiting
  <2> QED
    BY <2>1, <2>2, Zenon DEF GetValue, PutValue
<1>3. compiling_key' = compiling_key /\ failed' = failed
  BY Zenon DEF GetValue, PutValue
<1>4. th' = [th EXCEPT ![t] = Idle] \/ th' = [th EXCEPT ![t].pc = "compile"]
  BY Zenon DEF GetValue, PutValue, Return, Goto
<1>5. th[t] \in [pc : {"idle", "lock", "get", "wait", "woken", "lock_stub", "compile"},
                 acc : Accessors, key : Keys \cup {NoKey}]
  BY Zenon, <1>1 DEF Types, ThTypes
<1>6. \/ th'[t] = Idle /\ Idle.pc = "idle" /\ Idle.key = NoKey /\ Idle.acc \in Accessors
      \/ th'[t].pc = "compile" /\ th'[t].acc = "cpu_code" /\ th'[t].key = th[t].key
  BY <1>1, <1>4, <1>5 DEF Types, ThTypes, Idle, Accessors, Waiting
<1>7. th' \in [Threads -> [pc : {"idle", "lock", "get", "wait", "woken", "lock_stub", "compile"},
                          acc : Accessors, key : Keys \cup {NoKey}]]
      /\ \A u \in Threads \ {t} : th'[u] = th[u]
  <2>1. Idle \in [pc : {"idle", "lock", "get", "wait", "woken", "lock_stub", "compile"},
                  acc : Accessors, key : Keys \cup {NoKey}]
    BY Zenon DEF Idle, Accessors, Waiting
  <2>2. CASE th' = [th EXCEPT ![t] = Idle]
    BY Zenon, <1>1, <2>1, <2>2 DEF Types, ThTypes
  <2>3. CASE th' = [th EXCEPT ![t].pc = "compile"]
    BY Zenon, <1>1, <1>5, <2>3 DEF Types, ThTypes
  <2> QED
    BY Zenon, <1>4, <2>2, <2>3
<1>8. ThTypes'
  <2>1. \A u \in Threads : th'[u].pc # "idle" => th'[u].key \in Keys
    BY Zenon, <1>1, <1>6, <1>7 DEF Types, ThTypes
  <2>2. \A u \in Threads : th'[u].pc \in {"wait", "woken"} => th'[u].acc \in Waiting
    BY Zenon, <1>1, <1>6, <1>7 DEF Types, ThTypes
  <2> QED
    BY Zenon, <1>7, <2>1, <2>2 DEF ThTypes
<1>9. ~Compiles(t)'
  BY Zenon, <1>6 DEF Compiles, Waiting
<1>10. \A u \in Threads \ {t} : Compiles(u)' <=> Compiles(u)
  BY Zenon, <1>7 DEF Compiles
<1>11. SameWork
  BY <1>1, <1>7, <1>9, <1>10, Zenon DEF SameWork
<1>12. Quiet /\ Types' /\ failed' # "put"
  BY Zenon, <1>1, <1>2, <1>3, <1>8, <1>11 DEF Quiet, Types, IInv
<1> QED
  BY <1>12, QuietKeeps, Zenon DEF IInv

\* Clearing takes keys away, and leaves the threads alone.
LEMMA ClearStep ==
    ASSUME IInv, NEW acc \in Accessors, Clear(acc)
    PROVE  IInv'
<1>1. Types
  BY Zenon DEF IInv
<1>2. /\ code_cache' \in [Accessors -> Seq(Keys)]
      /\ \A a \in Accessors : code_cache'[a] = IF a = acc THEN <<>> ELSE code_cache[a]
  BY <1>1 DEF Clear, Types
<1>3. \A a \in Waiting : Range(code_cache'[a]) \subseteq Range(code_cache[a])
  <2>1. Range(<<>>) = {}
    BY DEF Range
  <2> QED
    BY Zenon, <1>2, <2>1 DEF Accessors
<1>4. SameWork /\ ThTypes'
  BY Zenon, <1>1 DEF Clear, SameWork, Compiles, Types, ThTypes
<1>5. Quiet /\ Types' /\ failed' # "put"
  BY Zenon, <1>1, <1>2, <1>3, <1>4 DEF Clear, Quiet, Types, IInv
<1> QED
  BY <1>5, QuietKeeps, Zenon DEF IInv

\* get_or_wait, up to its wait and after a wake-up.
LEMMA GetStep ==
    ASSUME IInv, NEW t \in Threads, GetOrWait(t) \/ Woken(t)
    PROVE  IInv'
<1> DEFINE acc == th[t].acc
           k == th[t].key
<1>1. th[t].pc \in {"get", "woken"} /\ acc \in Waiting /\ ~Compiles(t)
  BY Zenon DEF IInv, Types, ThTypes, GetOrWait, Woken, At, Compiles
<1>2. \/ Cached(acc, k) /\ Hit(t)
      \/ Goto(t, "wait") /\ UNCHANGED <<code_cache, compiling_key, failed>>
      \/ ~Cached(acc, k) /\ Claim(t)
  BY Zenon DEF GetOrWait, Woken
<1>3. CASE Cached(acc, k) /\ Hit(t)
  BY <1>1, <1>3, HitStep, Zenon
<1>4. CASE Goto(t, "wait") /\ UNCHANGED <<code_cache, compiling_key, failed>>
  BY <1>1, <1>4, WaitStep, Zenon
<1>5. CASE ~Cached(acc, k) /\ Claim(t)
  BY <1>1, <1>5, ClaimStep, Zenon
<1> QED
  BY <1>2, <1>3, <1>4, <1>5, Zenon
-----------------------------------------------------------------------------
\* Every step preserves the invariant.
LEMMA NextStep ==
    ASSUME IInv, [Next]_vars
    PROVE  IInv'
<1>1. CASE UNCHANGED vars
  BY Zenon, <1>1 DEF vars, IInv, Types, ThTypes, Sole, Owned, Compiles, Cached
<1>2. ASSUME NEW t \in Threads, NEW acc \in Accessors, NEW k \in Keys, Request(t, acc, k)
      PROVE  IInv'
  BY <1>2, RequestStep, Zenon
<1>3. ASSUME NEW t \in Threads, Step(t) PROVE IInv'
  BY <1>3, LockStep, GetStep, PutStep, ValueStep, Zenon DEF Step
<1>4. ASSUME NEW acc \in Accessors, Clear(acc) PROVE IInv'
  BY <1>4, ClearStep, Zenon
<1> QED
  BY <1>1, <1>2, <1>3, <1>4, Zenon DEF Next

\* Nobody asked for code yet.
LEMMA InitHolds == Init => IInv
<1> SUFFICES ASSUME Init PROVE IInv
  BY Zenon
<1>1. \A t \in Threads : th[t] = Idle /\ Idle.pc = "idle"
  BY Zenon DEF Init, Idle
<1>2. \A t \in Threads : ~Compiles(t)
  BY Zenon, <1>1 DEF Compiles
<1>3. Types
  <2>1. Idle \in [pc : {"idle", "lock", "get", "wait", "woken", "lock_stub", "compile"},
                  acc : Accessors, key : Keys \cup {NoKey}]
    BY Zenon DEF Idle, Accessors, Waiting
  <2>2. ThTypes
    BY Zenon, <1>1, <2>1 DEF Init, ThTypes
  <2> QED
    BY <2>2 DEF Init, Types
<1>4. \A a \in Waiting : compiling_key[a] = NoKey
  BY Zenon DEF Init
<1> QED
  BY Zenon, <1>2, <1>3, <1>4 DEF IInv, Sole, Owned, Init

\* The invariant says more than OneCompiler.
LEMMA IInvSuffices == IInv => OneCompiler
<1> SUFFICES ASSUME IInv PROVE OneCompiler
  BY Zenon
<1>1. ASSUME NEW t \in Threads, NEW u \in Threads, Compiles(t), Compiles(u),
             th[t].acc = th[u].acc
      PROVE  t = u
  BY <1>1, Zenon DEF IInv, Sole
<1>2. ASSUME NEW a \in Waiting, NEW k \in Keys, compiling_key[a] = k
      PROVE  \E t \in Threads : Compiles(t) /\ th[t].acc = a /\ th[t].key = k
  <2>1. compiling_key[a] # NoKey
    BY Zenon, <1>2, CacheAssumption
  <2>2. PICK t \in Threads : Compiles(t) /\ th[t].acc = a
    BY <2>1, Zenon DEF IInv, Owned
  <2>3. th[t].key = k
    BY <1>2, <2>2, Zenon DEF IInv, Sole
  <2> QED
    BY <2>2, <2>3, Zenon
<1>3. ASSUME NEW a \in Waiting, NEW k \in Keys, NEW t \in Threads,
             Compiles(t), th[t].acc = a, th[t].key = k
      PROVE  compiling_key[a] = k
  BY <1>3, Zenon DEF IInv, Sole
<1>4. failed # "put"
  BY Zenon DEF IInv
<1> QED
  BY <1>1, <1>2, <1>3, <1>4, Zenon DEF OneCompiler

\* Whatever the number of threads, executors and keys and the size of the caches: a
\* key is being compiled exactly while one thread is between get_or_wait and put with
\* it, no two threads compile for one cache, and put never finds its key there.
THEOREM CompiledOnce == Spec => []OneCompiler
<1>1. IInv /\ [Next]_vars => IInv'
  BY Zenon, NextStep
<1> QED
  BY InitHolds, <1>1, IInvSuffices, PTL DEF Spec

\* A step that ends the process is that of get_or_wait finding another key claimed.
LEMMA FailStep ==
    ASSUME IInv, [Next]_vars, failed' # failed
    PROVE  \E t, u \in Threads :
              /\ th[t].pc \in {"get", "woken"} /\ Compiles(u)
              /\ th[u].acc = th[t].acc /\ th[u].key # th[t].key
<1>1. \E t \in Threads : GetOrWait(t) \/ Woken(t) \/ Put(t)
  BY Zenon DEF Next, Step, vars, Request, Lock, GetValue, PutValue, Clear
<1>2. PICK t \in Threads : GetOrWait(t) \/ Woken(t) \/ Put(t)
  BY <1>1, Zenon
<1> DEFINE acc == th[t].acc
<1>3. ~Put(t)
  <2> SUFFICES ASSUME Put(t) PROVE FALSE
    BY Zenon
  <2>1. Compiles(t)
    BY Zenon DEF Put, At, Compiles
  <2>2. ~Cached(acc, th[t].key)
    BY <2>1, Zenon DEF IInv, Sole
  <2> QED
    BY <2>2, Zenon DEF Put
<1>4. th[t].pc \in {"get", "woken"} /\ acc \in Waiting
  BY Zenon, <1>2, <1>3 DEF IInv, Types, ThTypes, GetOrWait, Woken, At
<1>5. Claim(t) /\ ~Compiling(acc, th[t].key)
  BY <1>2, <1>3, Zenon DEF GetOrWait, Woken, Hit
<1>6. compiling_key[acc] # NoKey /\ compiling_key[acc] # th[t].key
  BY <1>5, Zenon DEF Claim, Compiling
<1>7. PICK u \in Threads : Compiles(u) /\ th[u].acc = acc
  BY <1>4, <1>6, Zenon DEF IInv, Owned
<1>8. th[u].key # th[t].key
  BY <1>6, <1>7, Zenon DEF IInv, Sole
<1> QED
  BY <1>4, <1>7, <1>8, Zenon

\* For any number of threads and keys, the check of get_or_wait fails only when two
\* different keys are asked of one cache at the same time, never for one key.
THEOREM FailsOnlyForCause == Spec => FailsForCause
<1>1. IInv /\ [Next]_vars => IInv'
  BY Zenon, NextStep
<1>2. IInv /\ [Next]_vars =>
        [failed' # failed =>
            \E t, u \in Threads :
                /\ th[t].pc \in {"get", "woken"} /\ Compiles(u)
                /\ th[u].acc = th[t].acc /\ th[u].key # th[t].key]_vars
  BY FailStep, Zenon
<1> QED
  BY InitHolds, <1>1, <1>2, PTL DEF Spec, FailsForCause

-----------------------------------------------------------------------------
(* The lists of the caches and the mutexes of the executors.                 *)

\* A cache has each key once, and room for all.
FitsOnce(s) == Len(s) <= MaxSize /\ \A i, j \in DOMAIN s : s[i] = s[j] => i = j

\* The thread works under the compilation_mutex_ of its executor: it compiles, or it
\* took the mutex before get_or_wait or get_value.
UnderMutex(t) ==
    \/ th[t].pc = "compile"
    \/ th[t].acc # "s_stubs" /\ th[t].pc \in {"get", "wait", "woken"}

MutexesHeld ==
    /\ mutex \in [Executors -> Threads \cup {NoThread}]
    /\ \A t \in Threads : UnderMutex(t) => mutex[ExecutorOf[t]] = t

LruInv ==
    /\ IInv /\ MutexesHeld
    /\ \A a \in Accessors : FitsOnce(code_cache[a])
    /\ failed \in {"no", "get_or_wait", "put"}

\* LruCache::get.
LEMMA SplicedFits ==
    ASSUME NEW s \in Seq(Keys), NEW k \in Range(s), FitsOnce(s)
    PROVE  FitsOnce(Spliced(s, k))
<1>1. PICK at : at = CHOOSE i \in DOMAIN s : s[i] = k
  BY Zenon
<1>2. at \in 1..Len(s) /\ s[at] = k
  BY <1>1 DEF Range
<1>3. PICK r : r = Spliced(s, k)
  BY Zenon
<1>4. r = [i \in 1..Len(s) |-> IF i = 1 THEN k ELSE IF i <= at THEN s[i - 1] ELSE s[i]]
  BY Zenon, <1>1, <1>3 DEF Spliced
<1>5. Len(s) \in Nat /\ DOMAIN r = 1..Len(s) /\ Len(r) = Len(s)
  BY <1>4
<1>6. ASSUME NEW i \in 1..Len(s), NEW j \in 1..Len(s), i < j
      PROVE  r[i] # r[j]
  <2>1. \A p, q \in 1..Len(s) : s[p] = s[q] => p = q
    BY DEF FitsOnce
  <2>2. CASE i = 1
    <3>1. CASE j <= at
      BY <1>2, <1>4, <1>6, <2>1, <2>2, <3>1
    <3>2. CASE j > at
      BY <1>2, <1>4, <1>6, <2>1, <2>2, <3>2
    <3> QED
      BY <1>2, <3>1, <3>2
  <2>3. CASE i # 1
    BY <1>2, <1>4, <1>6, <2>1, <2>3
  <2> QED
    BY Zenon, <2>2, <2>3
<1>7. \A i, j \in 1..Len(s) : r[i] = r[j] => i = j
  BY <1>5, <1>6
<1> QED
  BY Zenon, <1>3, <1>5, <1>7 DEF FitsOnce

\* LruCache::put of a key that is not there.
LEMMA PutFits ==
    ASSUME NEW s \in Seq(Keys), NEW k \in Keys \ Range(s), FitsOnce(s), NEW all, NEW r,
           all = <<k>> \o s,
           r = IF Len(all) > MaxSize THEN SubSeq(all, 1, Len(all) - 1) ELSE all
    PROVE  FitsOnce(r)
<1>1. all \in Seq(Keys) /\ Len(all) = Len(s) + 1 /\ Len(s) \in Nat /\ MaxSize \in Nat \ {0}
      /\ \A i \in 1..Len(all) : all[i] = IF i = 1 THEN k ELSE s[i - 1]
  BY CacheAssumption
<1>2. Len(s) <= MaxSize /\ \A i, j \in 1..Len(s) : s[i] = s[j] => i = j
  BY DEF FitsOnce
<1>3. \A i \in 1..Len(s) : s[i] # k
  BY DEF Range
<1>4. \A i, j \in 1..Len(all) : all[i] = all[j] => i = j
  BY SMTT(30), <1>1, <1>2, <1>3
<1>5. CASE Len(all) > MaxSize
  <2>1. /\ Len(r) = Len(s) /\ DOMAIN r = 1..Len(s)
        /\ \A i \in 1..Len(s) : r[i] = all[i]
    BY <1>1, <1>5
  <2>2. \A i \in 1..Len(s) : i \in 1..Len(all)
    BY <1>1
  <2>3. \A i, j \in 1..Len(s) : r[i] = r[j] => i = j
    BY <1>4, <2>1, <2>2
  <2> QED
    BY ZenonT(30), <1>2, <2>1, <2>3 DEF FitsOnce
<1>6. CASE ~(Len(all) > MaxSize)
  BY <1>1, <1>4, <1>6 DEF FitsOnce
<1> QED
  BY Zenon, <1>5, <1>6

\* What a step does to the list of a cache.
LEMMA ListStep ==
    ASSUME LruInv, NEW acc \in Accessors, NEW k,
           \/ Touch(acc, k) /\ Cached(acc, k)
           \/ PutLatest(acc, k) /\ ~Cached(acc, k) /\ k \in Keys
    PROVE  \A a \in Accessors : FitsOnce(code_cache'[a])
<1>1. code_cache \in [Accessors -> Seq(Keys)] /\ \A a \in Accessors : FitsOnce(code_cache[a])
  BY Zenon DEF LruInv, IInv, Types
<1>2. CASE Touch(acc, k) /\ Cached(acc, k)
  <2>1. /\ code_cache'[acc] = Spliced(code_cache[acc], k)
        /\ \A a \in Accessors \ {acc} : code_cache'[a] = code_cache[a]
    BY Zenon, <1>1, <1>2 DEF Touch
  <2>2. FitsOnce(code_cache'[acc])
    BY Zenon, <1>1, <1>2, <2>1, SplicedFits DEF Cached
  <2> QED
    BY Zenon, <1>1, <2>1, <2>2
<1>3. CASE PutLatest(acc, k) /\ ~Cached(acc, k) /\ k \in Keys
  <2>1. PICK all, r : /\ all = <<k>> \o code_cache[acc]
                      /\ r = IF Len(all) > MaxSize THEN SubSeq(all, 1, Len(all) - 1) ELSE all
    BY Zenon
  <2>2. code_cache'[acc] = r /\ \A a \in Accessors \ {acc} : code_cache'[a] = code_cache[a]
    BY Zenon, <1>1, <1>3, <2>1 DEF PutLatest
  <2>3. FitsOnce(r)
    BY Zenon, <1>1, <1>3, <2>1, PutFits DEF Cached
  <2> QED
    BY Zenon, <1>1, <2>2, <2>3
<1> QED
  BY Zenon, <1>2, <1>3

\* The mutexes when only thread t moves, or others are woken, and no mutex changes
\* hands but that of t's executor.
LEMMA MutexStep ==
    ASSUME LruInv, NEW t \in Threads,
           \A u \in Threads \ {t} : UnderMutex(u)' => UnderMutex(u),
           \/ /\ mutex' = mutex
              /\ UnderMutex(t)' => UnderMutex(t)
           \/ /\ mutex' = [e \in Executors |-> IF mutex[e] = t THEN NoThread ELSE mutex[e]]
              /\ ~UnderMutex(t)'
           \/ /\ mutex' = [mutex EXCEPT ![ExecutorOf[t]] = NoThread]
              /\ UnderMutex(t) /\ ~UnderMutex(t)'
           \/ /\ mutex' = [mutex EXCEPT ![ExecutorOf[t]] = t]
              /\ mutex[ExecutorOf[t]] = NoThread
    PROVE  MutexesHeld'
<1>1. /\ mutex \in [Executors -> Threads \cup {NoThread}]
      /\ \A u \in Threads : UnderMutex(u) => mutex[ExecutorOf[u]] = u
      /\ \A u \in Threads : ExecutorOf[u] \in Executors
      /\ NoThread \notin Threads
  BY Zenon, CacheAssumption DEF LruInv, MutexesHeld
<1>2. mutex' \in [Executors -> Threads \cup {NoThread}]
  BY Zenon, <1>1
<1>3. ASSUME NEW u \in Threads, UnderMutex(u)'
      PROVE  mutex'[ExecutorOf[u]] = u
  <2>1. CASE u = t
    BY Zenon, <1>1, <1>3, <2>1
  <2>2. CASE u # t
    <3>1. mutex[ExecutorOf[u]] = u
      BY Zenon, <1>1, <1>3, <2>2
    <3>2. mutex'[ExecutorOf[u]] = mutex[ExecutorOf[u]]
      BY Zenon, <1>1, <2>2, <3>1
    <3> QED
      BY Zenon, <3>1, <3>2
  <2> QED
    BY Zenon, <2>1, <2>2
<1> QED
  BY Zenon, <1>2, <1>3 DEF MutexesHeld

\* The other threads of a step of t are where they were, or are woken.
LEMMA OthersUnder ==
    ASSUME Types, NEW t \in Threads, NEW u \in Threads \ {t},
           th'[u] = th[u] \/ (th[u].pc = "wait" /\ th'[u] = [th[u] EXCEPT !.pc = "woken"])
    PROVE  UnderMutex(u)' => UnderMutex(u)
<1>1. th[u] \in [pc : {"idle", "lock", "get", "wait", "woken", "lock_stub", "compile"},
                 acc : Accessors, key : Keys \cup {NoKey}]
  BY Zenon DEF Types, ThTypes
<1> QED
  BY Zenon, <1>1 DEF UnderMutex

\* Where a step leads its thread.
LEMMA TMoves ==
    ASSUME Types, NEW t \in Threads
    PROVE  /\ \A p : Goto(t, p) =>
                 /\ th'[t].pc = p /\ th'[t].acc = th[t].acc
                 /\ \A u \in Threads \ {t} : th'[u] = th[u]
           /\ th' = [th EXCEPT ![t] = Idle] =>
                 /\ th'[t].pc = "idle"
                 /\ \A u \in Threads \ {t} : th'[u] = th[u]
<1>1. th \in [Threads -> [pc : {"idle", "lock", "get", "wait", "woken", "lock_stub", "compile"},
                          acc : Accessors, key : Keys \cup {NoKey}]]
  BY Zenon DEF Types, ThTypes
<1>2. ASSUME NEW p, Goto(t, p)
      PROVE  /\ th'[t].pc = p /\ th'[t].acc = th[t].acc
             /\ \A u \in Threads \ {t} : th'[u] = th[u]
  BY Zenon, <1>1, <1>2 DEF Goto
<1>3. ASSUME th' = [th EXCEPT ![t] = Idle]
      PROVE  th'[t].pc = "idle" /\ \A u \in Threads \ {t} : th'[u] = th[u]
  BY Zenon, <1>1, <1>3 DEF Idle
<1> QED
  BY Zenon, <1>2, <1>3

\* A request and its taking of the mutex.
LEMMA LockFits ==
    ASSUME LruInv, NEW t \in Threads,
           (\E acc \in Accessors, k \in Keys : Request(t, acc, k)) \/ Lock(t)
    PROVE  MutexesHeld' /\ UNCHANGED <<code_cache, failed>>
<1>0. Types
  BY Zenon DEF LruInv, IInv
<1>1. CASE \E acc \in Accessors, k \in Keys : Request(t, acc, k)
  <2>1. PICK acc \in Accessors, k \in Keys : Request(t, acc, k)
    BY Zenon, <1>1
  <2>2. /\ th'[t].pc \in {"get", "lock"} /\ (th'[t].pc = "get" => th'[t].acc = "s_stubs")
        /\ \A u \in Threads \ {t} : th'[u] = th[u]
        /\ UNCHANGED <<code_cache, mutex, failed>>
    BY Zenon, <1>0, <2>1 DEF Types, ThTypes, Request
  <2>3. ~UnderMutex(t)'
    BY Zenon, <2>2 DEF UnderMutex
  <2> QED
    BY Zenon, <1>0, <2>2, <2>3, OthersUnder, MutexStep
<1>2. CASE Lock(t)
  <2>1. /\ mutex' = [mutex EXCEPT ![ExecutorOf[t]] = t] /\ mutex[ExecutorOf[t]] = NoThread
        /\ UNCHANGED <<code_cache, failed>>
        /\ Goto(t, IF th[t].pc = "lock" THEN "get" ELSE "compile")
    BY Zenon, <1>2 DEF Lock
  <2>2. \A u \in Threads \ {t} : th'[u] = th[u]
    BY Zenon, <1>0, <2>1, TMoves
  <2> QED
    BY Zenon, <1>0, <2>1, <2>2, OthersUnder, MutexStep
<1> QED
  BY Zenon, <1>1, <1>2

\* get_or_wait finds the key.
LEMMA HitFits ==
    ASSUME LruInv, NEW t \in Threads, th[t].acc \in Waiting, Cached(th[t].acc, th[t].key), Hit(t)
    PROVE  MutexesHeld' /\ \A a \in Accessors : FitsOnce(code_cache'[a])
<1>0. Types
  BY Zenon DEF LruInv, IInv
<1>1. /\ Touch(th[t].acc, th[t].key) /\ th' = [th EXCEPT ![t] = Idle]
      /\ mutex' = [e \in Executors |-> IF mutex[e] = t THEN NoThread ELSE mutex[e]]
  BY Zenon DEF Hit, Return
<1>2. th'[t].pc = "idle" /\ \A u \in Threads \ {t} : th'[u] = th[u]
  BY Zenon, <1>0, <1>1, TMoves
<1>3. ~UnderMutex(t)'
  BY Zenon, <1>2 DEF UnderMutex
<1>4. MutexesHeld'
  BY Zenon, <1>0, <1>1, <1>2, <1>3, OthersUnder, MutexStep
<1>5. th[t].acc \in Accessors
  BY Zenon DEF Accessors
<1>6. \A a \in Accessors : FitsOnce(code_cache'[a])
  BY Zenon, <1>1, <1>5, ListStep
<1> QED
  BY Zenon, <1>4, <1>6

\* get_or_wait waits, claims the key or ends the process.
LEMMA MissFits ==
    ASSUME LruInv, NEW t \in Threads, th[t].pc \in {"get", "woken"},
           UNCHANGED <<code_cache, mutex>>,
           \/ UNCHANGED th
           \/ Goto(t, "wait")
           \/ Goto(t, IF th[t].acc = "s_stubs" THEN "lock_stub" ELSE "compile")
    PROVE  MutexesHeld' /\ \A a \in Accessors : FitsOnce(code_cache'[a])
<1>0. Types
  BY Zenon DEF LruInv, IInv
<1>1. \A u \in Threads \ {t} : th'[u] = th[u]
  BY Zenon, <1>0, TMoves
<1>2. UnderMutex(t)' => UnderMutex(t)
  <2>1. CASE UNCHANGED th
    BY Zenon, <2>1 DEF UnderMutex
  <2>2. CASE Goto(t, "wait")
    <3>1. th'[t].pc = "wait" /\ th'[t].acc = th[t].acc
      BY Zenon, <1>0, <2>2, TMoves
    <3> QED
      BY Zenon, <3>1 DEF UnderMutex
  <2>3. CASE Goto(t, IF th[t].acc = "s_stubs" THEN "lock_stub" ELSE "compile")
    <3>1. /\ th'[t].pc = IF th[t].acc = "s_stubs" THEN "lock_stub" ELSE "compile"
          /\ th'[t].acc = th[t].acc
      BY Zenon, <1>0, <2>3, TMoves
    <3> QED
      BY Zenon, <3>1 DEF UnderMutex
  <2> QED
    BY Zenon, <2>1, <2>2, <2>3
<1>3. MutexesHeld'
  BY Zenon, <1>0, <1>1, <1>2, OthersUnder, MutexStep
<1> QED
  BY Zenon, <1>3 DEF LruInv

\* put of compiled code.
LEMMA PutFitsStep ==
    ASSUME LruInv, NEW t \in Threads, Put(t)
    PROVE  MutexesHeld' /\ (\A a \in Accessors : FitsOnce(code_cache'[a])) /\ failed' = failed
<1>0. Types /\ th[t].pc = "compile" /\ th[t].acc \in Waiting /\ th[t].key \in Keys
  BY Zenon DEF LruInv, IInv, Types, ThTypes, Put, At
<1>1. ~Cached(th[t].acc, th[t].key)
  <2>1. Compiles(t)
    BY Zenon, <1>0 DEF Compiles
  <2> QED
    BY <2>1, Zenon DEF LruInv, IInv, Sole
<1>2. /\ PutLatest(th[t].acc, th[t].key) /\ th' = NotifyAll(t) /\ UNCHANGED failed
      /\ mutex' = [mutex EXCEPT ![ExecutorOf[t]] = NoThread]
  BY <1>1, Zenon DEF Put
<1>3. /\ th'[t] = Idle
      /\ \A u \in Threads \ {t} :
            th'[u] = th[u] \/ (th[u].pc = "wait" /\ th'[u] = [th[u] EXCEPT !.pc = "woken"])
  BY Zenon, <1>2 DEF NotifyAll
<1>4. UnderMutex(t) /\ ~UnderMutex(t)'
  BY <1>0, <1>3 DEF UnderMutex, Idle
<1>5. \A u \in Threads \ {t} : UnderMutex(u)' => UnderMutex(u)
  BY Zenon, <1>0, <1>3, OthersUnder
<1>6. MutexesHeld'
  BY Zenon, <1>2, <1>4, <1>5, MutexStep
<1>7. th[t].acc \in Accessors
  BY Zenon, <1>0 DEF Accessors
<1>8. \A a \in Accessors : FitsOnce(code_cache'[a])
  BY Zenon, <1>0, <1>1, <1>2, <1>7, ListStep
<1> QED
  BY Zenon, <1>2, <1>6, <1>8

\* get_value and its put.
LEMMA ValueFits ==
    ASSUME LruInv, NEW t \in Threads, GetValue(t) \/ PutValue(t)
    PROVE  MutexesHeld' /\ (\A a \in Accessors : FitsOnce(code_cache'[a])) /\ failed' = failed
<1>0. /\ Types /\ th[t].acc = "cpu_code" /\ "cpu_code" \in Accessors /\ th[t].key \in Keys
      /\ th[t].pc \in {"get", "compile"} /\ failed' = failed
  BY Zenon DEF LruInv, IInv, Types, ThTypes, GetValue, PutValue, At, Accessors
<1>1. UnderMutex(t)
  BY Zenon, <1>0 DEF UnderMutex
<1>2. /\ \A u \in Threads \ {t} : th'[u] = th[u]
      /\ \/ mutex' = mutex
         \/ /\ mutex' = [e \in Executors |-> IF mutex[e] = t THEN NoThread ELSE mutex[e]]
            /\ th'[t].pc = "idle"
  <2>1. \/ Goto(t, "compile") /\ mutex' = mutex
        \/ /\ th' = [th EXCEPT ![t] = Idle]
           /\ mutex' = [e \in Executors |-> IF mutex[e] = t THEN NoThread ELSE mutex[e]]
    BY Zenon DEF GetValue, PutValue, Return
  <2> QED
    BY Zenon, <1>0, <2>1, TMoves
<1>3. th'[t].pc = "idle" => ~UnderMutex(t)'
  BY Zenon DEF UnderMutex
<1>4. MutexesHeld'
  BY Zenon, <1>0, <1>1, <1>2, <1>3, OthersUnder, MutexStep
<1>5. \/ code_cache' = code_cache
      \/ ~Cached("cpu_code", th[t].key) /\ PutLatest("cpu_code", th[t].key)
  BY Zenon DEF GetValue, PutValue
<1>6. \A a \in Accessors : FitsOnce(code_cache'[a])
  BY Zenon, <1>0, <1>5, ListStep DEF LruInv
<1> QED
  BY Zenon, <1>0, <1>4, <1>6

\* Every step preserves it.
LEMMA LruStep ==
    ASSUME LruInv, [Next]_vars
    PROVE  LruInv'
<1>0. IInv' /\ IInv
  BY Zenon, NextStep DEF LruInv
<1>1. CASE UNCHANGED vars
  BY Zenon, <1>0, <1>1 DEF vars, LruInv, MutexesHeld, UnderMutex, FitsOnce
<1>2. ASSUME NEW t \in Threads,
             (\E acc \in Accessors, k \in Keys : Request(t, acc, k)) \/ Lock(t)
      PROVE  LruInv'
  BY Zenon, <1>0, <1>2, LockFits DEF LruInv
<1>3. ASSUME NEW t \in Threads, GetOrWait(t) \/ Woken(t)
      PROVE  LruInv'
  <2>1. th[t].pc \in {"get", "woken"} /\ th[t].acc \in Waiting
    BY Zenon, <1>0, <1>3 DEF IInv, Types, ThTypes, GetOrWait, Woken, At
  <2>2. \/ Cached(th[t].acc, th[t].key) /\ Hit(t)
        \/ /\ UNCHANGED <<code_cache, mutex>>
           /\ failed' \in {failed, "get_or_wait"}
           /\ \/ UNCHANGED th
              \/ Goto(t, "wait")
              \/ Goto(t, IF th[t].acc = "s_stubs" THEN "lock_stub" ELSE "compile")
    BY <1>3, Zenon DEF GetOrWait, Woken, Claim
  <2>3. MutexesHeld' /\ \A a \in Accessors : FitsOnce(code_cache'[a])
    BY <2>1, <2>2, HitFits, MissFits, Zenon
  <2>4. failed' \in {failed, "get_or_wait"}
    BY Zenon, <2>2 DEF Hit
  <2> QED
    BY Zenon, <1>0, <2>3, <2>4 DEF LruInv
<1>4. ASSUME NEW t \in Threads, Put(t) \/ GetValue(t) \/ PutValue(t)
      PROVE  LruInv'
  BY Zenon, <1>0, <1>4, PutFitsStep, ValueFits DEF LruInv
<1>5. ASSUME NEW acc \in Accessors, Clear(acc)
      PROVE  LruInv'
  <2>1. /\ UNCHANGED <<mutex, th, failed>>
        /\ code_cache' = [code_cache EXCEPT ![acc] = <<>>]
    BY Zenon, <1>5 DEF Clear
  <2>2. MutexesHeld'
    BY Zenon, <2>1 DEF LruInv, MutexesHeld, UnderMutex
  <2>3. FitsOnce(<<>>)
    BY CacheAssumption DEF FitsOnce
  <2>4. \A a \in Accessors : FitsOnce(code_cache'[a])
    BY Zenon, <1>0, <2>1, <2>3 DEF LruInv, IInv, Types
  <2> QED
    BY Zenon, <1>0, <2>1, <2>2, <2>4 DEF LruInv
<1> QED
  BY <1>1, <1>2, <1>3, <1>4, <1>5, Zenon DEF Next, Step

\* It holds of every behaviour.
LEMMA LruAlways == Spec => []LruInv
<1>1. Init => LruInv
  <2> SUFFICES ASSUME Init PROVE LruInv
    BY Zenon
  <2>1. IInv
    BY Zenon, InitHolds
  <2>2. \A t \in Threads : ~UnderMutex(t)
    BY Zenon DEF Init, Idle, UnderMutex
  <2>3. MutexesHeld
    BY Zenon, <2>2 DEF Init, MutexesHeld
  <2>4. \A a \in Accessors : FitsOnce(code_cache[a])
    BY CacheAssumption DEF Init, FitsOnce
  <2> QED
    BY Zenon, <2>1, <2>3, <2>4 DEF LruInv, Init
<1>2. LruInv /\ [Next]_vars => LruInv'
  BY Zenon, LruStep
<1> QED
  BY <1>1, <1>2, PTL DEF Spec

\* A cache has each key once and never more keys than code_cache_size, although
\* get_value's put may come second and get moves entries to the front.
THEOREM CachesFit == Spec => []TypeOK
<1>1. LruInv => TypeOK
  <2> SUFFICES ASSUME LruInv PROVE TypeOK
    BY Zenon
  <2>1. \A a \in Accessors : code_cache[a] \in Seq(Keys)
    BY Zenon DEF LruInv, IInv, Types
  <2>2. \A t \in Threads :
           th[t].pc \in {"idle", "lock", "get", "wait", "woken", "lock_stub", "compile"}
    BY Zenon DEF LruInv, IInv, Types, ThTypes
  <2> QED
    BY Zenon, <2>1, <2>2 DEF TypeOK, LruInv, FitsOnce, MutexesHeld, IInv, Types
<1> QED
  BY <1>1, LruAlways, PTL

\* No two threads compile for one executor at a time: a thread compiles under the
\* compilation_mutex_ of its executor, whether it took the mutex before get_or_wait or,
\* for a stub, after.
CompilesAlone ==
    \A t, u \in Threads :
        th[t].pc = "compile" /\ th[u].pc = "compile" /\ ExecutorOf[t] = ExecutorOf[u] => t = u

\* CompilesAlone, for any number of threads and executors.
THEOREM OneCompilesPerExecutor == Spec => []CompilesAlone
<1>1. LruInv => CompilesAlone
  BY Zenon DEF LruInv, MutexesHeld, UnderMutex, CompilesAlone
<1> QED
  BY <1>1, LruAlways, PTL
=============================================================================

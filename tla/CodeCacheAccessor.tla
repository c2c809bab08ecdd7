-------------------------- MODULE CodeCacheAccessor -------------------------
(***************************************************************************)
(* The caches of generated code, shared by all executors, and how threads  *)
(* of several executors get, compile and put code: reductions through      *)
(* s_code_accessor, stubs of the reduction interpreter through             *)
(* s_stubs_accessor, both with get_or_wait and put, and queries through    *)
(* cpu_code_accessor with get_value and a put that may come second.        *)
(* Compiling is done under the compilation_mutex_ of the executor, which a *)
(* stub takes after get_or_wait and the others before.                     *)
(***************************************************************************)
EXTENDS Integers, Sequences, FiniteSets, Functions

CONSTANTS
    Threads,
    Executors,
    ExecutorOf,     \* thread -> the executor it works for
    Keys,
    NoKey, NoThread,
    MaxSize,        \* code_cache_size
    MaxCalls,       \* bound: requests for code
    MaxClears       \* bound: caches cleared

ASSUME CacheAssumption ==
    /\ ExecutorOf \in [Threads -> Executors]
    /\ NoKey \notin Keys /\ NoThread \notin Threads
    /\ MaxSize \in Nat \ {0}
    /\ {MaxCalls, MaxClears} \subseteq Nat

VARIABLES
    code_cache,     \* accessor -> the keys of its LruCache, the latest first
    compiling_key,  \* accessor -> the key being compiled, or NoKey
    mutex,          \* executor -> the thread that has its compilation_mutex_
    th,             \* thread -> its request
    calls, clears,
    failed          \* the check that ended the process, "no" while it runs

vars == <<code_cache, compiling_key, mutex, th, calls, clears, failed>>

Waiting == {"s_code", "s_stubs"}        \* used with get_or_wait
Accessors == Waiting \cup {"cpu_code"}

Idle == [pc |-> "idle", acc |-> "s_code", key |-> NoKey]

At(t, pc) == failed = "no" /\ th[t].pc = pc
Goto(t, pc) == th' = [th EXCEPT ![t].pc = pc]
-----------------------------------------------------------------------------
(* LruCache.                                                                 *)

Cached(acc, k) == k \in Range(code_cache[acc])

\* The list once splice moved the entry of k, which it has, to its front.
Spliced(s, k) ==
    LET at == CHOOSE i \in DOMAIN s : s[i] = k
    IN  [i \in 1..Len(s) |-> IF i = 1 THEN k ELSE IF i <= at THEN s[i - 1] ELSE s[i]]

\* LruCache::get of a key that is there, which becomes the latest.
Touch(acc, k) == code_cache' = [code_cache EXCEPT ![acc] = Spliced(@, k)]

\* (mutant of PutLatest) the size is compared before the new entry counts
PutLatestLate(acc, k) ==
    LET all == <<k>> \o code_cache[acc]
    IN  code_cache' = [code_cache EXCEPT ![acc] =
                          IF Len(@) > MaxSize THEN SubSeq(all, 1, Len(all) - 1) ELSE all]

\* LruCache::put of a new key: the oldest goes when there are too many.
PutLatest(acc, k) ==
    LET all == <<k>> \o code_cache[acc]
    IN  code_cache' = [code_cache EXCEPT ![acc] =
                          IF Len(all) > MaxSize THEN SubSeq(all, 1, Len(all) - 1) ELSE all]
-----------------------------------------------------------------------------
Init ==
    /\ code_cache = [a \in Accessors |-> <<>>]
    /\ compiling_key = [a \in Waiting |-> NoKey]
    /\ mutex = [e \in Executors |-> NoThread]
    /\ th = [t \in Threads |-> Idle]
    /\ calls = 0 /\ clears = 0
    /\ failed = "no"

\* A thread needs code.
Request(t, acc, k) ==
    /\ At(t, "idle")
    /\ calls < MaxCalls
    /\ calls' = calls + 1
    /\ th' = [th EXCEPT ![t] = [pc |-> IF acc = "s_stubs" THEN "get" ELSE "lock",
                                acc |-> acc, key |-> k]]
    /\ UNCHANGED <<code_cache, compiling_key, mutex, clears, failed>>

\* compilation_mutex_ is taken, before get_or_wait or get_value, or for a stub after.
Lock(t) ==
    /\ failed = "no"
    /\ th[t].pc \in {"lock", "lock_stub"}
    /\ mutex[ExecutorOf[t]] = NoThread
    /\ mutex' = [mutex EXCEPT ![ExecutorOf[t]] = t]
    /\ Goto(t, IF th[t].pc = "lock" THEN "get" ELSE "compile")
    /\ UNCHANGED <<code_cache, compiling_key, calls, clears, failed>>

\* The thread has its code, and releases the mutex of the executor if it has it.
Return(t) ==
    /\ th' = [th EXCEPT ![t] = Idle]
    /\ mutex' = [e \in Executors |-> IF mutex[e] = t THEN NoThread ELSE mutex[e]]

\* (mutant of Compiling) the addresses of the keys are compared, and not the keys
CompilingSame(acc, k) == FALSE

\* compiling(key)
Compiling(acc, k) == compiling_key[acc] = k

\* The key is not there and nobody compiles it: this thread will, but it ends the
\* process by CHECK(false) if some other key is being compiled.
Claim(t) ==
    LET acc == th[t].acc
    IN  /\ IF compiling_key[acc] # NoKey
           THEN failed' = "get_or_wait" /\ UNCHANGED <<compiling_key, th>>
           ELSE /\ compiling_key' = [compiling_key EXCEPT ![acc] = th[t].key]
                /\ Goto(t, IF acc = "s_stubs" THEN "lock_stub" ELSE "compile")
                /\ UNCHANGED failed
        /\ UNCHANGED <<code_cache, mutex>>

Hit(t) == Touch(th[t].acc, th[t].key) /\ Return(t) /\ UNCHANGED <<compiling_key, failed>>

\* get_or_wait up to its wait.
GetOrWait(t) ==
    LET acc == th[t].acc
        k == th[t].key
    IN  /\ At(t, "get")
        /\ acc \in Waiting
        /\ IF Cached(acc, k) THEN Hit(t)
           ELSE IF Compiling(acc, k)
           THEN Goto(t, "wait") /\ UNCHANGED <<code_cache, compiling_key, mutex, failed>>
           ELSE Claim(t)
        /\ UNCHANGED <<calls, clears>>

\* (mutant of Woken) the cache is not looked at again
WokenClaims(t) ==
    /\ At(t, "woken")
    /\ IF Compiling(th[t].acc, th[t].key)
       THEN Goto(t, "wait") /\ UNCHANGED <<code_cache, compiling_key, mutex, failed>>
       ELSE Claim(t)
    /\ UNCHANGED <<calls, clears>>

\* get_or_wait after a wake-up: it waits on if the key is being compiled again.
Woken(t) ==
    LET acc == th[t].acc
        k == th[t].key
    IN  /\ At(t, "woken")
        /\ IF Compiling(acc, k)
           THEN Goto(t, "wait") /\ UNCHANGED <<code_cache, compiling_key, mutex, failed>>
           ELSE IF Cached(acc, k) THEN Hit(t)
           ELSE Claim(t)
        /\ UNCHANGED <<calls, clears>>

\* (mutant of NotifyAll) notify_one
NotifyOne(t) ==
    LET asleep == {u \in Threads : th[u].pc = "wait" /\ th[u].acc = th[t].acc}
        one == IF asleep = {} THEN NoThread ELSE CHOOSE u \in asleep : TRUE
    IN  [u \in Threads |-> IF u = t THEN Idle
                           ELSE IF u = one THEN [th[u] EXCEPT !.pc = "woken"] ELSE th[u]]

\* The threads once those that wait at the accessor of t were woken, and t is done.
NotifyAll(t) ==
    [u \in Threads |->
        IF u = t THEN Idle
        ELSE IF th[u].pc = "wait" /\ th[u].acc = th[t].acc
        THEN [th[u] EXCEPT !.pc = "woken"] ELSE th[u]]

\* The code is compiled and put, the mutex of the executor released.
Put(t) ==
    LET acc == th[t].acc
        k == th[t].key
    IN  /\ At(t, "compile")
        /\ acc \in Waiting
        /\ IF Cached(acc, k)
           THEN failed' = "put" /\ UNCHANGED <<code_cache, compiling_key, mutex, th>>
           ELSE /\ PutLatest(acc, k)
                /\ compiling_key' = [compiling_key EXCEPT ![acc] = NoKey]
                /\ th' = NotifyAll(t)
                /\ mutex' = [mutex EXCEPT ![ExecutorOf[t]] = NoThread]
                /\ UNCHANGED failed
        /\ UNCHANGED <<calls, clears>>

\* get_value, which does not touch the entry.
GetValue(t) ==
    /\ At(t, "get")
    /\ th[t].acc = "cpu_code"
    /\ IF Cached("cpu_code", th[t].key) THEN Return(t) ELSE Goto(t, "compile") /\ UNCHANGED mutex
    /\ UNCHANGED <<code_cache, compiling_key, calls, clears, failed>>

\* The put for get_value: the code of another executor that was there first stays.
PutValue(t) ==
    /\ At(t, "compile")
    /\ th[t].acc = "cpu_code"
    /\ IF Cached("cpu_code", th[t].key) THEN UNCHANGED code_cache
       ELSE PutLatest("cpu_code", th[t].key)
    /\ Return(t)
    /\ UNCHANGED <<compiling_key, calls, clears, failed>>

\* Executor::reset clears the caches, one after the other.
Clear(acc) ==
    /\ failed = "no"
    /\ clears < MaxClears
    /\ clears' = clears + 1
    /\ code_cache' = [code_cache EXCEPT ![acc] = <<>>]
    /\ UNCHANGED <<compiling_key, mutex, th, calls, failed>>

Step(t) ==
    \/ Lock(t)
    \/ GetOrWait(t)
    \/ Woken(t)
    \/ Put(t)
    \/ GetValue(t)
    \/ PutValue(t)

Next ==
    \/ \E t \in Threads :
          \/ \E acc \in Accessors, k \in Keys : Request(t, acc, k)
          \/ Step(t)
    \/ \E acc \in Accessors : Clear(acc)

Spec == Init /\ [][Next]_vars

\* A thread that can go on does, and a compilation ends.
FairSpec == Spec /\ \A t \in Threads : WF_vars(Step(t))
-----------------------------------------------------------------------------
\* Keys and threads are of their sets, and a cache has each key once and never more
\* keys than it has room for.
TypeOK ==
    /\ \A a \in Accessors :
          /\ code_cache[a] \in Seq(Keys) /\ \A i, j \in DOMAIN code_cache[a] : code_cache[a][i] = code_cache[a][j] => i = j
          /\ Len(code_cache[a]) <= MaxSize
    /\ compiling_key \in [Waiting -> Keys \cup {NoKey}]
    /\ mutex \in [Executors -> Threads \cup {NoThread}]
    /\ \A t \in Threads :
          th[t].pc \in {"idle", "lock", "get", "wait", "woken", "lock_stub", "compile"}
    /\ failed \in {"no", "get_or_wait", "put"}

\* A thread between get_or_wait, which left the key to it, and put.
Compiles(t) == th[t].acc \in Waiting /\ th[t].pc \in {"lock_stub", "compile"}

\* While threads come, wait, are woken late and caches are cleared: a key is being
\* compiled exactly while one thread is on its way from get_or_wait to put with it,
\* and put never finds the key there, so that its check does not fail.
OneCompiler ==
    /\ \A t, u \in Threads :
          Compiles(t) /\ Compiles(u) /\ th[t].acc = th[u].acc => t = u
    /\ \A a \in Waiting, k \in Keys :
          compiling_key[a] = k <=> \E t \in Threads : Compiles(t) /\ th[t].acc = a /\ th[t].key = k
    /\ failed # "put"

\* get_or_wait fails its check for one cause only: another key is being compiled
\* through the same cache.  Requests for one key never fail each other.
FailsForCause ==
    [][failed' # failed =>
          \E t, u \in Threads :
              /\ th[t].pc \in {"get", "woken"} /\ Compiles(u)
              /\ th[u].acc = th[t].acc /\ th[u].key # th[t].key]_vars

\* Every thread gets its code, unless the process ended: no wake-up is lost, and the
\* waiting for keys and for the mutexes of executors never closes a circle, although
\* stubs and reductions take them in opposite orders.
RequestsEnd ==
    \A t \in Threads : th[t].pc # "idle" ~> th[t].pc = "idle" \/ failed # "no"
=============================================================================

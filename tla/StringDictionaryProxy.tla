------------------------ MODULE StringDictionaryProxy -----------------------
(***************************************************************************)
(* The StringDictionaryProxy objects of one query at a time, one for each  *)
(* dictionary, and the translation maps between them that its              *)
(* RowSetMemoryOwner keeps.                                                *)
(*                                                                         *)
(* A proxy shows its dictionary as it was when the query began (ids below  *)
(* generation_) and keeps the other strings the query meets as transients, *)
(* with ids -2, -3, ...  The dictionaries below are those of Dictionary:   *)
(* they grow while the query runs, because other threads load data.        *)
(*                                                                         *)
(* A translation holds str_dict_mutex_, the read lock of the source proxy  *)
(* and the write lock of the destination until its map is built, so at     *)
(* most one is in progress (job); it reads the dictionaries in steps of    *)
(* their own.                                                              *)
(***************************************************************************)
EXTENDS Integers, Sequences, FiniteSets

CONSTANTS
    Dicts,         \* dictionary ids
    Strings,
    Threads,       \* threads of the query's kernels
    Translations   \* the <<kind, source, dest>> that queries ask for

Kinds == {"intersection", "union", "append"}

ASSUME ProxyAssumption ==
    \A k \in Translations : k \in Kinds \X Dicts \X Dicts /\ k[2] # k[3]

VARIABLES
    strs,        \* dictionary -> its strings in the order of their ids
    generation,  \* proxy -> generation_
    transients,  \* proxy -> transient_string_vec_ (transient_str_to_int_ is its inverse)
    pending,     \* thread -> set of at most one <<proxy, string>> it is about to add
    job,         \* set of at most one translation in progress
    maps         \* <<kind, source, dest>> -> {} or {the map}

vars == <<strs, generation, transients, pending, job, maps>>

INVALID_STR_ID == -1

\* The translations of a query: transientUnion's map is used once and not kept.
MapKeys == {k \in Translations : k[1] # "append"}
-----------------------------------------------------------------------------
IsTransient(d, id) == id \in -1 - Len(transients[d]) .. -2
IsStored(d, id) == id \in 0 .. Len(strs[d]) - 1

\* The string that an id of the proxy names (getStringUnlocked).
Name(d, id) == IF id >= 0 THEN strs[d][id + 1] ELSE transients[d][-1 - id]

Knows(list, s) == \E i \in 1 .. Len(list) : list[i] = s
IndexIn(list, s) == CHOOSE i \in 1 .. Len(list) : list[i] = s

\* StringDictionary::getIdOfString
DictId(d, s) == IF Knows(strs[d], s) THEN IndexIn(strs[d], s) - 1 ELSE INVALID_STR_ID

truncate_to_generation(id, g) == IF id >= g THEN INVALID_STR_ID ELSE id

getIdOfStringFromClient(d, s) == truncate_to_generation(DictId(d, s), generation[d])

lookupTransientStringUnlocked(d, s) ==
    IF Knows(transients[d], s) THEN -1 - IndexIn(transients[d], s) ELSE INVALID_STR_ID

\* (mutant of getOrAddTransientUnlocked) the string is not looked for
addTransientUnlocked(d, s) == transients' = [transients EXCEPT ![d] = Append(@, s)]

\* emplace: a string that is there already stays as it is.
getOrAddTransientUnlocked(d, s) ==
    transients' = IF Knows(transients[d], s) THEN transients
                  ELSE [transients EXCEPT ![d] = Append(@, s)]

\* The id that getOrAddTransientUnlocked returns.
TransientId(d, s) ==
    IF Knows(transients[d], s) THEN lookupTransientStringUnlocked(d, s)
    ELSE -2 - Len(transients[d])

Locked(d) == \E j \in job : d \in {j.source, j.dest}
-----------------------------------------------------------------------------
(* Other threads load data: the dictionary gets a string.                   *)

Load(d, s) ==
    /\ ~Knows(strs[d], s)
    /\ strs' = [strs EXCEPT ![d] = Append(@, s)]
    /\ UNCHANGED <<generation, transients, pending, job, maps>>

(* A query begins: setupCaching makes a new RowSetMemoryOwner whose         *)
(* generations are the present sizes of the dictionaries.                   *)

NewQuery ==
    /\ job = {}
    /\ \A t \in Threads : pending[t] = {}
    /\ generation' = [d \in Dicts |-> Len(strs[d])]
    /\ transients' = [d \in Dicts |-> <<>>]
    /\ maps' = [k \in MapKeys |-> {}]
    /\ UNCHANGED <<strs, pending, job>>
-----------------------------------------------------------------------------
(* getOrAddTransient: the dictionary is asked without the proxy's lock.     *)

AskDictionary(t, d, s) ==
    /\ pending[t] = {}
    /\ getIdOfStringFromClient(d, s) = INVALID_STR_ID
    /\ pending' = [pending EXCEPT ![t] = {<<d, s>>}]
    /\ UNCHANGED <<strs, generation, transients, job, maps>>

\* Under the write lock.
AddTransient(t) ==
    \E p \in pending[t] :
        /\ ~Locked(p[1])
        /\ getOrAddTransientUnlocked(p[1], p[2])
        /\ pending' = [pending EXCEPT ![t] = {}]
        /\ UNCHANGED <<strs, generation, job, maps>>
-----------------------------------------------------------------------------
(* Translation maps.                                                        *)

initIdMap(d) ==
    [id \in -1 - Len(transients[d]) .. generation[d] - 1 |-> INVALID_STR_ID]

\* Without transients and stored strings there is nothing to translate.
IsEmptyMap(d) == Len(transients[d]) = 0 /\ generation[d] = 0

\* The entries that are not translated yet; entry -1 stands for no string.
Untranslated(map) == {id \in DOMAIN map : id # -1 /\ map[id] = INVALID_STR_ID}

\* The RowSetMemoryOwner looks for the map of its key before it builds one.
\* transientUnion appends the results of kernels that have ended.
StartTranslation(kind, s, d) ==
    /\ job = {}
    /\ IF kind = "append" THEN \A t \in Threads : pending[t] = {}
       ELSE maps[<<kind, s, d>>] = {}
    /\ job' = {[kind |-> kind, source |-> s, dest |-> d, map |-> initIdMap(s),
                missing |-> 0,
                pc |-> IF IsEmptyMap(s) THEN "return"
                       ELSE IF kind = "append" THEN "add" ELSE "transients"]}
    /\ UNCHANGED <<strs, generation, transients, pending, maps>>

\* (mutant of FindTransient) the results, in the order of the transients' indexes,
\* are written in the order of the map's entries
FindTransientMirrored(j, id) ==
    LET s == Name(j.source, -3 - Len(transients[j.source]) - id)
        stored == getIdOfStringFromClient(j.dest, s)
    IN  IF stored = INVALID_STR_ID THEN lookupTransientStringUnlocked(j.dest, s) ELSE stored

\* getBulk of the destination's dictionary, then its transients.
FindTransient(j, id) ==
    LET s == Name(j.source, id)
        stored == getIdOfStringFromClient(j.dest, s)
    IN  IF stored = INVALID_STR_ID THEN lookupTransientStringUnlocked(j.dest, s) ELSE stored

\* transientLookupBulk counts nothing when the destination has no transients.
MissingTransients(j, map) ==
    IF Len(transients[j.dest]) = 0 THEN 0
    ELSE Cardinality({id \in DOMAIN map : id < -1 /\ map[id] = INVALID_STR_ID})

TranslateTransients ==
    \E j \in job :
        LET map == [id \in DOMAIN j.map |->
                       IF id < -1 THEN FindTransient(j, id) ELSE j.map[id]]
        IN  /\ j.pc = "transients"
            /\ job' = {[j EXCEPT !.map = map, !.missing = MissingTransients(j, map),
                                 !.pc = "stored"]}
            /\ UNCHANGED <<strs, generation, transients, pending, maps>>

\* (mutant of FindStored) the transients are asked for every string
FindStoredLate(j, id) ==
    IF Len(transients[j.dest]) > 0
    THEN lookupTransientStringUnlocked(j.dest, Name(j.source, id))
    ELSE DictId(j.dest, Name(j.source, id))

\* buildDictionaryTranslationMap: what the destination has for a stored string.
\* An id from its generation on gives way to a transient, if it has transients.
FindStored(j, id) ==
    LET s == Name(j.source, id)
        found == DictId(j.dest, s)
    IN  IF generation[j.dest] = 0 THEN INVALID_STR_ID
        ELSE IF found # INVALID_STR_ID /\ found < generation[j.dest] THEN found
        ELSE IF Len(transients[j.dest]) > 0 THEN lookupTransientStringUnlocked(j.dest, s)
        ELSE found

\* (mutant of IsMissingStored) without transients nothing counts
IsMissingTransient(j, id) ==
    /\ Len(transients[j.dest]) > 0
    /\ FindStored(j, id) = INVALID_STR_ID \/ FindStored(j, id) >= generation[j.dest]

\* ... and whether it counts as not translated.
IsMissingStored(j, id) ==
    \/ FindStored(j, id) = INVALID_STR_ID
    \/ FindStored(j, id) >= generation[j.dest]

TranslateStored ==
    \E j \in job :
        LET map == [id \in DOMAIN j.map |-> IF id >= 0 THEN FindStored(j, id) ELSE j.map[id]]
            missing == j.missing + Cardinality({id \in DOMAIN map :
                                                   id >= 0 /\ IsMissingStored(j, id)})
        IN  /\ j.pc = "stored"
            /\ job' = {[j EXCEPT !.map = map, !.missing = missing,
                                 !.pc = IF j.kind = "union" /\ missing > 0 THEN "add"
                                        ELSE "return"]}
            /\ UNCHANGED <<strs, generation, transients, pending, maps>>

\* The loops of buildUnionTranslationMapToOtherProxy: one more string becomes a
\* transient of the destination.
AddUntranslated(id) ==
    \E j \in job :
        LET s == Name(j.source, id)
        IN  /\ j.pc = "add" /\ j.kind = "union"
            /\ id \in Untranslated(j.map)
            /\ \A other \in Untranslated(j.map) : id <= other
            /\ getOrAddTransientUnlocked(j.dest, s)
            /\ job' = {[j EXCEPT !.map[id] = TransientId(j.dest, s)]}
            /\ UNCHANGED <<strs, generation, pending, maps>>

\* transientUnion: one more string of the source, transients first, from -2 down.
\* The destination's dictionary is asked as it is now, whatever the generation.
AppendString(id) ==
    \E j \in job :
        LET s == Name(j.source, id)
            found == DictId(j.dest, s)
        IN  /\ j.pc = "add" /\ j.kind = "append"
            /\ id \in Untranslated(j.map)
            /\ \A other \in Untranslated(j.map) :
                  IF id < 0 THEN other >= 0 \/ other <= id ELSE id <= other
            /\ IF found # INVALID_STR_ID THEN UNCHANGED transients
               ELSE getOrAddTransientUnlocked(j.dest, s)
            /\ job' = {[j EXCEPT !.map[id] = IF found # INVALID_STR_ID THEN found
                                             ELSE TransientId(j.dest, s)]}
            /\ UNCHANGED <<strs, generation, pending, maps>>

\* The map is stored and the locks are released.
ReturnMap ==
    \E j \in job :
        /\ j.pc = "return" \/ (j.pc = "add" /\ Untranslated(j.map) = {})
        /\ job' = {}
        /\ maps' = IF j.kind = "append" THEN maps
                   ELSE [maps EXCEPT ![<<j.kind, j.source, j.dest>>] = {j.map}]
        /\ UNCHANGED <<strs, generation, transients, pending>>
-----------------------------------------------------------------------------
Init ==
    /\ strs = [d \in Dicts |-> <<>>]
    /\ generation = [d \in Dicts |-> 0]
    /\ transients = [d \in Dicts |-> <<>>]
    /\ pending = [t \in Threads |-> {}]
    /\ job = {}
    /\ maps = [k \in MapKeys |-> {}]

Next ==
    \/ \E d \in Dicts, s \in Strings : Load(d, s)
    \/ NewQuery
    \/ \E t \in Threads, d \in Dicts, s \in Strings : AskDictionary(t, d, s)
    \/ \E t \in Threads : AddTransient(t)
    \/ \E k \in Translations : StartTranslation(k[1], k[2], k[3])
    \/ TranslateTransients
    \/ TranslateStored
    \/ \E j \in job : \E id \in DOMAIN j.map : AddUntranslated(id) \/ AppendString(id)
    \/ ReturnMap

Spec == Init /\ [][Next]_vars
-----------------------------------------------------------------------------
\* The type invariant: a generation is a size the dictionary has had, and the map
\* in progress covers the ids its source has.
TypeOK ==
    /\ strs \in [Dicts -> Seq(Strings)]
    /\ generation \in [Dicts -> Nat]
    /\ \A d \in Dicts : generation[d] <= Len(strs[d])
    /\ transients \in [Dicts -> Seq(Strings)]
    /\ pending \in [Threads -> SUBSET (Dicts \X Strings)]
    /\ \A j \in job :
          /\ j \in [kind : Kinds, source : Dicts, dest : Dicts, map : {j.map},
                    missing : Nat, pc : {"transients", "stored", "add", "return"}]
          /\ j.source # j.dest
          /\ j.map \in [-1 - Len(transients[j.source]) .. generation[j.source] - 1 -> Int]
    /\ DOMAIN maps = MapKeys

\* Within a query a string has one id in a proxy: no string is a transient twice,
\* and none is a transient although the dictionary had it when the query began.
\* Two threads that add the same literal, and a translation, end up with one id.
OneIdPerString ==
    \A d \in Dicts : \A i \in 1 .. Len(transients[d]) :
        /\ \A k \in 1 .. Len(transients[d]) : transients[d][i] = transients[d][k] => i = k
        /\ \A k \in 1 .. generation[d] : strs[d][k] # transients[d][i]

NamesSame(s, id, d, to) ==
    \/ to = INVALID_STR_ID
    \/ (IsStored(d, to) \/ IsTransient(d, to)) /\ Name(d, to) = Name(s, id)

\* Whatever is loaded or added between its steps and afterwards, a translation map
\* takes an id to an id of the same string.
MapsSound ==
    \A key \in MapKeys : \A map \in maps[key] : \A id \in DOMAIN map \ {-1} :
        NamesSame(key[2], id, key[3], map[id])

\* A map is returned with an untranslated entry only for a string that the
\* destination does not have, neither below its generation nor as a transient;
\* but a destination whose dictionary was empty is not asked for its transients.
MissesOnlyUnknown ==
    [][\A j \in job : job' = {} /\ generation[j.dest] > 0 =>
          \A id \in Untranslated(j.map) :
              /\ getIdOfStringFromClient(j.dest, Name(j.source, id)) = INVALID_STR_ID
              /\ ~Knows(transients[j.dest], Name(j.source, id))]_vars

\* A union map has an id for every stored string of its source.
UnionKeepsStored ==
    \A key \in MapKeys : key[1] = "union" =>
        \A map \in maps[key] : \A id \in DOMAIN map : id >= 0 => map[id] # INVALID_STR_ID
=============================================================================

-------------------- MODULE StringDictionaryProxyProofs ---------------------
(***************************************************************************)
(* Proofs about StringDictionaryProxy, for any dictionaries, strings,      *)
(* threads and translations.                                               *)
(*                                                                         *)
(* A proxy may trust a lookup it made before it took its lock because the  *)
(* generation is fixed for the query and dictionaries only grow: a string  *)
(* that was not below the generation never will be.  The invariant carries *)
(* that fact through the two places where it is used later than it was     *)
(* found out: a thread about to add a transient, and the entries of a map  *)
(* in progress that are still untranslated.                                *)
(***************************************************************************)
EXTENDS StringDictionaryProxy, FiniteSetTheorems, TLAPS

Valid(d, id) == IsStored(d, id) \/ IsTransient(d, id)

\* s is not among the strings that the proxy of d takes from its dictionary.
IsNew(d, s) == \A k \in 1 .. generation[d] : strs[d][k] # s

StringsDiffer ==
    \A d \in Dicts : \A i, k \in 1 .. Len(strs[d]) : strs[d][i] = strs[d][k] => i = k

PendingAreNew == \A t \in Threads : \A p \in pending[t] : IsNew(p[1], p[2])

\* What the loops of a union map will add.  Transients are translated first.
UntranslatedAreNew ==
    \A j \in job : j.kind = "union" =>
        /\ j.pc = "stored" =>
              \A id \in Untranslated(j.map) : id < -1 => IsNew(j.dest, Name(j.source, id))
        /\ j.pc = "add" =>
              \A id \in Untranslated(j.map) : IsNew(j.dest, Name(j.source, id))

SoundMap(s, map, d) ==
    \A id \in DOMAIN map \ {-1} :
        id \in Int /\ Valid(s, id) /\ map[id] \in Int /\ NamesSame(s, id, d, map[id])

JobsSound == \A j \in job : SoundMap(j.source, j.map, j.dest)
KeptSound == \A key \in MapKeys : \A map \in maps[key] : SoundMap(key[2], map, key[3])

Inv ==
    /\ TypeOK
    /\ StringsDiffer
    /\ OneIdPerString
    /\ PendingAreNew
    /\ UntranslatedAreNew
    /\ JobsSound
    /\ KeptSound

\* Both lists of proxy d keep what they have.
KeepsNames(d) ==
    /\ Len(strs[d]) <= Len(strs[d]')
    /\ \A i \in 1 .. Len(strs[d]) : strs[d]'[i] = strs[d][i]
    /\ Len(transients[d]) <= Len(transients[d]')
    /\ \A i \in 1 .. Len(transients[d]) : transients[d]'[i] = transients[d][i]
-----------------------------------------------------------------------------
\* An id keeps naming its string while dictionaries and transients grow.
LEMMA ValidStays ==
    ASSUME TypeOK, TypeOK', NEW d \in Dicts, KeepsNames(d), NEW id \in Int, Valid(d, id)
    PROVE  Valid(d, id)' /\ Name(d, id)' = Name(d, id)
<1>1. /\ Len(strs[d]) \in Nat /\ Len(transients[d]) \in Nat
      /\ Len(strs'[d]) \in Nat /\ Len(transients'[d]) \in Nat
  BY DEF TypeOK
<1>2. CASE id >= 0
  BY <1>1, <1>2 DEF KeepsNames, Valid, IsStored, IsTransient, Name
<1>3. CASE id < 0
  <2>1. -1 - id \in 1 .. Len(transients[d])
    BY <1>1, <1>3 DEF Valid, IsStored, IsTransient
  <2> QED
    BY <1>1, <1>3, <2>1 DEF KeepsNames, Valid, IsStored, IsTransient, Name
<1> QED
  BY <1>2, <1>3

\* A sound map stays sound.
LEMMA SoundStays ==
    ASSUME TypeOK, TypeOK', NEW s \in Dicts, NEW d \in Dicts, NEW map,
           KeepsNames(s), KeepsNames(d), SoundMap(s, map, d)
    PROVE  SoundMap(s, map, d)'
<1> SUFFICES ASSUME NEW id \in DOMAIN map \ {-1}
             PROVE  (id \in Int /\ Valid(s, id) /\ map[id] \in Int
                        /\ NamesSame(s, id, d, map[id]))'
  BY Zenon DEF SoundMap
<1>1. id \in Int /\ Valid(s, id) /\ map[id] \in Int /\ NamesSame(s, id, d, map[id])
  BY Zenon DEF SoundMap
<1>2. Valid(s, id)' /\ Name(s, id)' = Name(s, id)
  BY Zenon, <1>1, ValidStays
<1>3. CASE map[id] = INVALID_STR_ID
  BY Zenon, <1>1, <1>2, <1>3 DEF NamesSame, INVALID_STR_ID
<1>4. CASE map[id] # INVALID_STR_ID
  <2>1. Valid(d, map[id]) /\ Name(d, map[id]) = Name(s, id)
    BY Zenon, <1>1, <1>4 DEF NamesSame, Valid
  <2>2. Valid(d, map[id])' /\ Name(d, map[id])' = Name(d, map[id])
    BY Zenon, <1>1, <2>1, ValidStays
  <2> QED
    BY Zenon, <1>1, <1>2, <2>1, <2>2 DEF NamesSame, Valid
<1> QED
  BY Zenon, <1>3, <1>4

\* A string that is new for a proxy stays new.
LEMMA NewStays ==
    ASSUME TypeOK, NEW d \in Dicts, NEW s, IsNew(d, s), KeepsNames(d),
           generation[d]' = generation[d]
    PROVE  IsNew(d, s)'
<1>1. generation[d] \in Nat /\ Len(strs[d]) \in Nat /\ generation[d] <= Len(strs[d])
  BY DEF TypeOK
<1> QED
  BY SMTT(30), <1>1 DEF KeepsNames, IsNew

\* The dictionary finds a string by an id that names it, if it has it.
LEMMA DictIdNames ==
    ASSUME TypeOK, NEW d \in Dicts, NEW s
    PROVE  LET id == DictId(d, s)
           IN  /\ id \in Int
               /\ id = INVALID_STR_ID => \A k \in 1 .. Len(strs[d]) : strs[d][k] # s
               /\ id # INVALID_STR_ID => IsStored(d, id) /\ Name(d, id) = s
<1>1. CASE Knows(strs[d], s)
  <2>1. IndexIn(strs[d], s) \in 1 .. Len(strs[d]) /\ strs[d][IndexIn(strs[d], s)] = s
    BY Zenon, <1>1 DEF Knows, IndexIn
  <2> QED
    BY <1>1, <2>1 DEF TypeOK, DictId, INVALID_STR_ID, IsStored, Name
<1>2. CASE ~Knows(strs[d], s)
  BY <1>2 DEF DictId, Knows, INVALID_STR_ID
<1> QED
  BY Zenon, <1>1, <1>2

\* So do the transients.
LEMMA TransientIdNames ==
    ASSUME TypeOK, NEW d \in Dicts, NEW s
    PROVE  LET id == lookupTransientStringUnlocked(d, s)
           IN  /\ id \in Int
               /\ id = INVALID_STR_ID <=> ~Knows(transients[d], s)
               /\ id # INVALID_STR_ID => IsTransient(d, id) /\ Name(d, id) = s
<1>1. CASE Knows(transients[d], s)
  <2>1. /\ IndexIn(transients[d], s) \in 1 .. Len(transients[d])
        /\ transients[d][IndexIn(transients[d], s)] = s
    BY Zenon, <1>1 DEF Knows, IndexIn
  <2>2. Len(transients[d]) \in Nat
    BY DEF TypeOK
  <2> QED
    BY <1>1, <2>1, <2>2 DEF lookupTransientStringUnlocked, INVALID_STR_ID, IsTransient, Name
<1>2. CASE ~Knows(transients[d], s)
  BY <1>2 DEF lookupTransientStringUnlocked, INVALID_STR_ID
<1> QED
  BY Zenon, <1>1, <1>2

\* Dictionaries have each string once, so one whose id is not below the generation
\* is new.
LEMMA CutIsNew ==
    ASSUME TypeOK, StringsDiffer, NEW d \in Dicts, NEW s,
           DictId(d, s) = INVALID_STR_ID \/ DictId(d, s) >= generation[d]
    PROVE  IsNew(d, s)
<1>1. CASE DictId(d, s) = INVALID_STR_ID
  BY SMTT(30), <1>1, DictIdNames DEF TypeOK, IsNew
<1>2. CASE DictId(d, s) # INVALID_STR_ID
  <2>1. IsStored(d, DictId(d, s)) /\ Name(d, DictId(d, s)) = s /\ DictId(d, s) \in Int
    BY Zenon, <1>2, DictIdNames
  <2>2. DictId(d, s) + 1 \in 1 .. Len(strs[d]) /\ strs[d][DictId(d, s) + 1] = s
    BY <2>1 DEF TypeOK, IsStored, Name
  <2>3. DictId(d, s) >= generation[d]
    BY Zenon, <1>2
  <2> QED
    BY <2>1, <2>2, <2>3 DEF TypeOK, StringsDiffer, IsNew
<1> QED
  BY Zenon, <1>1, <1>2
-----------------------------------------------------------------------------
\* A step that keeps the names of every proxy and does not touch the rest of an
\* item keeps what the invariant says of it.
LEMMA RestStays ==
    ASSUME Inv, TypeOK', \A d \in Dicts : KeepsNames(d), generation' = generation
    PROVE  /\ pending' = pending => PendingAreNew'
           /\ job' = job => UntranslatedAreNew' /\ JobsSound'
           /\ maps' = maps => KeptSound'
<1>1. ASSUME pending' = pending PROVE PendingAreNew'
  <2> SUFFICES ASSUME NEW t \in Threads, NEW p \in pending[t]
               PROVE  IsNew(p[1], p[2])'
    BY Zenon, <1>1 DEF PendingAreNew
  <2>1. p[1] \in Dicts /\ IsNew(p[1], p[2])
    BY DEF Inv, TypeOK, PendingAreNew
  <2> QED
    BY Zenon, <2>1, NewStays DEF Inv
<1>2. ASSUME job' = job PROVE UntranslatedAreNew'
  <2> SUFFICES ASSUME NEW j \in job, j.kind = "union",
                      NEW id \in Untranslated(j.map),
                      \/ j.pc = "stored" /\ id < -1
                      \/ j.pc = "add"
               PROVE  IsNew(j.dest, Name(j.source, id))'
    BY Zenon, <1>2 DEF UntranslatedAreNew
  <2>1. j.dest \in Dicts /\ j.source \in Dicts /\ id \in Int /\ Valid(j.source, id)
    BY Zenon DEF Inv, TypeOK, JobsSound, SoundMap, Untranslated
  <2>2. IsNew(j.dest, Name(j.source, id))
    BY Zenon DEF Inv, UntranslatedAreNew
  <2>3. Name(j.source, id)' = Name(j.source, id)
    BY Zenon, <2>1, ValidStays DEF Inv
  <2>4. IsNew(j.dest, Name(j.source, id)) => (\A s : s = Name(j.source, id) => IsNew(j.dest, s)')
    BY Zenon, <2>1, NewStays DEF Inv
  <2> QED
    BY Zenon, <2>2, <2>3, <2>4 DEF IsNew
<1>3. ASSUME job' = job PROVE JobsSound'
  <2> SUFFICES ASSUME NEW j \in job PROVE SoundMap(j.source, j.map, j.dest)'
    BY Zenon, <1>3 DEF JobsSound
  <2>1. j.dest \in Dicts /\ j.source \in Dicts /\ SoundMap(j.source, j.map, j.dest)
    BY Zenon DEF Inv, TypeOK, JobsSound
  <2> QED
    BY Zenon, <2>1, SoundStays DEF Inv
<1>4. ASSUME maps' = maps PROVE KeptSound'
  <2> SUFFICES ASSUME NEW key \in MapKeys, NEW map \in maps[key]
               PROVE  SoundMap(key[2], map, key[3])'
    BY Zenon, <1>4 DEF KeptSound
  <2>1. key[2] \in Dicts /\ key[3] \in Dicts /\ SoundMap(key[2], map, key[3])
    BY Zenon, ProxyAssumption DEF Inv, MapKeys, KeptSound
  <2> QED
    BY Zenon, <2>1, SoundStays DEF Inv
<1> QED
  BY Zenon, <1>1, <1>2, <1>3, <1>4
-----------------------------------------------------------------------------
\* What getOrAddTransientUnlocked does for a string that is new.
LEMMA AddedTransient ==
    ASSUME TypeOK, OneIdPerString, NEW d \in Dicts, NEW s \in Strings, IsNew(d, s),
           getOrAddTransientUnlocked(d, s), strs' = strs, generation' = generation
    PROVE  /\ transients' \in [Dicts -> Seq(Strings)]
           /\ OneIdPerString'
           /\ \A e \in Dicts : KeepsNames(e)
           /\ \A e \in Dicts \ {d} : transients'[e] = transients[e]
           /\ TransientId(d, s) \in Int
           /\ TransientId(d, s) # INVALID_STR_ID
           /\ TransientId(d, s) \in -1 - Len(transients'[d]) .. -2
           /\ transients'[d][-1 - TransientId(d, s)] = s
<1>1. CASE Knows(transients[d], s)
  <2>1. transients' = transients
    BY Zenon, <1>1 DEF getOrAddTransientUnlocked
  <2>2. LET id == lookupTransientStringUnlocked(d, s)
        IN  id \in Int /\ id # INVALID_STR_ID /\ IsTransient(d, id) /\ Name(d, id) = s
    BY Zenon, <1>1, TransientIdNames
  <2>3. TransientId(d, s) = lookupTransientStringUnlocked(d, s)
    BY Zenon, <1>1 DEF TransientId
  <2>4. \A e \in Dicts : KeepsNames(e)
    BY <2>1 DEF TypeOK, KeepsNames
  <2>5. OneIdPerString'
    BY Zenon, <2>1 DEF OneIdPerString
  <2>6. /\ TransientId(d, s) \in -1 - Len(transients'[d]) .. -2
        /\ transients'[d][-1 - TransientId(d, s)] = s
    BY <2>1, <2>2, <2>3 DEF TypeOK, IsTransient, Name, TransientId
  <2> QED
    BY Zenon, <2>1, <2>2, <2>3, <2>4, <2>5, <2>6 DEF TypeOK
<1>2. CASE ~Knows(transients[d], s)
  <2> DEFINE n == Len(transients[d])
  <2>1. transients' = [transients EXCEPT ![d] = Append(@, s)]
    BY Zenon, <1>2 DEF getOrAddTransientUnlocked
  <2>2. transients[d] \in Seq(Strings) /\ n \in Nat
    BY DEF TypeOK
  <2>3. transients' \in [Dicts -> Seq(Strings)]
    BY <2>1, <2>2 DEF TypeOK
  <2>4. /\ Len(transients'[d]) = n + 1 /\ transients'[d][n + 1] = s
        /\ \A i \in 1 .. n : transients'[d][i] = transients[d][i]
    BY <2>1, <2>2 DEF TypeOK
  <2>5. \A e \in Dicts \ {d} : transients'[e] = transients[e]
    BY Zenon, <2>1 DEF TypeOK
  <2>6. \A e \in Dicts : KeepsNames(e)
    <3> SUFFICES ASSUME NEW e \in Dicts PROVE KeepsNames(e)
      BY Zenon
    <3>1. Len(strs[e]) \in Nat /\ Len(transients[e]) \in Nat
      BY DEF TypeOK
    <3> QED
      BY <2>2, <2>4, <2>5, <3>1 DEF KeepsNames
  <2>7. OneIdPerString'
    <3> SUFFICES ASSUME NEW e \in Dicts, NEW i \in 1 .. Len(transients'[e])
                 PROVE  /\ \A k \in 1 .. Len(transients'[e]) :
                              transients'[e][i] = transients'[e][k] => i = k
                        /\ \A k \in 1 .. generation[e] : strs[e][k] # transients'[e][i]
      BY Zenon DEF OneIdPerString
    <3>1. CASE e # d
      BY <2>5, <3>1 DEF OneIdPerString
    <3>2. CASE e = d
      <4>1. \A k \in 1 .. n : transients[d][k] # s
        BY Zenon, <1>2 DEF Knows
      <4>2. \A k \in 1 .. generation[d] : strs[d][k] # s
        BY Zenon DEF IsNew
      <4>3. i \in 1 .. n \/ i = n + 1
        BY <2>2, <2>4, <3>2
      <4>4. \A k \in 1 .. Len(transients'[d]) : k \in 1 .. n \/ k = n + 1
        BY <2>2, <2>4
      <4>5. CASE i \in 1 .. n
        <5>1. /\ \A k \in 1 .. n : transients[d][i] = transients[d][k] => i = k
              /\ \A k \in 1 .. generation[d] : strs[d][k] # transients[d][i]
          BY Zenon, <4>5 DEF OneIdPerString
        <5> QED
          BY Zenon, <2>4, <3>2, <4>1, <4>4, <4>5, <5>1
      <4>6. CASE i = n + 1
        BY Zenon, <2>2, <2>4, <3>2, <4>1, <4>2, <4>4, <4>6
      <4> QED
        BY Zenon, <4>3, <4>5, <4>6
    <3> QED
      BY Zenon, <3>1, <3>2
  <2>8. TransientId(d, s) = -2 - n
    BY Zenon, <1>2 DEF TransientId
  <2>9. /\ TransientId(d, s) \in Int /\ TransientId(d, s) # INVALID_STR_ID
        /\ -1 - TransientId(d, s) = n + 1
        /\ TransientId(d, s) \in -1 - (n + 1) .. -2
    BY <2>2, <2>8 DEF INVALID_STR_ID
  <2> QED
    BY Zenon, <2>2, <2>3, <2>4, <2>5, <2>6, <2>7, <2>9
<1> QED
  BY Zenon, <1>1, <1>2
-----------------------------------------------------------------------------
\* Lists that do not change keep their names.
LEMMA SameNames ==
    ASSUME TypeOK, strs' = strs, transients' = transients
    PROVE  \A d \in Dicts : KeepsNames(d)
  BY DEF TypeOK, KeepsNames

\* What a lookup under the generation says.
LEMMA ClientIdNames ==
    ASSUME TypeOK, StringsDiffer, NEW d \in Dicts, NEW s
    PROVE  LET id == getIdOfStringFromClient(d, s)
           IN  /\ id \in Int
               /\ id = INVALID_STR_ID => IsNew(d, s)
               /\ id # INVALID_STR_ID => IsStored(d, id) /\ Name(d, id) = s
<1>1. generation[d] \in Nat /\ DictId(d, s) \in Int
  BY Zenon, DictIdNames DEF TypeOK
<1>2. getIdOfStringFromClient(d, s) =
         IF DictId(d, s) >= generation[d] THEN INVALID_STR_ID ELSE DictId(d, s)
  BY Zenon DEF getIdOfStringFromClient, truncate_to_generation
<1>3. CASE DictId(d, s) >= generation[d]
  BY <1>2, <1>3, CutIsNew DEF INVALID_STR_ID
<1>4. CASE ~(DictId(d, s) >= generation[d])
  BY Zenon, <1>1, <1>2, <1>4, CutIsNew, DictIdNames
<1> QED
  BY Zenon, <1>3, <1>4

\* Loading a string into a dictionary.
LEMMA LoadKeeps ==
    ASSUME Inv, NEW d \in Dicts, NEW s \in Strings, Load(d, s)
    PROVE  Inv'
<1> DEFINE n == Len(strs[d])
<1>1. /\ strs' = [strs EXCEPT ![d] = Append(@, s)]
      /\ generation' = generation /\ transients' = transients /\ pending' = pending
      /\ job' = job /\ maps' = maps
  BY Zenon DEF Load
<1>2. strs[d] \in Seq(Strings) /\ n \in Nat
  BY DEF Inv, TypeOK
<1>3. /\ Len(strs'[d]) = n + 1 /\ strs'[d][n + 1] = s
      /\ \A i \in 1 .. n : strs'[d][i] = strs[d][i]
  BY <1>1, <1>2 DEF Inv, TypeOK
<1>4. \A e \in Dicts \ {d} : strs'[e] = strs[e]
  BY Zenon, <1>1 DEF Inv, TypeOK
<1>5. \A e \in Dicts : KeepsNames(e)
  <2> SUFFICES ASSUME NEW e \in Dicts PROVE KeepsNames(e)
    BY Zenon
  <2>1. Len(strs[e]) \in Nat /\ Len(transients[e]) \in Nat
    BY DEF Inv, TypeOK
  <2> QED
    BY <1>1, <1>2, <1>3, <1>4, <2>1 DEF KeepsNames
<1>6. TypeOK'
  <2>1. strs' \in [Dicts -> Seq(Strings)]
    BY <1>1, <1>2 DEF Inv, TypeOK
  <2>2. \A e \in Dicts : generation'[e] <= Len(strs'[e])
    <3> SUFFICES ASSUME NEW e \in Dicts PROVE generation[e] <= Len(strs'[e])
      BY Zenon, <1>1
    <3>1. /\ Len(strs[e]) \in Nat /\ generation[e] \in Nat /\ Len(strs'[e]) \in Nat
          /\ generation[e] <= Len(strs[e]) /\ Len(strs[e]) <= Len(strs'[e])
      BY <1>5, <2>1 DEF Inv, TypeOK, KeepsNames
    <3> QED
      BY <3>1
  <2> QED
    BY Zenon, <1>1, <2>1, <2>2 DEF Inv, TypeOK
<1>7. StringsDiffer'
  <2> SUFFICES ASSUME NEW e \in Dicts, NEW i \in 1 .. Len(strs'[e]),
                      NEW k \in 1 .. Len(strs'[e]), strs'[e][i] = strs'[e][k]
               PROVE  i = k
    BY Zenon DEF StringsDiffer
  <2>1. CASE e # d
    BY Zenon, <1>4, <2>1 DEF Inv, StringsDiffer
  <2>2. CASE e = d
    <3>1. \A m \in 1 .. n : strs[d][m] # s
      BY Zenon DEF Load, Knows
    <3>2. (i \in 1 .. n \/ i = n + 1) /\ (k \in 1 .. n \/ k = n + 1)
      BY <1>2, <1>3, <2>2
    <3>3. i \in 1 .. n /\ k \in 1 .. n => i = k
      BY Zenon, <1>3, <2>2 DEF Inv, StringsDiffer
    <3> QED
      BY Zenon, <1>3, <2>2, <3>1, <3>2, <3>3
  <2> QED
    BY Zenon, <2>1, <2>2
<1>8. OneIdPerString'
  <2> SUFFICES ASSUME NEW e \in Dicts, NEW i \in 1 .. Len(transients'[e])
               PROVE  /\ \A k \in 1 .. Len(transients'[e]) :
                            transients'[e][i] = transients'[e][k] => i = k
                      /\ \A k \in 1 .. generation'[e] : strs'[e][k] # transients'[e][i]
    BY Zenon DEF OneIdPerString
  <2>1. /\ \A k \in 1 .. Len(transients[e]) : transients[e][i] = transients[e][k] => i = k
        /\ \A k \in 1 .. generation[e] : strs[e][k] # transients[e][i]
    BY Zenon, <1>1 DEF Inv, OneIdPerString
  <2>2. \A k \in 1 .. generation[e] : k \in 1 .. Len(strs[e])
    BY DEF Inv, TypeOK
  <2> QED
    BY Zenon, <1>1, <1>5, <2>1, <2>2 DEF KeepsNames
<1> QED
  BY Zenon, <1>1, <1>5, <1>6, <1>7, <1>8, RestStays DEF Inv

\* A new query.
LEMMA NewQueryKeeps ==
    ASSUME Inv, NewQuery
    PROVE  Inv'
<1>1. /\ strs' = strs /\ job' = {} /\ job = {} /\ pending' = pending
      /\ generation' = [d \in Dicts |-> Len(strs[d])]
      /\ transients' = [d \in Dicts |-> <<>>]
      /\ maps' = [k \in MapKeys |-> {}]
      /\ \A t \in Threads : pending'[t] = {}
  BY Zenon DEF NewQuery
<1>2. TypeOK'
  BY <1>1 DEF Inv, TypeOK
<1>3. StringsDiffer'
  BY Zenon, <1>1 DEF Inv, StringsDiffer
<1>4. OneIdPerString'
  BY <1>1 DEF OneIdPerString
<1>5. PendingAreNew' /\ UntranslatedAreNew' /\ JobsSound' /\ KeptSound'
  BY Zenon, <1>1 DEF PendingAreNew, UntranslatedAreNew, JobsSound, KeptSound
<1> QED
  BY Zenon, <1>2, <1>3, <1>4, <1>5 DEF Inv

\* The unlocked lookup of getOrAddTransient.
LEMMA AskDictionaryKeeps ==
    ASSUME Inv, NEW t \in Threads, NEW d \in Dicts, NEW s \in Strings,
           AskDictionary(t, d, s)
    PROVE  Inv'
<1>1. /\ strs' = strs /\ job' = job /\ generation' = generation
      /\ transients' = transients /\ maps' = maps
      /\ pending' = [pending EXCEPT ![t] = {<<d, s>>}]
      /\ getIdOfStringFromClient(d, s) = INVALID_STR_ID
  BY Zenon DEF AskDictionary
<1>2. \A e \in Dicts : KeepsNames(e)
  BY Zenon, <1>1, SameNames DEF Inv
<1>3. TypeOK'
  BY <1>1 DEF Inv, TypeOK
<1>4. StringsDiffer' /\ OneIdPerString'
  BY ZenonT(30), <1>1 DEF Inv, StringsDiffer, OneIdPerString
<1>5. IsNew(d, s)
  BY Zenon, <1>1, ClientIdNames DEF Inv
<1>6. PendingAreNew'
  <2> SUFFICES ASSUME NEW u \in Threads, NEW p \in pending'[u] PROVE IsNew(p[1], p[2])
    BY Zenon, <1>1 DEF PendingAreNew, IsNew
  <2> QED
    BY <1>1, <1>5 DEF Inv, TypeOK, PendingAreNew
<1> QED
  BY Zenon, <1>1, <1>2, <1>3, <1>4, <1>6, RestStays DEF Inv

\* The locked part of getOrAddTransient.
LEMMA AddTransientKeeps ==
    ASSUME Inv, NEW t \in Threads, AddTransient(t)
    PROVE  Inv'
<1> PICK p \in pending[t] :
        /\ ~Locked(p[1])
        /\ getOrAddTransientUnlocked(p[1], p[2])
        /\ pending' = [pending EXCEPT ![t] = {}]
        /\ UNCHANGED <<strs, generation, job, maps>>
  BY Zenon DEF AddTransient
<1>1. p[1] \in Dicts /\ p[2] \in Strings /\ IsNew(p[1], p[2])
  BY DEF Inv, TypeOK, PendingAreNew
<1>2. /\ transients' \in [Dicts -> Seq(Strings)]
      /\ OneIdPerString'
      /\ \A e \in Dicts : KeepsNames(e)
      /\ \A e \in Dicts \ {p[1]} : transients'[e] = transients[e]
  BY Zenon, <1>1, AddedTransient DEF Inv
<1>3. TypeOK'
  <2>1. \A j \in job : transients'[j.source] = transients[j.source]
    BY Zenon, <1>2 DEF Inv, TypeOK, Locked
  <2>2. pending' \in [Threads -> SUBSET (Dicts \X Strings)]
    BY Zenon DEF Inv, TypeOK
  <2> QED
    BY Zenon, <1>2, <2>1, <2>2 DEF Inv, TypeOK
<1>4. StringsDiffer'
  BY Zenon DEF Inv, StringsDiffer
<1>5. PendingAreNew'
  <2> SUFFICES ASSUME NEW u \in Threads, NEW q \in pending'[u] PROVE IsNew(q[1], q[2])'
    BY Zenon DEF PendingAreNew
  <2>1. q \in pending[u]
    BY Zenon DEF Inv, TypeOK
  <2>2. q[1] \in Dicts /\ IsNew(q[1], q[2])
    BY <2>1 DEF Inv, TypeOK, PendingAreNew
  <2> QED
    BY Zenon, <1>2, <2>2, NewStays DEF Inv
<1> QED
  BY Zenon, <1>2, <1>3, <1>4, <1>5, RestStays DEF Inv
-----------------------------------------------------------------------------
\* The parts of a job.
LEMMA JobType ==
    ASSUME TypeOK, NEW j \in job
    PROVE  /\ j \in [kind : Kinds, source : Dicts, dest : Dicts, map : {j.map},
                     missing : Nat, pc : {"transients", "stored", "add", "return"}]
           /\ j.source \in Dicts /\ j.dest \in Dicts /\ j.source # j.dest
           /\ j.missing \in Nat
           /\ DOMAIN j.map = -1 - Len(transients[j.source]) .. generation[j.source] - 1
           /\ j.map \in [DOMAIN j.map -> Int]
           /\ \A id \in DOMAIN j.map : id \in Int
           /\ IsFiniteSet(DOMAIN j.map)
           /\ \A id \in DOMAIN j.map \ {-1} : Valid(j.source, id) /\ Name(j.source, id) \in Strings
<1>1. /\ j \in [kind : Kinds, source : Dicts, dest : Dicts, map : {j.map},
                missing : Nat, pc : {"transients", "stored", "add", "return"}]
      /\ j.source # j.dest
      /\ j.map \in [-1 - Len(transients[j.source]) .. generation[j.source] - 1 -> Int]
  BY Zenon DEF TypeOK
<1>2. j.source \in Dicts /\ j.dest \in Dicts /\ j.missing \in Nat
  BY Zenon, <1>1
<1>3. /\ Len(transients[j.source]) \in Nat /\ generation[j.source] \in Nat
      /\ Len(strs[j.source]) \in Nat /\ generation[j.source] <= Len(strs[j.source])
      /\ strs[j.source] \in Seq(Strings) /\ transients[j.source] \in Seq(Strings)
  BY <1>2 DEF TypeOK
<1> DEFINE lo == -1 - Len(transients[j.source])
           hi == generation[j.source] - 1
<1>a. DOMAIN j.map = lo .. hi /\ j.map \in [DOMAIN j.map -> Int]
  BY <1>1, Zenon
<1>b. lo \in Int /\ hi \in Int
  BY <1>3
<1>4. IsFiniteSet(DOMAIN j.map)
  <2>1. IsFiniteSet(lo .. hi)
    BY Zenon, <1>b, FS_Interval
  <2> QED
    BY Zenon, <1>a, <2>1
<1>5. ASSUME NEW id \in DOMAIN j.map \ {-1}
      PROVE  Valid(j.source, id) /\ Name(j.source, id) \in Strings
  <2>1. CASE id >= 0
    <3>1. id \in 0 .. Len(strs[j.source]) - 1 /\ id + 1 \in 1 .. Len(strs[j.source])
      BY <1>a, <1>3, <2>1
    <3> QED
      BY <1>3, <2>1, <3>1 DEF Valid, IsStored, Name
  <2>2. CASE ~(id >= 0)
    <3>1. /\ id \in -1 - Len(transients[j.source]) .. -2
          /\ -1 - id \in 1 .. Len(transients[j.source])
      BY <1>a, <1>3, <2>2
    <3> QED
      BY <1>3, <2>2, <3>1 DEF Valid, IsTransient, Name
  <2> QED
    BY Zenon, <2>1, <2>2
<1>6. \A id \in DOMAIN j.map : id \in Int
  BY <1>a, <1>b
<1> QED
  BY Zenon, <1>1, <1>2, <1>a, <1>4, <1>5, <1>6

\* A step of a job that only changes the job itself.
LEMMA JobStep ==
    ASSUME Inv, NEW j \in job, NEW map \in [DOMAIN j.map -> Int], NEW missing \in Nat,
           NEW pc \in {"transients", "stored", "add", "return"},
           job' = {[j EXCEPT !.map = map, !.missing = missing, !.pc = pc]},
           UNCHANGED <<strs, generation, transients, pending, maps>>,
           \A id \in DOMAIN map \ {-1} : NamesSame(j.source, id, j.dest, map[id]),
           j.kind = "union" /\ pc = "stored" =>
               \A id \in Untranslated(map) : id < -1 => IsNew(j.dest, Name(j.source, id)),
           j.kind = "union" /\ pc = "add" =>
               \A id \in Untranslated(map) : IsNew(j.dest, Name(j.source, id))
    PROVE  Inv'
<1> DEFINE jj == [j EXCEPT !.map = map, !.missing = missing, !.pc = pc]
<1>1. /\ j \in [kind : Kinds, source : Dicts, dest : Dicts, map : {j.map},
                missing : Nat, pc : {"transients", "stored", "add", "return"}]
      /\ j.source # j.dest
      /\ DOMAIN j.map = -1 - Len(transients[j.source]) .. generation[j.source] - 1
      /\ \A id \in DOMAIN j.map : id \in Int
      /\ \A id \in DOMAIN j.map \ {-1} : Valid(j.source, id)
  BY Zenon, JobType DEF Inv
<1>2. /\ jj \in [kind : Kinds, source : Dicts, dest : Dicts, map : {map},
                 missing : Nat, pc : {"transients", "stored", "add", "return"}]
      /\ jj.kind = j.kind /\ jj.source = j.source /\ jj.dest = j.dest
      /\ jj.map = map /\ jj.pc = pc
  BY Zenon, <1>1
<1> HIDE DEF jj
<1>3. job' = {jj}
  BY Zenon DEF jj
<1>4. TypeOK'
  <2>1. /\ jj \in [kind : Kinds, source : Dicts, dest : Dicts, map : {jj.map},
                   missing : Nat, pc : {"transients", "stored", "add", "return"}]
        /\ jj.source # jj.dest
        /\ jj.map \in [-1 - Len(transients[jj.source]) .. generation[jj.source] - 1 -> Int]
    BY Zenon, <1>1, <1>2
  <2> QED
    BY Zenon, <1>3, <2>1 DEF Inv, TypeOK
<1>5. StringsDiffer' /\ OneIdPerString'
  BY ZenonT(30) DEF Inv, StringsDiffer, OneIdPerString
<1>6. PendingAreNew' /\ KeptSound'
  BY Zenon, <1>4, SameNames, RestStays DEF Inv
<1>7. SoundMap(jj.source, jj.map, jj.dest)
  BY Zenon, <1>1, <1>2 DEF SoundMap
<1>8. JobsSound'
  BY ZenonT(30), <1>3, <1>7 DEF JobsSound, SoundMap, Valid, NamesSame, IsStored, IsTransient, Name
<1>9. UntranslatedAreNew'
  <2> SUFFICES ASSUME j.kind = "union", NEW id \in Untranslated(map),
                      \/ pc = "stored" /\ id < -1
                      \/ pc = "add"
               PROVE  IsNew(j.dest, Name(j.source, id))'
    BY Zenon, <1>2, <1>3 DEF UntranslatedAreNew, Untranslated
  <2>1. IsNew(j.dest, Name(j.source, id))
    BY Zenon
  <2> QED
    BY Zenon, <2>1 DEF IsNew, Name
<1> QED
  BY Zenon, <1>4, <1>5, <1>6, <1>8, <1>9 DEF Inv
-----------------------------------------------------------------------------
\* A translation begins.
LEMMA StartTranslationKeeps ==
    ASSUME Inv, NEW k \in Translations, StartTranslation(k[1], k[2], k[3])
    PROVE  Inv'
<1> DEFINE pc == IF IsEmptyMap(k[2]) THEN "return"
                 ELSE IF k[1] = "append" THEN "add" ELSE "transients"
           map == initIdMap(k[2])
           jj == [kind |-> k[1], source |-> k[2], dest |-> k[3], map |-> map,
                  missing |-> 0, pc |-> pc]
<1>1. job' = {jj} /\ UNCHANGED <<strs, generation, transients, pending, maps>>
  BY Zenon DEF StartTranslation
<1>2. k[1] \in Kinds /\ k[2] \in Dicts /\ k[3] \in Dicts /\ k[2] # k[3]
  BY Zenon, ProxyAssumption
<1>3. map \in [-1 - Len(transients[k[2]]) .. generation[k[2]] - 1 -> Int]
  BY DEF initIdMap, INVALID_STR_ID
<1>4. /\ pc \in {"transients", "stored", "add", "return"}
      /\ pc # "stored" /\ (k[1] = "union" => pc # "add")
  BY Zenon
<1>5. \A id \in DOMAIN map : map[id] = INVALID_STR_ID
  BY Zenon DEF initIdMap
<1> HIDE DEF map, pc
<1>6. /\ jj \in [kind : Kinds, source : Dicts, dest : Dicts, map : {jj.map},
                 missing : Nat, pc : {"transients", "stored", "add", "return"}]
      /\ jj.kind = k[1] /\ jj.source = k[2] /\ jj.dest = k[3] /\ jj.map = map
      /\ jj.pc = pc
  BY Zenon, <1>2, <1>4
<1> HIDE DEF jj
<1>7. TypeOK'
  BY Zenon, <1>1, <1>2, <1>3, <1>6 DEF Inv, TypeOK
<1>8. StringsDiffer' /\ OneIdPerString'
  BY ZenonT(30), <1>1 DEF Inv, StringsDiffer, OneIdPerString
<1>9. PendingAreNew' /\ KeptSound'
  BY Zenon, <1>1, <1>7, SameNames, RestStays DEF Inv
<1>10. UntranslatedAreNew'
  BY Zenon, <1>1, <1>4, <1>6 DEF UntranslatedAreNew
<1>11. JobsSound'
  <2> SUFFICES ASSUME NEW j \in job', NEW id \in DOMAIN j.map \ {-1}
               PROVE  /\ id \in Int /\ Valid(j.source, id)' /\ j.map[id] \in Int
                      /\ NamesSame(j.source, id, j.dest, j.map[id])'
    BY Zenon DEF JobsSound, SoundMap
  <2>1. /\ j.source = k[2] /\ j.map[id] = INVALID_STR_ID
        /\ id \in -1 - Len(transients[k[2]]) .. generation[k[2]] - 1
    BY Zenon, <1>1, <1>3, <1>5, <1>6
  <2>2. /\ Len(transients[k[2]]) \in Nat /\ generation[k[2]] \in Nat
        /\ Len(strs[k[2]]) \in Nat /\ generation[k[2]] <= Len(strs[k[2]])
    BY <1>2 DEF Inv, TypeOK
  <2>3. id \in Int /\ Valid(k[2], id)
    BY <2>1, <2>2 DEF Valid, IsStored, IsTransient
  <2> QED
    BY <1>1, <2>1, <2>3 DEF Valid, IsStored, IsTransient, NamesSame, INVALID_STR_ID
<1> QED
  BY Zenon, <1>7, <1>8, <1>9, <1>10, <1>11 DEF Inv

\* The transients of the source are looked up.
LEMMA TranslateTransientsKeeps ==
    ASSUME Inv, TranslateTransients
    PROVE  Inv'
<1> PICK j \in job :
        LET map == [id \in DOMAIN j.map |->
                       IF id < -1 THEN FindTransient(j, id) ELSE j.map[id]]
        IN  /\ j.pc = "transients"
            /\ job' = {[j EXCEPT !.map = map, !.missing = MissingTransients(j, map),
                                 !.pc = "stored"]}
            /\ UNCHANGED <<strs, generation, transients, pending, maps>>
  BY Zenon DEF TranslateTransients
<1> DEFINE map == [id \in DOMAIN j.map |->
                       IF id < -1 THEN FindTransient(j, id) ELSE j.map[id]]
<1>1. /\ j.source \in Dicts /\ j.dest \in Dicts
      /\ j.map \in [DOMAIN j.map -> Int]
      /\ \A id \in DOMAIN j.map : id \in Int
      /\ IsFiniteSet(DOMAIN j.map)
  BY Zenon, JobType DEF Inv
<1>2. ASSUME NEW id \in DOMAIN j.map, id < -1
      PROVE  /\ FindTransient(j, id) \in Int
             /\ NamesSame(j.source, id, j.dest, FindTransient(j, id))
             /\ FindTransient(j, id) = INVALID_STR_ID =>
                   IsNew(j.dest, Name(j.source, id))
  <2> DEFINE s == Name(j.source, id)
             stored == getIdOfStringFromClient(j.dest, s)
             found == lookupTransientStringUnlocked(j.dest, s)
  <2>1. /\ stored \in Int
        /\ stored = INVALID_STR_ID => IsNew(j.dest, s)
        /\ stored # INVALID_STR_ID => IsStored(j.dest, stored) /\ Name(j.dest, stored) = s
    BY Zenon, <1>1, ClientIdNames DEF Inv
  <2>2. /\ found \in Int
        /\ found # INVALID_STR_ID => IsTransient(j.dest, found) /\ Name(j.dest, found) = s
    BY Zenon, <1>1, TransientIdNames DEF Inv
  <2>3. FindTransient(j, id) = IF stored = INVALID_STR_ID THEN found ELSE stored
    BY Zenon DEF FindTransient
  <2> HIDE DEF s, stored, found
  <2>4. CASE stored = INVALID_STR_ID
    BY Zenon, <2>1, <2>2, <2>3, <2>4 DEF NamesSame, s
  <2>5. CASE stored # INVALID_STR_ID
    BY Zenon, <2>1, <2>3, <2>5 DEF NamesSame, s
  <2> QED
    BY Zenon, <2>4, <2>5
<1>3. map \in [DOMAIN j.map -> Int] /\ DOMAIN map = DOMAIN j.map
  BY Zenon, <1>1, <1>2
<1>4. MissingTransients(j, map) \in Nat
  <2>1. IsFiniteSet({id \in DOMAIN map : id < -1 /\ map[id] = INVALID_STR_ID})
    BY Zenon, <1>1, <1>3, FS_Subset
  <2> QED
    BY Zenon, <2>1, FS_CardinalityType DEF MissingTransients
<1>5. \A id \in DOMAIN map \ {-1} : NamesSame(j.source, id, j.dest, map[id])
  <2> SUFFICES ASSUME NEW id \in DOMAIN map \ {-1}
               PROVE  NamesSame(j.source, id, j.dest, map[id])
    BY Zenon
  <2>1. CASE id < -1
    BY Zenon, <1>2, <2>1
  <2>2. CASE ~(id < -1)
    BY Zenon, <2>2 DEF Inv, JobsSound, SoundMap
  <2> QED
    BY Zenon, <2>1, <2>2
<1>6. \A id \in Untranslated(map) : id < -1 => IsNew(j.dest, Name(j.source, id))
  BY Zenon, <1>2 DEF Untranslated
<1> HIDE DEF map
<1>7. job' = {[j EXCEPT !.map = map, !.missing = MissingTransients(j, map), !.pc = "stored"]}
  BY Zenon DEF map
<1> QED
  BY Zenon, <1>3, <1>4, <1>5, <1>6, <1>7, JobStep

\* What the destination has for a string that the source has stored.
LEMMA FoundStored ==
    ASSUME TypeOK, StringsDiffer, NEW j, j.dest \in Dicts, NEW id
    PROVE  /\ FindStored(j, id) \in Int
           /\ NamesSame(j.source, id, j.dest, FindStored(j, id))
           /\ FindStored(j, id) = INVALID_STR_ID => IsNew(j.dest, Name(j.source, id))
<1> DEFINE s == Name(j.source, id)
           stored == DictId(j.dest, s)
           found == lookupTransientStringUnlocked(j.dest, s)
           g == generation[j.dest]
<1>1. /\ stored \in Int
      /\ stored # INVALID_STR_ID => IsStored(j.dest, stored) /\ Name(j.dest, stored) = s
      /\ stored = INVALID_STR_ID \/ stored >= g => IsNew(j.dest, s)
  BY Zenon, DictIdNames, CutIsNew
<1>2. /\ found \in Int
      /\ found # INVALID_STR_ID => IsTransient(j.dest, found) /\ Name(j.dest, found) = s
  BY Zenon, TransientIdNames
<1>3. FindStored(j, id) =
         IF g = 0 THEN INVALID_STR_ID
         ELSE IF stored # INVALID_STR_ID /\ stored < g THEN stored
         ELSE IF Len(transients[j.dest]) > 0 THEN found ELSE stored
  BY Zenon DEF FindStored
<1>4. g \in Nat
  BY Zenon DEF TypeOK
<1> HIDE DEF s, stored, found
<1>5. g = 0 => IsNew(j.dest, s)
  BY DEF IsNew
<1> HIDE DEF g
<1>6. /\ FindStored(j, id) \in {INVALID_STR_ID, stored, found}
      /\ FindStored(j, id) = INVALID_STR_ID => IsNew(j.dest, s)
  <2>1. CASE g = 0
    BY Zenon, <1>3, <1>5, <2>1
  <2>2. CASE g # 0 /\ stored # INVALID_STR_ID /\ stored < g
    BY Zenon, <1>3, <2>2
  <2>3. CASE g # 0 /\ ~(stored # INVALID_STR_ID /\ stored < g)
    <3>1. IsNew(j.dest, s)
      BY <1>1, <1>4, <2>3
    <3> QED
      BY Zenon, <1>3, <2>3, <3>1
  <2> QED
    BY Zenon, <2>1, <2>2, <2>3
<1>7. FindStored(j, id) \in Int
  BY SMTT(30), <1>1, <1>2, <1>6 DEF INVALID_STR_ID
<1> QED
  BY Zenon, <1>1, <1>2, <1>6, <1>7 DEF NamesSame, s

\* The stored strings of the source are looked up.
LEMMA TranslateStoredKeeps ==
    ASSUME Inv, TranslateStored
    PROVE  Inv'
<1>0. PICK j \in job :
        LET map == [id \in DOMAIN j.map |-> IF id >= 0 THEN FindStored(j, id) ELSE j.map[id]]
            missing == j.missing + Cardinality({id \in DOMAIN map :
                                                   id >= 0 /\ IsMissingStored(j, id)})
        IN  /\ j.pc = "stored"
            /\ job' = {[j EXCEPT !.map = map, !.missing = missing,
                                 !.pc = IF j.kind = "union" /\ missing > 0 THEN "add"
                                        ELSE "return"]}
            /\ UNCHANGED <<strs, generation, transients, pending, maps>>
  BY Zenon DEF TranslateStored
<1> DEFINE map == [id \in DOMAIN j.map |-> IF id >= 0 THEN FindStored(j, id) ELSE j.map[id]]
           missing == j.missing + Cardinality({id \in DOMAIN map :
                                                  id >= 0 /\ IsMissingStored(j, id)})
           pc == IF j.kind = "union" /\ missing > 0 THEN "add" ELSE "return"
<1>1. /\ j.source \in Dicts /\ j.dest \in Dicts /\ j.missing \in Nat
      /\ j.map \in [DOMAIN j.map -> Int]
      /\ \A id \in DOMAIN j.map : id \in Int
      /\ IsFiniteSet(DOMAIN j.map)
  BY Zenon, JobType DEF Inv
<1>2. ASSUME NEW id \in DOMAIN j.map, id >= 0
      PROVE  /\ FindStored(j, id) \in Int
             /\ NamesSame(j.source, id, j.dest, FindStored(j, id))
             /\ FindStored(j, id) = INVALID_STR_ID => IsNew(j.dest, Name(j.source, id))
  BY Zenon, <1>1, FoundStored DEF Inv
<1>3. map \in [DOMAIN j.map -> Int] /\ DOMAIN map = DOMAIN j.map
  BY Zenon, <1>1, <1>2
<1>4. missing \in Nat
  <2> DEFINE M == {id \in DOMAIN map : id >= 0 /\ IsMissingStored(j, id)}
  <2>1. missing = j.missing + Cardinality(M)
    BY Zenon
  <2> HIDE DEF missing
  <2>2. Cardinality(M) \in Nat
    <3>1. IsFiniteSet(M)
      BY Zenon, <1>1, <1>3, FS_Subset
    <3> HIDE DEF M
    <3> QED
      BY Zenon, <3>1, FS_CardinalityType
  <2> HIDE DEF M
  <2> QED
    BY <1>1, <2>1, <2>2
<1>5. \A id \in DOMAIN map \ {-1} : NamesSame(j.source, id, j.dest, map[id])
  <2> SUFFICES ASSUME NEW id \in DOMAIN map \ {-1}
               PROVE  NamesSame(j.source, id, j.dest, map[id])
    BY Zenon
  <2>1. CASE id >= 0
    BY Zenon, <1>2, <2>1
  <2>2. CASE ~(id >= 0)
    BY Zenon, <2>2 DEF Inv, JobsSound, SoundMap
  <2> QED
    BY Zenon, <2>1, <2>2
<1>6. ASSUME j.kind = "union", NEW id \in Untranslated(map)
      PROVE  IsNew(j.dest, Name(j.source, id))
  <2>1. id \in DOMAIN j.map /\ id \in Int /\ id # -1 /\ map[id] = INVALID_STR_ID
    BY Zenon, <1>1 DEF Untranslated
  <2>2. CASE id >= 0
    BY Zenon, <1>2, <2>1, <2>2
  <2>3. CASE id < -1
    <3>1. map[id] = j.map[id]
      BY <2>1, <2>3
    <3> HIDE DEF map
    <3>2. id \in Untranslated(j.map)
      BY Zenon, <2>1, <3>1 DEF Untranslated
    <3> QED
      BY Zenon, <1>0, <1>6, <2>3, <3>2 DEF Inv, UntranslatedAreNew
  <2> QED
    BY <2>1, <2>2, <2>3
<1> HIDE DEF map, missing
<1>7. pc \in {"transients", "stored", "add", "return"} /\ pc # "stored"
  BY Zenon
<1>8. job' = {[j EXCEPT !.map = map, !.missing = missing, !.pc = pc]}
  BY Zenon, <1>0 DEF map, missing
<1>9. UNCHANGED <<strs, generation, transients, pending, maps>>
  BY Zenon, <1>0
<1> HIDE DEF pc
<1> QED
  BY Zenon, <1>9, <1>3, <1>4, <1>5, <1>6, <1>7, <1>8, JobStep
-----------------------------------------------------------------------------
\* One entry of a map gets an id, with or without a new transient.
LEMMA JobAdds ==
    ASSUME Inv, NEW j \in job, NEW id \in Untranslated(j.map), NEW to \in Int,
           transients' \in [Dicts -> Seq(Strings)], OneIdPerString',
           \A e \in Dicts : KeepsNames(e),
           transients'[j.source] = transients[j.source],
           UNCHANGED <<strs, generation, pending, maps>>,
           job' = {[j EXCEPT !.map[id] = to]},
           Valid(j.dest, to)', Name(j.dest, to)' = Name(j.source, id)
    PROVE  Inv'
<1>0. PICK map, jj : map = [j.map EXCEPT ![id] = to] /\ jj = [j EXCEPT !.map[id] = to]
  BY Zenon
<1>1. /\ j \in [kind : Kinds, source : Dicts, dest : Dicts, map : {j.map},
                missing : Nat, pc : {"transients", "stored", "add", "return"}]
      /\ j.source \in Dicts /\ j.dest \in Dicts /\ j.source # j.dest
      /\ DOMAIN j.map = -1 - Len(transients[j.source]) .. generation[j.source] - 1
      /\ j.map \in [DOMAIN j.map -> Int]
      /\ \A x \in DOMAIN j.map : x \in Int
      /\ \A x \in DOMAIN j.map \ {-1} : Valid(j.source, x)
  BY Zenon, JobType DEF Inv
<1>2. id \in DOMAIN j.map \ {-1} /\ j.map[id] = INVALID_STR_ID
  BY Zenon DEF Untranslated
<1>3. /\ map \in [DOMAIN j.map -> Int] /\ map[id] = to
      /\ \A x \in DOMAIN j.map \ {id} : map[x] = j.map[x]
  BY Zenon, <1>0, <1>1, <1>2
<1>4. /\ jj \in [kind : Kinds, source : Dicts, dest : Dicts, map : {map},
                 missing : Nat, pc : {"transients", "stored", "add", "return"}]
      /\ jj.kind = j.kind /\ jj.source = j.source /\ jj.dest = j.dest
      /\ jj.map = map /\ jj.pc = j.pc
  BY Zenon, <1>0, <1>1
<1>5. job' = {jj}
  BY Zenon, <1>0
<1>6. TypeOK'
  <2>1. /\ jj \in [kind : Kinds, source : Dicts, dest : Dicts, map : {jj.map},
                   missing : Nat, pc : {"transients", "stored", "add", "return"}]
        /\ jj.source # jj.dest
        /\ jj.map \in [-1 - Len(transients'[jj.source]) .. generation[jj.source] - 1 -> Int]
    BY Zenon, <1>1, <1>3, <1>4
  <2> QED
    BY Zenon, <1>5, <2>1 DEF Inv, TypeOK
<1>7. StringsDiffer'
  BY Zenon DEF Inv, StringsDiffer
<1>8. PendingAreNew' /\ KeptSound'
  BY Zenon, <1>6, RestStays
<1>9. ASSUME NEW x \in DOMAIN j.map \ {-1}
      PROVE  Valid(j.source, x)' /\ Name(j.source, x)' = Name(j.source, x)
  BY Zenon, <1>1, <1>6, ValidStays DEF Inv
<1>10. JobsSound'
  <2> SUFFICES ASSUME NEW x \in DOMAIN j.map \ {-1}
               PROVE  /\ x \in Int /\ Valid(j.source, x)' /\ map[x] \in Int
                      /\ NamesSame(j.source, x, j.dest, map[x])'
    <3>1. \A k \in job' : k.source = j.source /\ k.dest = j.dest /\ k.map = map
      BY Zenon, <1>4, <1>5
    <3> QED
      BY ZenonT(30), <1>3, <3>1 DEF JobsSound, SoundMap, NamesSame, IsStored, IsTransient, Name
  <2>1. x \in Int /\ Valid(j.source, x)' /\ map[x] \in Int
    BY Zenon, <1>1, <1>3, <1>9
  <2>2. CASE x = id
    BY Zenon, <1>2, <1>3, <1>9, <2>1, <2>2 DEF NamesSame, Valid, IsStored, IsTransient, Name
  <2>3. CASE x # id
    <3>1. SoundMap(j.source, j.map, j.dest)'
      BY Zenon, <1>1, <1>6, SoundStays DEF Inv, JobsSound
    <3>2. NamesSame(j.source, x, j.dest, j.map[x])'
      BY Zenon, <3>1 DEF SoundMap
    <3> QED
      BY Zenon, <1>3, <2>1, <2>3, <3>2 DEF NamesSame, IsStored, IsTransient, Name
  <2> QED
    BY Zenon, <2>1, <2>2, <2>3
<1>11. UntranslatedAreNew'
  <2> SUFFICES ASSUME j.kind = "union", NEW x \in Untranslated(map),
                      \/ j.pc = "stored" /\ x < -1
                      \/ j.pc = "add"
               PROVE  IsNew(j.dest, Name(j.source, x))'
    <3>1. \A k \in job' : /\ k.source = j.source /\ k.dest = j.dest /\ k.map = map
                          /\ k.kind = j.kind /\ k.pc = j.pc
      BY Zenon, <1>4, <1>5
    <3> QED
      BY Zenon, <3>1 DEF UntranslatedAreNew, Untranslated
  <2>1. x \in Untranslated(j.map)
    BY Zenon, <1>2, <1>3 DEF Untranslated
  <2>2. IsNew(j.dest, Name(j.source, x))
    BY Zenon, <2>1 DEF Inv, UntranslatedAreNew
  <2>3. Name(j.source, x)' = Name(j.source, x)
    BY Zenon, <1>9, <2>1 DEF Untranslated
  <2> QED
    BY Zenon, <2>2, <2>3 DEF IsNew
<1> QED
  BY Zenon, <1>6, <1>7, <1>8, <1>10, <1>11 DEF Inv

\* The loops of a union map.
LEMMA AddUntranslatedKeeps ==
    ASSUME Inv, NEW id, AddUntranslated(id)
    PROVE  Inv'
<1>0. PICK j \in job :
        /\ j.pc = "add" /\ j.kind = "union"
        /\ id \in Untranslated(j.map)
        /\ getOrAddTransientUnlocked(j.dest, Name(j.source, id))
        /\ job' = {[j EXCEPT !.map[id] = TransientId(j.dest, Name(j.source, id))]}
        /\ UNCHANGED <<strs, generation, pending, maps>>
  BY Zenon DEF AddUntranslated
<1>1. PICK s, to : s = Name(j.source, id) /\ to = TransientId(j.dest, s)
  BY Zenon
<1>2. j.source \in Dicts /\ j.dest \in Dicts /\ j.source # j.dest /\ s \in Strings
  BY Zenon, <1>0, <1>1, JobType DEF Inv, Untranslated
<1>3. IsNew(j.dest, s)
  BY Zenon, <1>0, <1>1 DEF Inv, UntranslatedAreNew
<1>4. /\ transients' \in [Dicts -> Seq(Strings)] /\ OneIdPerString'
      /\ \A e \in Dicts : KeepsNames(e)
      /\ transients'[j.source] = transients[j.source]
      /\ to \in Int
      /\ to \in -1 - Len(transients'[j.dest]) .. -2
      /\ transients'[j.dest][-1 - to] = s
  BY Zenon, <1>0, <1>1, <1>2, <1>3, AddedTransient DEF Inv
<1>5. Valid(j.dest, to)' /\ Name(j.dest, to)' = s
  BY <1>2, <1>4 DEF Valid, IsTransient, Name
<1>6. job' = {[j EXCEPT !.map[id] = to]} /\ UNCHANGED <<strs, generation, pending, maps>>
  BY Zenon, <1>0, <1>1
<1> QED
  BY Zenon, <1>0, <1>1, <1>4, <1>5, <1>6, JobAdds

\* transientUnion.
LEMMA AppendStringKeeps ==
    ASSUME Inv, NEW id, AppendString(id)
    PROVE  Inv'
<1>0. PICK j \in job :
        LET s == Name(j.source, id)
            found == DictId(j.dest, s)
        IN  /\ id \in Untranslated(j.map)
            /\ IF found # INVALID_STR_ID THEN UNCHANGED transients
               ELSE getOrAddTransientUnlocked(j.dest, s)
            /\ job' = {[j EXCEPT !.map[id] = IF found # INVALID_STR_ID THEN found
                                             ELSE TransientId(j.dest, s)]}
            /\ UNCHANGED <<strs, generation, pending, maps>>
  BY Zenon DEF AppendString
<1>1. PICK s, found : s = Name(j.source, id) /\ found = DictId(j.dest, s)
  BY Zenon
<1>2. j.source \in Dicts /\ j.dest \in Dicts /\ j.source # j.dest /\ s \in Strings
  BY Zenon, <1>0, <1>1, JobType DEF Inv, Untranslated
<1>3. UNCHANGED <<strs, generation, pending, maps>> /\ id \in Untranslated(j.map)
  BY Zenon, <1>0
<1>4. CASE found # INVALID_STR_ID
  <2>1. transients' = transients /\ job' = {[j EXCEPT !.map[id] = found]}
    BY Zenon, <1>0, <1>1, <1>4
  <2>2. found \in Int /\ IsStored(j.dest, found) /\ Name(j.dest, found) = s
    BY Zenon, <1>1, <1>2, <1>4, DictIdNames DEF Inv
  <2>3. Valid(j.dest, found)' /\ Name(j.dest, found)' = s
    BY Zenon, <1>3, <2>1, <2>2 DEF Valid, IsStored, IsTransient, Name
  <2>4. /\ transients' \in [Dicts -> Seq(Strings)] /\ OneIdPerString'
        /\ \A e \in Dicts : KeepsNames(e)
    BY ZenonT(30), <1>3, <2>1, SameNames DEF Inv, TypeOK, OneIdPerString
  <2> QED
    BY Zenon, <1>1, <1>3, <2>1, <2>2, <2>3, <2>4, JobAdds
<1>5. CASE found = INVALID_STR_ID
  <2>1. PICK to : to = TransientId(j.dest, s)
    BY Zenon
  <2>2. getOrAddTransientUnlocked(j.dest, s) /\ job' = {[j EXCEPT !.map[id] = to]}
    BY Zenon, <1>0, <1>1, <1>5, <2>1
  <2>3. IsNew(j.dest, s)
    BY Zenon, <1>1, <1>2, <1>5, CutIsNew DEF Inv
  <2>4. /\ transients' \in [Dicts -> Seq(Strings)] /\ OneIdPerString'
        /\ \A e \in Dicts : KeepsNames(e)
        /\ transients'[j.source] = transients[j.source]
        /\ to \in Int
        /\ to \in -1 - Len(transients'[j.dest]) .. -2
        /\ transients'[j.dest][-1 - to] = s
    BY Zenon, <1>2, <1>3, <2>1, <2>2, <2>3, AddedTransient DEF Inv
  <2>5. Valid(j.dest, to)' /\ Name(j.dest, to)' = s
    BY <1>2, <2>4 DEF Valid, IsTransient, Name
  <2> QED
    BY Zenon, <1>1, <1>3, <2>2, <2>4, <2>5, JobAdds
<1> QED
  BY Zenon, <1>4, <1>5

\* A map is returned and kept.
LEMMA ReturnMapKeeps ==
    ASSUME Inv, ReturnMap
    PROVE  Inv'
<1>0. PICK j \in job :
        /\ job' = {}
        /\ maps' = IF j.kind = "append" THEN maps
                   ELSE [maps EXCEPT ![<<j.kind, j.source, j.dest>>] = {j.map}]
        /\ UNCHANGED <<strs, generation, transients, pending>>
  BY Zenon DEF ReturnMap
<1>1. TypeOK' /\ StringsDiffer' /\ OneIdPerString' /\ UntranslatedAreNew' /\ JobsSound'
  BY ZenonT(30), <1>0 DEF Inv, TypeOK, StringsDiffer, OneIdPerString, UntranslatedAreNew, JobsSound
<1>2. PendingAreNew'
  BY Zenon, <1>0, <1>1, SameNames, RestStays DEF Inv
<1>3. KeptSound'
  <2> SUFFICES ASSUME NEW key \in MapKeys, NEW map \in maps'[key]
               PROVE  SoundMap(key[2], map, key[3])'
    BY Zenon DEF KeptSound
  <2>1. SoundMap(key[2], map, key[3])
    <3>1. CASE map \in maps[key]
      BY Zenon, <3>1 DEF Inv, KeptSound
    <3>2. CASE map \notin maps[key]
      <4>1. key = <<j.kind, j.source, j.dest>> /\ map = j.map
        BY Zenon, <1>0, <3>2 DEF Inv, TypeOK
      <4> QED
        BY Zenon, <4>1 DEF Inv, JobsSound
    <3> QED
      BY Zenon, <3>1, <3>2
  <2> QED
    BY Zenon, <1>0, <2>1 DEF SoundMap, Valid, NamesSame, IsStored, IsTransient, Name
<1> QED
  BY Zenon, <1>1, <1>2, <1>3 DEF Inv
-----------------------------------------------------------------------------
\* The invariant holds of a new proxy.
LEMMA InitHolds == Init => Inv
<1> SUFFICES ASSUME Init PROVE Inv
  BY Zenon
<1>1. TypeOK
  BY DEF Init, TypeOK
<1>2. StringsDiffer /\ OneIdPerString /\ PendingAreNew
  BY DEF Init, StringsDiffer, OneIdPerString, PendingAreNew
<1>3. UntranslatedAreNew /\ JobsSound /\ KeptSound
  BY Zenon DEF Init, UntranslatedAreNew, JobsSound, KeptSound
<1> QED
  BY Zenon, <1>1, <1>2, <1>3 DEF Inv

\* Every step keeps the invariant.
LEMMA NextKeeps == Inv /\ [Next]_vars => Inv'
<1> SUFFICES ASSUME Inv, [Next]_vars PROVE Inv'
  BY Zenon
<1>1. ASSUME NEW d \in Dicts, NEW s \in Strings, Load(d, s) PROVE Inv'
  BY Zenon, <1>1, LoadKeeps
<1>2. CASE NewQuery
  BY Zenon, <1>2, NewQueryKeeps
<1>3. ASSUME NEW t \in Threads, NEW d \in Dicts, NEW s \in Strings, AskDictionary(t, d, s)
      PROVE  Inv'
  BY Zenon, <1>3, AskDictionaryKeeps
<1>4. ASSUME NEW t \in Threads, AddTransient(t) PROVE Inv'
  BY Zenon, <1>4, AddTransientKeeps
<1>5. ASSUME NEW k \in Translations, StartTranslation(k[1], k[2], k[3]) PROVE Inv'
  BY Zenon, <1>5, StartTranslationKeeps
<1>6. CASE TranslateTransients
  BY Zenon, <1>6, TranslateTransientsKeeps
<1>7. CASE TranslateStored
  BY Zenon, <1>7, TranslateStoredKeeps
<1>8. ASSUME NEW j \in job, NEW id \in DOMAIN j.map, AddUntranslated(id) \/ AppendString(id)
      PROVE  Inv'
  BY Zenon, <1>8, AddUntranslatedKeeps, AppendStringKeeps
<1>9. CASE ReturnMap
  BY Zenon, <1>9, ReturnMapKeeps
<1>10. CASE UNCHANGED vars
  <2>1. TypeOK' /\ StringsDiffer' /\ OneIdPerString'
    BY ZenonT(30), <1>10 DEF Inv, vars, TypeOK, StringsDiffer, OneIdPerString
  <2>2. PendingAreNew' /\ UntranslatedAreNew' /\ JobsSound' /\ KeptSound'
    BY Zenon, <1>10, <2>1, SameNames, RestStays DEF Inv, vars
  <2> QED
    BY Zenon, <2>1, <2>2 DEF Inv
<1> QED
  BY Zenon, <1>1, <1>2, <1>3, <1>4, <1>5, <1>6, <1>7, <1>8, <1>9, <1>10 DEF Next

\* The invariant of a proxy: what a lookup made before a lock said of a
\* string is still true when it is used (getOrAddTransient, the union maps).
THEOREM InvHolds == Spec => []Inv
  BY InitHolds, NextKeeps, PTL DEF Spec

\* Within a query no string has two ids in a proxy, however the threads of
\* getOrAddTransient, the translations and the loading of data interleave.
THEOREM StringsHaveOneId == Spec => []OneIdPerString
<1>1. Inv => OneIdPerString
  BY Zenon DEF Inv
<1> QED
  BY <1>1, InvHolds, PTL

\* The translation maps that a query keeps take ids to ids of the same string,
\* also after the dictionaries and the proxies have grown.
THEOREM MapsStaySound == Spec => []MapsSound
<1>1. Inv => MapsSound
  BY Zenon DEF Inv, KeptSound, SoundMap, MapsSound
<1> QED
  BY <1>1, InvHolds, PTL

-----------------------------------------------------------------------------
(* What the maps leave untranslated.                                        *)

OneJob == \A j, k \in job : j = k

\* The proxy of d has s neither below its generation nor as a transient.
Missed(d, s) == IsNew(d, s) /\ ~Knows(transients[d], s)

\* After each of the two bulk lookups the entries it left out are of strings that the
\* destination misses: its transients are locked, and what its dictionary gets
\* meanwhile is not below its generation.
LeftOutAreMissed ==
    \A j \in job : \A id \in Untranslated(j.map) :
        \/ j.pc = "stored" /\ id < -1
        \/ j.pc = "return" /\ generation[j.dest] > 0
        => Missed(j.dest, Name(j.source, id))

\* A union map that skips the loops has all stored strings.
SkippedIsFull ==
    \A j \in job : j.kind = "union" /\ j.pc = "return" =>
        \A id \in DOMAIN j.map : id >= 0 => j.map[id] # INVALID_STR_ID

MissInv == Inv /\ OneJob /\ LeftOutAreMissed /\ SkippedIsFull /\ UnionKeepsStored

\* A string that a proxy misses stays missed while the proxy is locked.
LEMMA MissedStays ==
    ASSUME TypeOK, NEW d \in Dicts, NEW s, Missed(d, s), KeepsNames(d),
           generation[d]' = generation[d], transients[d]' = transients[d]
    PROVE  Missed(d, s)'
<1>1. IsNew(d, s)'
  BY Zenon, NewStays DEF Missed
<1>2. ~Knows(transients[d]', s)
  BY Zenon DEF Missed
<1> QED
  BY Zenon, <1>1, <1>2 DEF Missed

\* A step that leaves the job, its destination's transients and the maps as they are.
LEMMA MissesStay ==
    ASSUME MissInv, Inv', \A d \in Dicts : KeepsNames(d), generation' = generation,
           job' = job, maps' = maps,
           \A j \in job : transients'[j.dest] = transients[j.dest]
    PROVE  MissInv'
<1>1. OneJob' /\ SkippedIsFull' /\ UnionKeepsStored'
  BY Zenon DEF MissInv, OneJob, SkippedIsFull, UnionKeepsStored
<1>2. LeftOutAreMissed'
  <2> SUFFICES ASSUME NEW j \in job, NEW id \in Untranslated(j.map),
                      \/ j.pc = "stored" /\ id < -1
                      \/ j.pc = "return" /\ generation[j.dest] > 0
               PROVE  Missed(j.dest, Name(j.source, id))'
    BY Zenon DEF LeftOutAreMissed
  <2>1. PICK s : s = Name(j.source, id)
    BY Zenon
  <2>2. j.source \in Dicts /\ j.dest \in Dicts
    BY Zenon, JobType DEF MissInv, Inv
  <2>3. Name(j.source, id)' = s
    <3>1. id \in Int /\ Valid(j.source, id)
      BY Zenon, JobType DEF MissInv, Inv, Untranslated
    <3> QED
      BY Zenon, <2>1, <2>2, <3>1, ValidStays DEF MissInv, Inv
  <2>4. Missed(j.dest, s)
    BY Zenon, <2>1 DEF MissInv, LeftOutAreMissed
  <2>5. Missed(j.dest, s)'
    BY Zenon, <2>2, <2>4, MissedStays DEF MissInv, Inv
  <2> QED
    BY Zenon, <2>3, <2>5 DEF Missed, IsNew
<1> QED
  BY Zenon, <1>1, <1>2 DEF MissInv

\* A translation begins, with every entry to be translated, unless there is none.
LEMMA StartTranslationMisses ==
    ASSUME MissInv, Inv', NEW k \in Translations, StartTranslation(k[1], k[2], k[3])
    PROVE  MissInv'
<1> DEFINE pc == IF IsEmptyMap(k[2]) THEN "return"
                 ELSE IF k[1] = "append" THEN "add" ELSE "transients"
           map == initIdMap(k[2])
           jj == [kind |-> k[1], source |-> k[2], dest |-> k[3], map |-> map,
                  missing |-> 0, pc |-> pc]
<1>1. job' = {jj} /\ UNCHANGED <<strs, generation, transients, pending, maps>>
  BY Zenon DEF StartTranslation
<1>2. pc # "stored" /\ (pc = "return" => IsEmptyMap(k[2]))
  BY Zenon
<1>3. IsEmptyMap(k[2]) => DOMAIN map = {-1}
  <2>1. DOMAIN map = -1 - Len(transients[k[2]]) .. generation[k[2]] - 1
    BY Zenon DEF initIdMap
  <2>2. -1 - 0 .. 0 - 1 = {-1}
    OBVIOUS
  <2> QED
    BY Zenon, <2>1, <2>2 DEF IsEmptyMap
<1> HIDE DEF map, pc
<1>4. jj.map = map /\ jj.pc = pc
  BY Zenon
<1> HIDE DEF jj
<1>5. OneJob' /\ UnionKeepsStored'
  BY Zenon, <1>1 DEF MissInv, OneJob, UnionKeepsStored
<1>6. LeftOutAreMissed'
  BY <1>1, <1>2, <1>3, <1>4 DEF LeftOutAreMissed, Untranslated
<1>7. SkippedIsFull'
  BY <1>1, <1>2, <1>3, <1>4 DEF SkippedIsFull
<1> QED
  BY Zenon, <1>5, <1>6, <1>7 DEF MissInv

\* A bulk lookup of the job's strings.
LEMMA LookupMisses ==
    ASSUME MissInv, Inv', NEW j \in job, NEW map, NEW missing,
           NEW pc \in {"stored", "add", "return"},
           job' = {[j EXCEPT !.map = map, !.missing = missing, !.pc = pc]},
           UNCHANGED <<strs, generation, transients, pending, maps>>,
           \A id \in Untranslated(map) :
               \/ pc = "stored" /\ id < -1
               \/ pc = "return" /\ generation[j.dest] > 0
               => Missed(j.dest, Name(j.source, id)),
           j.kind = "union" /\ pc = "return" =>
               \A id \in DOMAIN map : id >= 0 => map[id] # INVALID_STR_ID
    PROVE  MissInv'
<1>0. j \in [kind : Kinds, source : Dicts, dest : Dicts, map : {j.map}, missing : Nat,
             pc : {"transients", "stored", "add", "return"}]
  BY Zenon, JobType DEF MissInv, Inv
<1>1. PICK jj : jj = [j EXCEPT !.map = map, !.missing = missing, !.pc = pc]
  BY Zenon
<1>2. /\ jj.kind = j.kind /\ jj.source = j.source /\ jj.dest = j.dest
      /\ jj.map = map /\ jj.pc = pc
  BY Zenon, <1>0, <1>1
<1>3. job' = {jj}
  BY Zenon, <1>1
<1>4. OneJob' /\ UnionKeepsStored'
  BY Zenon, <1>3 DEF MissInv, OneJob, UnionKeepsStored
<1>5. LeftOutAreMissed'
  <2> SUFFICES ASSUME NEW id \in Untranslated(map),
                      \/ pc = "stored" /\ id < -1
                      \/ pc = "return" /\ generation[j.dest] > 0
               PROVE  Missed(j.dest, Name(j.source, id))'
    BY Zenon, <1>2, <1>3 DEF LeftOutAreMissed, Untranslated
  <2>1. Missed(j.dest, Name(j.source, id))
    BY Zenon
  <2> QED
    BY Zenon, <2>1 DEF Missed, IsNew, Name, Knows
<1>6. SkippedIsFull'
  BY Zenon, <1>2, <1>3 DEF SkippedIsFull
<1> QED
  BY Zenon, <1>4, <1>5, <1>6 DEF MissInv

\* A dictionary gets a string: every proxy keeps its names.
LEMMA LoadKeepsNames ==
    ASSUME TypeOK, NEW d \in Dicts, NEW s \in Strings, Load(d, s)
    PROVE  \A e \in Dicts : KeepsNames(e)
<1> SUFFICES ASSUME NEW e \in Dicts PROVE KeepsNames(e)
  BY Zenon
<1>1. strs' = [strs EXCEPT ![d] = Append(@, s)] /\ transients' = transients
  BY Zenon DEF Load
<1>2. strs \in [Dicts -> Seq(Strings)] /\ transients \in [Dicts -> Seq(Strings)]
  BY Zenon DEF TypeOK
<1>3. Len(strs[e]) \in Nat /\ Len(transients[e]) \in Nat
  BY <1>2
<1>4. /\ Len(strs'[e]) \in {Len(strs[e]), Len(strs[e]) + 1}
      /\ \A i \in 1 .. Len(strs[e]) : strs'[e][i] = strs[e][i]
  BY <1>1, <1>2
<1> QED
  BY <1>1, <1>3, <1>4 DEF KeepsNames

\* A transient is added to a proxy that no translation uses.
LEMMA AddTransientMisses ==
    ASSUME MissInv, Inv', NEW t \in Threads, AddTransient(t)
    PROVE  MissInv'
<1> PICK p \in pending[t] :
        /\ ~Locked(p[1])
        /\ getOrAddTransientUnlocked(p[1], p[2])
        /\ UNCHANGED <<strs, generation, job, maps>>
  BY Zenon DEF AddTransient
<1>1. p[1] \in Dicts /\ p[2] \in Strings /\ IsNew(p[1], p[2])
  BY DEF MissInv, Inv, TypeOK, PendingAreNew
<1>2. /\ \A e \in Dicts : KeepsNames(e)
      /\ \A e \in Dicts \ {p[1]} : transients'[e] = transients[e]
  BY Zenon, <1>1, AddedTransient DEF MissInv, Inv
<1>3. \A j \in job : transients'[j.dest] = transients[j.dest]
  BY Zenon, <1>2, JobType DEF MissInv, Inv, Locked
<1> QED
  BY Zenon, <1>2, <1>3, MissesStay

\* A new query has no translation and no maps.
LEMMA NewQueryMisses ==
    ASSUME MissInv, Inv', NewQuery
    PROVE  MissInv'
<1>1. job' = {} /\ maps' = [k \in MapKeys |-> {}]
  BY Zenon DEF NewQuery
<1> QED
  BY Zenon, <1>1 DEF MissInv, OneJob, LeftOutAreMissed, SkippedIsFull, UnionKeepsStored

\* What neither the dictionary nor the proxy has.
LEMMA NotFoundIsMissed ==
    ASSUME TypeOK, StringsDiffer, NEW j, j.dest \in Dicts, NEW id
    PROVE  /\ FindTransient(j, id) = INVALID_STR_ID => Missed(j.dest, Name(j.source, id))
           /\ FindStored(j, id) = INVALID_STR_ID /\ generation[j.dest] > 0 =>
                 Missed(j.dest, Name(j.source, id))
<1>1. PICK s, client, stored, found :
          /\ s = Name(j.source, id)
          /\ client = getIdOfStringFromClient(j.dest, s)
          /\ stored = DictId(j.dest, s)
          /\ found = lookupTransientStringUnlocked(j.dest, s)
  BY Zenon
<1>2. client = INVALID_STR_ID => IsNew(j.dest, s)
  BY Zenon, <1>1, ClientIdNames
<1>3. found = INVALID_STR_ID => ~Knows(transients[j.dest], s)
  BY Zenon, <1>1, TransientIdNames
<1>4. FindTransient(j, id) = INVALID_STR_ID => client = INVALID_STR_ID /\ found = INVALID_STR_ID
  BY Zenon, <1>1 DEF FindTransient
<1>5. ASSUME FindStored(j, id) = INVALID_STR_ID, generation[j.dest] > 0
      PROVE  Missed(j.dest, s)
  <2>1. IsNew(j.dest, s)
    BY Zenon, <1>1, <1>5, FoundStored
  <2>2. generation[j.dest] # 0
    BY <1>5 DEF TypeOK
  <2>3. Len(transients[j.dest]) > 0 => found = INVALID_STR_ID
    BY Zenon, <1>1, <1>5, <2>2 DEF FindStored
  <2>4. Len(transients[j.dest]) \in Nat
    BY DEF TypeOK
  <2>5. ~(Len(transients[j.dest]) > 0) => ~Knows(transients[j.dest], s)
    BY <2>4 DEF Knows
  <2> QED
    BY Zenon, <1>3, <2>1, <2>3, <2>5 DEF Missed
<1> QED
  BY Zenon, <1>1, <1>2, <1>3, <1>4, <1>5 DEF Missed

\* The transients of the source are looked up.
LEMMA TranslateTransientsMisses ==
    ASSUME MissInv, Inv', TranslateTransients
    PROVE  MissInv'
<1>0. PICK j \in job :
        LET map == [id \in DOMAIN j.map |->
                       IF id < -1 THEN FindTransient(j, id) ELSE j.map[id]]
        IN  /\ job' = {[j EXCEPT !.map = map, !.missing = MissingTransients(j, map),
                                 !.pc = "stored"]}
            /\ UNCHANGED <<strs, generation, transients, pending, maps>>
  BY Zenon DEF TranslateTransients
<1>1. PICK map, missing :
        /\ map = [id \in DOMAIN j.map |-> IF id < -1 THEN FindTransient(j, id) ELSE j.map[id]]
        /\ missing = MissingTransients(j, map)
  BY Zenon
<1>2. job' = {[j EXCEPT !.map = map, !.missing = missing, !.pc = "stored"]}
  BY Zenon, <1>0, <1>1
<1>3. UNCHANGED <<strs, generation, transients, pending, maps>>
  BY Zenon, <1>0
<1>4. \A id \in Untranslated(map) : id < -1 => Missed(j.dest, Name(j.source, id))
  <2> SUFFICES ASSUME NEW id \in Untranslated(map), id < -1
               PROVE  Missed(j.dest, Name(j.source, id))
    BY Zenon
  <2>1. FindTransient(j, id) = INVALID_STR_ID
    BY Zenon, <1>1 DEF Untranslated
  <2> QED
    BY Zenon, <2>1, JobType, NotFoundIsMissed DEF MissInv, Inv
<1> QED
  BY Zenon, <1>2, <1>3, <1>4, LookupMisses

\* The stored strings of the source are looked up.
LEMMA TranslateStoredMisses ==
    ASSUME MissInv, Inv', TranslateStored
    PROVE  MissInv'
<1>0. PICK j \in job :
        LET map == [id \in DOMAIN j.map |-> IF id >= 0 THEN FindStored(j, id) ELSE j.map[id]]
            missing == j.missing + Cardinality({id \in DOMAIN map :
                                                   id >= 0 /\ IsMissingStored(j, id)})
        IN  /\ j.pc = "stored"
            /\ job' = {[j EXCEPT !.map = map, !.missing = missing,
                                 !.pc = IF j.kind = "union" /\ missing > 0 THEN "add"
                                        ELSE "return"]}
            /\ UNCHANGED <<strs, generation, transients, pending, maps>>
  BY Zenon DEF TranslateStored
<1>1. PICK map, M, missing, pc :
        /\ map = [id \in DOMAIN j.map |-> IF id >= 0 THEN FindStored(j, id) ELSE j.map[id]]
        /\ M = {id \in DOMAIN map : id >= 0 /\ IsMissingStored(j, id)}
        /\ missing = j.missing + Cardinality(M)
        /\ pc = IF j.kind = "union" /\ missing > 0 THEN "add" ELSE "return"
  BY Zenon
<1>2. job' = {[j EXCEPT !.map = map, !.missing = missing, !.pc = pc]}
  BY Zenon, <1>0, <1>1
<1>3. UNCHANGED <<strs, generation, transients, pending, maps>> /\ j.pc = "stored"
  BY Zenon, <1>0
<1>4. /\ j.dest \in Dicts /\ j.missing \in Nat /\ IsFiniteSet(DOMAIN j.map)
      /\ \A id \in DOMAIN j.map : id \in Int
      /\ DOMAIN map = DOMAIN j.map
  BY Zenon, <1>1, JobType DEF MissInv, Inv
<1>5. \A id \in Untranslated(map) : generation[j.dest] > 0 => Missed(j.dest, Name(j.source, id))
  <2> SUFFICES ASSUME NEW id \in Untranslated(map), generation[j.dest] > 0
               PROVE  Missed(j.dest, Name(j.source, id))
    BY Zenon
  <2>1. id \in DOMAIN j.map /\ id \in Int /\ id # -1 /\ map[id] = INVALID_STR_ID
    BY Zenon, <1>4 DEF Untranslated
  <2>2. CASE id >= 0
    <3>1. FindStored(j, id) = INVALID_STR_ID
      BY Zenon, <1>1, <2>1, <2>2
    <3> QED
      BY Zenon, <1>4, <3>1, NotFoundIsMissed DEF MissInv, Inv
  <2>3. CASE id < -1
    <3>1. id \in Untranslated(j.map)
      BY <1>1, <2>1, <2>3 DEF Untranslated
    <3> QED
      BY Zenon, <1>3, <2>3, <3>1 DEF MissInv, LeftOutAreMissed
  <2> QED
    BY <2>1, <2>2, <2>3
<1>6. ASSUME j.kind = "union", pc = "return", NEW id \in DOMAIN map, id >= 0
      PROVE  map[id] # INVALID_STR_ID
  <2>1. IsFiniteSet(M) /\ Cardinality(M) \in Nat
    BY Zenon, <1>1, <1>4, FS_Subset, FS_CardinalityType
  <2>2. ~(missing > 0)
    BY Zenon, <1>1, <1>6
  <2>3. Cardinality(M) = 0
    BY <1>1, <1>4, <2>1, <2>2
  <2>4. M = {}
    BY Zenon, <2>1, <2>3, FS_EmptySet
  <2>5. FindStored(j, id) # INVALID_STR_ID
    BY Zenon, <1>1, <1>6, <2>4 DEF IsMissingStored
  <2> QED
    BY Zenon, <1>1, <1>4, <1>6, <2>5
<1>7. pc \in {"add", "return"}
  BY Zenon, <1>1
<1> QED
  BY Zenon, <1>2, <1>3, <1>5, <1>6, <1>7, LookupMisses

\* A string is added: the job stays in its loop.
LEMMA AddsMiss ==
    ASSUME MissInv, Inv', NEW id, AddUntranslated(id) \/ AppendString(id)
    PROVE  MissInv'
<1>0. PICK j \in job :
        j.pc = "add" /\ UNCHANGED maps /\ \E map : job' = {[j EXCEPT !.map = map]}
  <2>1. CASE AddUntranslated(id)
    BY Zenon, <2>1 DEF AddUntranslated
  <2>2. CASE AppendString(id)
    BY Zenon, <2>2 DEF AppendString
  <2> QED
    BY Zenon, <2>1, <2>2
<1>1. PICK map : j.pc = "add" /\ job' = {[j EXCEPT !.map = map]} /\ UNCHANGED maps
  BY Zenon, <1>0
<1>2. j \in [kind : Kinds, source : Dicts, dest : Dicts, map : {j.map}, missing : Nat,
             pc : {"transients", "stored", "add", "return"}]
  BY Zenon, JobType DEF MissInv, Inv
<1>3. PICK jj : jj = [j EXCEPT !.map = map]
  BY Zenon
<1>4. jj.pc = "add" /\ job' = {jj}
  BY Zenon, <1>1, <1>2, <1>3
<1>5. OneJob' /\ UnionKeepsStored'
  BY Zenon, <1>1, <1>4 DEF MissInv, OneJob, UnionKeepsStored
<1>6. LeftOutAreMissed' /\ SkippedIsFull'
  BY Zenon, <1>4 DEF LeftOutAreMissed, SkippedIsFull
<1> QED
  BY Zenon, <1>5, <1>6 DEF MissInv

\* A map is returned: a union map that skipped its loop has all stored strings, and
\* one that did not has left nothing out.
LEMMA ReturnMapMisses ==
    ASSUME MissInv, Inv', ReturnMap
    PROVE  MissInv'
<1>0. PICK j \in job :
        /\ j.pc = "return" \/ (j.pc = "add" /\ Untranslated(j.map) = {})
        /\ job' = {}
        /\ maps' = IF j.kind = "append" THEN maps
                   ELSE [maps EXCEPT ![<<j.kind, j.source, j.dest>>] = {j.map}]
  BY Zenon DEF ReturnMap
<1>1. OneJob' /\ LeftOutAreMissed' /\ SkippedIsFull'
  BY Zenon, <1>0 DEF OneJob, LeftOutAreMissed, SkippedIsFull
<1>2. j.kind = "union" => \A id \in DOMAIN j.map : id >= 0 => j.map[id] # INVALID_STR_ID
  <2>1. CASE j.pc = "return"
    BY Zenon, <2>1 DEF MissInv, SkippedIsFull
  <2>2. CASE Untranslated(j.map) = {}
    <3>1. \A id \in DOMAIN j.map : id >= 0 => id # -1
      BY JobType DEF MissInv, Inv
    <3> QED
      BY Zenon, <2>2, <3>1 DEF Untranslated
  <2> QED
    BY Zenon, <1>0, <2>1, <2>2
<1>3. UnionKeepsStored'
  <2> SUFFICES ASSUME NEW key \in MapKeys, key[1] = "union", NEW map \in maps'[key],
                      NEW id \in DOMAIN map, id >= 0
               PROVE  map[id] # INVALID_STR_ID
    BY Zenon DEF UnionKeepsStored
  <2>1. CASE map \in maps[key]
    BY Zenon, <2>1 DEF MissInv, UnionKeepsStored
  <2>2. CASE map \notin maps[key]
    <3>1. key = <<j.kind, j.source, j.dest>> /\ map = j.map
      BY Zenon, <1>0, <2>2 DEF MissInv, Inv, TypeOK
    <3> QED
      BY Zenon, <1>2, <3>1
  <2> QED
    BY Zenon, <2>1, <2>2
<1> QED
  BY Zenon, <1>1, <1>3 DEF MissInv

\* Every step keeps it.
LEMMA MissNext == MissInv /\ [Next]_vars => MissInv'
<1> SUFFICES ASSUME MissInv, [Next]_vars PROVE MissInv'
  BY Zenon
<1>0. Inv' /\ TypeOK
  BY Zenon, NextKeeps DEF MissInv, Inv
<1>1. ASSUME NEW d \in Dicts, NEW s \in Strings, Load(d, s) PROVE MissInv'
  <2>1. UNCHANGED <<generation, transients, job, maps>>
    BY Zenon, <1>1 DEF Load
  <2> QED
    BY Zenon, <1>0, <1>1, <2>1, LoadKeepsNames, MissesStay
<1>2. CASE NewQuery
  BY Zenon, <1>0, <1>2, NewQueryMisses
<1>3. ASSUME NEW t \in Threads, NEW d \in Dicts, NEW s \in Strings, AskDictionary(t, d, s)
      PROVE  MissInv'
  <2>1. UNCHANGED <<strs, generation, transients, job, maps>>
    BY Zenon, <1>3 DEF AskDictionary
  <2> QED
    BY Zenon, <1>0, <2>1, SameNames, MissesStay
<1>4. ASSUME NEW t \in Threads, AddTransient(t) PROVE MissInv'
  BY Zenon, <1>0, <1>4, AddTransientMisses
<1>5. ASSUME NEW k \in Translations, StartTranslation(k[1], k[2], k[3]) PROVE MissInv'
  BY Zenon, <1>0, <1>5, StartTranslationMisses
<1>6. CASE TranslateTransients
  BY Zenon, <1>0, <1>6, TranslateTransientsMisses
<1>7. CASE TranslateStored
  BY Zenon, <1>0, <1>7, TranslateStoredMisses
<1>8. ASSUME NEW j \in job, NEW id \in DOMAIN j.map, AddUntranslated(id) \/ AppendString(id)
      PROVE  MissInv'
  BY Zenon, <1>0, <1>8, AddsMiss
<1>9. CASE ReturnMap
  BY Zenon, <1>0, <1>9, ReturnMapMisses
<1>10. CASE UNCHANGED vars
  <2>1. UNCHANGED <<strs, generation, transients, job, maps>>
    BY Zenon, <1>10 DEF vars
  <2> QED
    BY Zenon, <1>0, <2>1, SameNames, MissesStay
<1> QED
  BY Zenon, <1>1, <1>2, <1>3, <1>4, <1>5, <1>6, <1>7, <1>8, <1>9, <1>10 DEF Next

\* What the lookups have left out is missed, in every behaviour.
LEMMA MissInvHolds == Spec => []MissInv
<1>1. Init => MissInv
  <2>1. Init => Inv
    BY Zenon, InitHolds
  <2>2. Init => OneJob /\ LeftOutAreMissed /\ SkippedIsFull /\ UnionKeepsStored
    BY Zenon DEF Init, OneJob, LeftOutAreMissed, SkippedIsFull, UnionKeepsStored
  <2> QED
    BY Zenon, <2>1, <2>2 DEF MissInv
<1> QED
  BY <1>1, MissNext, PTL DEF Spec

\* A string that is not below the generation is not found there.
LEMMA NewIsNotFound ==
    ASSUME TypeOK, NEW d \in Dicts, NEW s, IsNew(d, s)
    PROVE  getIdOfStringFromClient(d, s) = INVALID_STR_ID
<1>1. PICK i : i = DictId(d, s)
  BY Zenon
<1>2. /\ i \in Int
      /\ i # INVALID_STR_ID => i \in 0 .. Len(strs[d]) - 1 /\ strs[d][i + 1] = s
  BY <1>1, DictIdNames DEF IsStored, Name
<1>3. generation[d] \in Nat
  BY Zenon DEF TypeOK
<1>4. i # INVALID_STR_ID => i >= generation[d]
  <2> SUFFICES ASSUME i # INVALID_STR_ID, i < generation[d] PROVE FALSE
    BY <1>2, <1>3
  <2>1. i + 1 \in 1 .. generation[d] /\ strs[d][i + 1] = s
    BY <1>2, <1>3
  <2> QED
    BY Zenon, <2>1 DEF IsNew
<1> QED
  BY Zenon, <1>1, <1>4 DEF getIdOfStringFromClient, truncate_to_generation

\* A union map that the query keeps has an id for every stored string of its source:
\* buildUnionTranslationMapToOtherProxy skips the loops that add transients only when
\* the bulk lookup has found them all.
THEOREM UnionsKeepStored == Spec => []UnionKeepsStored
<1>1. MissInv => UnionKeepsStored
  BY Zenon DEF MissInv
<1> QED
  BY <1>1, MissInvHolds, PTL

\* A translation returns without an id only for strings that the destination does not
\* have at that moment, neither below its generation nor as a transient, although the
\* bulk lookups were made before and data has been loaded since.
THEOREM MapsMissOnlyUnknown == Spec => MissesOnlyUnknown
<1> DEFINE A == \A j \in job : job' = {} /\ generation[j.dest] > 0 =>
                    \A id \in Untranslated(j.map) :
                        /\ getIdOfStringFromClient(j.dest, Name(j.source, id)) = INVALID_STR_ID
                        /\ ~Knows(transients[j.dest], Name(j.source, id))
<1>1. MissInv /\ [Next]_vars => [A]_vars
  <2> SUFFICES ASSUME MissInv, Next, NEW j \in job, job' = {}, generation[j.dest] > 0,
                      NEW id \in Untranslated(j.map)
               PROVE  /\ getIdOfStringFromClient(j.dest, Name(j.source, id)) = INVALID_STR_ID
                      /\ ~Knows(transients[j.dest], Name(j.source, id))
    BY Zenon
  <2>1. ReturnMap
    <3>1. job # {}
      BY Zenon
    <3> QED
      BY Zenon, <3>1 DEF Next, Load, NewQuery, AskDictionary, AddTransient, StartTranslation,
                  TranslateTransients, TranslateStored, AddUntranslated, AppendString
  <2>2. j.pc = "return"
    BY Zenon, <2>1 DEF ReturnMap, MissInv, OneJob
  <2>3. Missed(j.dest, Name(j.source, id))
    BY Zenon, <2>2 DEF MissInv, LeftOutAreMissed
  <2>4. j.dest \in Dicts /\ TypeOK
    BY Zenon, JobType DEF MissInv, Inv
  <2> QED
    BY Zenon, <2>3, <2>4, NewIsNotFound DEF Missed
<1>2. MissInv /\ [Next]_vars => [\A j \in job : job' = {} /\ generation[j.dest] > 0 =>
                    \A id \in Untranslated(j.map) :
                        /\ getIdOfStringFromClient(j.dest, Name(j.source, id)) = INVALID_STR_ID
                        /\ ~Knows(transients[j.dest], Name(j.source, id))]_vars
  BY Zenon, <1>1
<1> QED
  BY <1>2, MissInvHolds, PTL DEF Spec, MissesOnlyUnknown
=============================================================================

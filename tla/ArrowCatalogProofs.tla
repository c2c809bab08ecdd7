------------------------- MODULE ArrowCatalogProofs -------------------------
(***************************************************************************)
(* TypeOK, TablesNamed and DictsMatchColumns of ArrowCatalog, for any      *)
(* threads, names, lists of columns and number of dictionaries.            *)
(*                                                                         *)
(* TablesNamed is not inductive: that a drop removes the name of its table *)
(* and no other needs that the table is still there when all locks are     *)
(* held, and that no createTable is between schema and data then.  Both    *)
(* hold because the calls keep data_mutex_ or the mutex of their table     *)
(* (Locked) and the mutexes exclude each other (Excluded).                 *)
(***************************************************************************)
EXTENDS ArrowCatalog, WellFoundedInduction, TLAPS

-----------------------------------------------------------------------------
(* What createTable makes of a list of columns.                              *)

ColumnArgs == [array : BOOLEAN, share : Int]
ColumnInfos == [array : BOOLEAN, dict : Int]
SharedDicts == UNION {[D -> Int] : D \in SUBSET Int}

Accs == [thrown : BOOLEAN, cols : Seq(ColumnInfos), new : SUBSET Int, next : Int,
         shares : SharedDicts]

\* The columns so far: the new dictionaries are the numbers given out by this call,
\* each in a column, and a column of strings has an old or a new one.
Sound(acc) ==
    /\ acc \in Accs
    /\ acc.next \in next_dict_id..MaxDictId + 1
    /\ acc.new = next_dict_id..acc.next - 1
    /\ acc.thrown => acc.next > MaxDictId
    /\ \A s \in DOMAIN acc.shares : s # Plain /\ acc.shares[s] \in acc.new
    /\ \A c \in Range(acc.cols) : ~c.array /\ c.dict # Plain => c.dict \in dicts \cup acc.new
    /\ \A d \in acc.new : \E c \in Range(acc.cols) : c.dict = d

\* checkNewTableParams of one column
ColumnOk(col) == col \in ColumnArgs /\ (col.share > 0 /\ ~col.array => col.share \in dicts)

\* Nonempty sets of numbers have a least one.
LEMMA LeastNat ==
    ASSUME NEW T, T \subseteq Nat, T # {}
    PROVE  \E x \in T : \A y \in T : x <= y
<1> DEFINE R == OpToRel(<, Nat)
<1>1. IsWellFoundedOn(R, Nat)
      BY NatLessThanWellFounded, Zenon
<1>2. \A x \in Nat, y \in Nat : x < y => <<x, y>> \in R
      BY Zenon DEF OpToRel
<1> HIDE DEF R
<1>3. PICK x \in T : \A y \in T : ~(<<y, x>> \in R)
      BY Zenon, <1>1, WFMin
<1>4. ASSUME NEW y \in T PROVE x <= y
  <2>1. x \in Nat /\ y \in Nat
        BY Zenon
  <2>2. ~(y < x)
        BY <2>1, <1>2, <1>3, Zenon
  <2> QED BY <2>1, <2>2
<1> QED BY Zenon, <1>4

\* The elements of a list with one more.
LEMMA RangeAppend ==
    ASSUME NEW S, NEW s \in Seq(S), NEW x \in S
    PROVE  Range(Append(s, x)) = Range(s) \cup {x}
<1>1. Append(s, x) \in Seq(S) /\ DOMAIN Append(s, x) = 1..Len(s) + 1 /\ DOMAIN s = 1..Len(s)
      OBVIOUS
<1>2. \A i \in 1..Len(s) : Append(s, x)[i] = s[i]
      OBVIOUS
<1>3. Append(s, x)[Len(s) + 1] = x /\ Len(s) \in Nat
      OBVIOUS
<1>4. ASSUME NEW y \in Range(s) PROVE y \in Range(Append(s, x))
      BY <1>1, <1>2 DEF Range
<1>5. x \in Range(Append(s, x))
      BY <1>1, <1>3 DEF Range
<1>6. ASSUME NEW y \in Range(Append(s, x)) PROVE y \in Range(s) \cup {x}
      BY <1>1, <1>2, <1>3 DEF Range
<1> QED BY Zenon, <1>4, <1>5, <1>6

\* A dictionary shared within the call.
LEMMA PutShares ==
    ASSUME NEW f \in SharedDicts, NEW x \in Int, NEW v \in Int
    PROVE  /\ Put(f, x, v) \in SharedDicts
           /\ DOMAIN Put(f, x, v) = DOMAIN f \cup {x}
           /\ \A y \in DOMAIN f \cup {x} : Put(f, x, v)[y] = IF y = x THEN v ELSE f[y]
<1>1. PICK D \in SUBSET Int : f \in [D -> Int]
      BY Zenon DEF SharedDicts
<1>2. Put(f, x, v) \in [D \cup {x} -> Int] /\ D \cup {x} \in SUBSET Int
      BY Zenon, <1>1 DEF Put
<1>3. Put(f, x, v) \in SharedDicts
      BY Zenon, <1>2 DEF SharedDicts
<1> QED BY Zenon, <1>3 DEF Put

\* What the limits of dictionary numbers say.
DictNumbers == next_dict_id \in 1..MaxDictId + 1 /\ dicts \subseteq 1..MaxDictId

\* A column without a new dictionary: it has none, a shared or an old one.
LEMMA OldColumnSound ==
    ASSUME DictNumbers, NEW acc, Sound(acc), ~acc.thrown, NEW c \in ColumnInfos,
           ~c.array /\ c.dict # Plain => c.dict \in dicts \cup acc.new
    PROVE  Sound([acc EXCEPT !.cols = Append(@, c)])
<1> DEFINE res == [acc EXCEPT !.cols = Append(@, c)]
<1>1. acc.cols \in Seq(ColumnInfos) /\ acc \in Accs
      BY Zenon DEF Sound, Accs
<1>a. Append(acc.cols, c) \in Seq(ColumnInfos)
      BY <1>1
<1>2. res \in Accs
      BY Zenon, <1>1, <1>a DEF Accs
<1>3. /\ res.next = acc.next /\ res.new = acc.new /\ res.thrown = acc.thrown
      /\ res.shares = acc.shares /\ res.cols = Append(acc.cols, c)
      BY Zenon, <1>1 DEF Accs
<1>4. Range(res.cols) = Range(acc.cols) \cup {c}
      BY <1>1, <1>3, RangeAppend
<1> SUFFICES Sound(res)
      BY Zenon
<1> HIDE DEF res
<1>5. \A e \in Range(res.cols) : ~e.array /\ e.dict # Plain => e.dict \in dicts \cup res.new
      BY Zenon, <1>3, <1>4 DEF Sound
<1>6. \A d \in res.new : \E e \in Range(res.cols) : e.dict = d
      BY Zenon, <1>3, <1>4 DEF Sound
<1>7. /\ res.next \in next_dict_id..MaxDictId + 1
      /\ res.new = next_dict_id..res.next - 1
      /\ res.thrown => res.next > MaxDictId
      BY Zenon, <1>3 DEF Sound
<1>8. \A s \in DOMAIN res.shares : s # Plain /\ res.shares[s] \in res.new
      BY Zenon, <1>3 DEF Sound
<1> QED BY Zenon, <1>2, <1>5, <1>6, <1>7, <1>8 DEF Sound

\* A column with the next dictionary.
LEMMA NewColumnSound ==
    ASSUME DictNumbers, NEW acc, Sound(acc), ~acc.thrown, acc.next <= MaxDictId,
           NEW c \in ColumnInfos, c.dict = acc.next,
           NEW shares \in SharedDicts,
           \A s \in DOMAIN shares : s # Plain /\ (shares[s] \in acc.new \/ shares[s] = acc.next)
    PROVE  Sound([thrown |-> FALSE, cols |-> Append(acc.cols, c),
                   new |-> acc.new \cup {acc.next}, next |-> acc.next + 1,
                   shares |-> shares])
<1> DEFINE res == [thrown |-> FALSE, cols |-> Append(acc.cols, c),
                   new |-> acc.new \cup {acc.next}, next |-> acc.next + 1,
                   shares |-> shares]
<1>1. acc.cols \in Seq(ColumnInfos) /\ acc \in Accs /\ acc.next \in Int
      BY Zenon DEF Sound, Accs
<1>a. Append(acc.cols, c) \in Seq(ColumnInfos) /\ acc.new \cup {acc.next} \in SUBSET Int
      BY <1>1 DEF Accs
<1>2. res \in Accs
      BY <1>1, <1>a DEF Accs
<1>3. /\ res.next = acc.next + 1 /\ res.new = acc.new \cup {acc.next}
      /\ res.thrown = FALSE
      /\ res.shares = shares /\ res.cols = Append(acc.cols, c)
      BY Zenon, <1>1 DEF Accs
<1>4. Range(res.cols) = Range(acc.cols) \cup {c}
      BY <1>1, <1>3, RangeAppend
<1> SUFFICES Sound(res)
      BY Zenon
<1> HIDE DEF res
<1>5. MaxDictId \in Nat
      BY Zenon, CatalogAssumption
<1>6. res.next \in next_dict_id..MaxDictId + 1 /\ res.new = next_dict_id..res.next - 1
      BY <1>1, <1>3, <1>5 DEF Sound, DictNumbers
<1>7. \A e \in Range(res.cols) : ~e.array /\ e.dict # Plain => e.dict \in dicts \cup res.new
      BY Zenon, <1>3, <1>4 DEF Sound
<1>8. \A d \in res.new : \E e \in Range(res.cols) : e.dict = d
      BY Zenon, <1>3, <1>4 DEF Sound
<1>9. \A s \in DOMAIN res.shares : s # Plain /\ res.shares[s] \in res.new
      BY Zenon, <1>3
<1> QED BY Zenon, <1>2, <1>3, <1>6, <1>7, <1>8, <1>9 DEF Sound

\* createTable keeps its columns sound, whatever the next one is.
LEMMA AddColumnSound ==
    ASSUME DictNumbers, NEW acc, Sound(acc), NEW col, ColumnOk(col)
    PROVE  Sound(AddColumn(acc, col))
<1> DEFINE shared == col.share < 0 /\ col.share \in DOMAIN acc.shares
           new == col.share # Plain /\ col.share <= 0 /\ ~shared
           id == IF shared THEN acc.shares[col.share] ELSE IF new THEN acc.next ELSE col.share
           c == [array |-> col.array, dict |-> id]
<1>1. acc \in Accs /\ acc.next \in Int /\ col \in ColumnArgs /\ col.share \in Int /\ MaxDictId \in Nat
      BY Zenon, CatalogAssumption DEF Sound, Accs, ColumnOk, ColumnArgs
<1>2. acc.new \subseteq Int /\ acc.shares \in SharedDicts
      BY Zenon, <1>1 DEF Accs
<1>3. id \in Int
      BY Zenon, <1>1, <1>2 DEF Sound
<1>4. c \in ColumnInfos /\ c.array = col.array /\ c.dict = id
      BY Zenon, <1>1, <1>3 DEF ColumnInfos, ColumnArgs
<1>5. CASE acc.thrown \/ (new /\ acc.next > MaxDictId)
  <2>1. AddColumn(acc, col) = [acc EXCEPT !.thrown = TRUE]
        BY Zenon, <1>5 DEF AddColumn
  <2>2. acc.next > MaxDictId
        BY Zenon, <1>5 DEF Sound
  <2>3. [acc EXCEPT !.thrown = TRUE] \in Accs
        BY Zenon, <1>1 DEF Accs
  <2> QED BY Zenon, <1>1, <2>1, <2>2, <2>3 DEF Sound, Accs
<1>6. CASE ~acc.thrown /\ ~new
  <2>1. AddColumn(acc, col) = [acc EXCEPT !.cols = Append(@, c)]
        BY Zenon, <1>1, <1>6 DEF AddColumn, Accs
  <2>2. ~c.array /\ c.dict # Plain => c.dict \in dicts \cup acc.new
        BY <1>1, <1>4, <1>6 DEF Sound, ColumnOk
  <2> QED BY <1>4, <1>6, <2>1, <2>2, OldColumnSound
<1>7. CASE ~acc.thrown /\ new /\ acc.next <= MaxDictId
  <2> DEFINE shares == IF col.share < 0 THEN Put(acc.shares, col.share, id) ELSE acc.shares
  <2>0. col.share # Plain /\ col.share <= 0 /\ ~shared /\ new
        BY Zenon, <1>7
  <2>2. id = acc.next
        BY Zenon, <1>7
  <2>1. AddColumn(acc, col) =
            [thrown |-> FALSE, cols |-> Append(acc.cols, c),
             new |-> acc.new \cup {acc.next}, next |-> acc.next + 1, shares |-> shares]
    <3>1. AddColumn(acc, col) =
              [acc EXCEPT !.cols = Append(@, c), !.new = IF new THEN @ \cup {id} ELSE @,
                          !.next = IF new THEN @ + 1 ELSE @,
                          !.shares = IF new /\ col.share < 0 THEN Put(@, col.share, id) ELSE @]
          BY <1>1, <1>7 DEF AddColumn
    <3>2. acc.thrown = FALSE
          BY Zenon, <1>1, <1>7 DEF Accs
    <3> HIDE DEF new, id, c
    <3> QED BY Zenon, <1>1, <2>0, <2>2, <3>1, <3>2 DEF Accs
  <2>3. shares \in SharedDicts
        BY ZenonT(30), <1>1, <1>2, <1>3, PutShares
  <2>4. \A s \in DOMAIN shares : s # Plain /\ (shares[s] \in acc.new \/ shares[s] = acc.next)
    <3>1. \A s \in DOMAIN acc.shares : s # Plain /\ acc.shares[s] \in acc.new
          BY Zenon DEF Sound
    <3>2. CASE col.share < 0
      <4>0. shares = Put(acc.shares, col.share, id)
            BY Zenon, <3>2
      <4> HIDE DEF shares, id
      <4>1. /\ DOMAIN shares = DOMAIN acc.shares \cup {col.share}
            /\ \A y \in DOMAIN acc.shares \cup {col.share} :
                   shares[y] = IF y = col.share THEN id ELSE acc.shares[y]
            BY Zenon, <4>0 DEF Put
      <4> QED BY Zenon, <2>0, <2>2, <3>1, <4>1
    <3>3. CASE ~(col.share < 0)
          BY Zenon, <3>1, <3>3
    <3> QED BY Zenon, <3>2, <3>3
  <2> QED BY Zenon, <1>4, <1>7, <2>1, <2>2, <2>3, <2>4, NewColumnSound
<1> QED BY <1>1, <1>5, <1>6, <1>7

\* Nothing is added yet.
LEMMA NoColumnsSound ==
    ASSUME DictNumbers
    PROVE  Sound(NoColumns)
<1>1. Empty \in [{} -> Int]
      BY Zenon DEF Empty
<1>2. Empty \in SharedDicts /\ DOMAIN Empty = {}
      BY Zenon, <1>1 DEF SharedDicts
<1>3. <<>> \in Seq(ColumnInfos) /\ Range(<<>>) = {}
      BY DEF Range
<1>4. MaxDictId \in Nat
      BY Zenon, CatalogAssumption
<1>5. NoColumns \in Accs
      BY <1>2, <1>3, <1>4 DEF NoColumns, Accs, DictNumbers
<1> QED BY <1>2, <1>3, <1>4, <1>5 DEF NoColumns, Sound, DictNumbers

\* The columns after the first m of a list.
AfterColumns(cols, m, g) ==
    g = [i \in 0..m |-> IF i = 0 THEN NoColumns ELSE AddColumn(g[i - 1], cols[i])]

\* Every list of columns has such a function: for the first m + 1 it is the one for
\* the first m with one more value.
LEMMA AfterExists ==
    ASSUME NEW cols, NEW n \in Nat
    PROVE  \E g : AfterColumns(cols, n, g)
<1> DEFINE T == {m \in Nat : ~\E g : AfterColumns(cols, m, g)}
<1> SUFFICES ASSUME T # {} PROVE FALSE
      BY Zenon
<1>1. PICK m \in T : \A j \in T : m <= j
      BY LeastNat, Zenon
<1>2. m \in Nat /\ ~\E g : AfterColumns(cols, m, g)
      BY Zenon
<1>3. CASE m = 0
  <2> DEFINE g == [i \in 0..0 |-> NoColumns]
  <2>1. g = [i \in 0..0 |-> IF i = 0 THEN NoColumns ELSE AddColumn(g[i - 1], cols[i])]
        OBVIOUS
  <2> QED BY Zenon, <1>2, <1>3, <2>1 DEF AfterColumns
<1>4. CASE m # 0
  <2>1. m - 1 \in Nat /\ ~(m <= m - 1)
        BY <1>2, <1>4
  <2>2. m - 1 \notin T
        BY Zenon, <1>1, <2>1
  <2>3. PICK g : AfterColumns(cols, m - 1, g)
        BY Zenon, <2>1, <2>2
  <2> DEFINE h == [i \in 0..m |-> IF i = m THEN AddColumn(g[m - 1], cols[m]) ELSE g[i]]
  <2>4. \A i \in 0..m - 1 : h[i] = g[i]
        BY <1>2
  <2>5. \A i \in 0..m - 1 :
            g[i] = IF i = 0 THEN NoColumns ELSE AddColumn(g[i - 1], cols[i])
        BY Zenon, <2>3 DEF AfterColumns
  <2>6. ASSUME NEW i \in 0..m
        PROVE  h[i] = IF i = 0 THEN NoColumns ELSE AddColumn(h[i - 1], cols[i])
    <3>1. CASE i = m
      <4>1. h[i] = AddColumn(g[m - 1], cols[m]) /\ h[m - 1] = g[m - 1]
            BY <1>2, <2>1, <2>4, <3>1
      <4> QED BY Zenon, <1>4, <3>1, <4>1
    <3>2. CASE i # m
      <4>1. i \in 0..m - 1 /\ (i # 0 => i - 1 \in 0..m - 1)
            BY <1>2, <3>2
      <4>2. h[i] = g[i] /\ (i # 0 => h[i - 1] = g[i - 1])
            BY Zenon, <2>4, <4>1
      <4> QED BY Zenon, <2>5, <4>1, <4>2
    <3> QED BY Zenon, <3>1, <3>2
  <2>7. h = [i \in 0..m |-> h[i]]
        BY Zenon
  <2> HIDE DEF h
  <2>8. h = [i \in 0..m |-> IF i = 0 THEN NoColumns ELSE AddColumn(h[i - 1], cols[i])]
        BY Zenon, <2>6, <2>7
  <2> QED BY Zenon, <1>2, <2>8 DEF AfterColumns
<1> QED BY Zenon, <1>3, <1>4

\* AddColumns is the last value of such a function.
LEMMA AddColumnsIs ==
    ASSUME NEW cols, Len(cols) \in Nat
    PROVE  \E g : AfterColumns(cols, Len(cols), g) /\ AddColumns(cols) = g[Len(cols)]
<1> DEFINE after == CHOOSE g : g = [i \in 0..Len(cols) |->
                        IF i = 0 THEN NoColumns ELSE AddColumn(g[i - 1], cols[i])]
<1>1. \E g : g = [i \in 0..Len(cols) |->
                        IF i = 0 THEN NoColumns ELSE AddColumn(g[i - 1], cols[i])]
      BY Zenon, AfterExists DEF AfterColumns
<1>2. after = [i \in 0..Len(cols) |->
                        IF i = 0 THEN NoColumns ELSE AddColumn(after[i - 1], cols[i])]
      BY <1>1, Zenon
<1>3. AddColumns(cols) = after[Len(cols)]
      BY Zenon DEF AddColumns
<1> HIDE DEF after
<1> QED BY Zenon, <1>2, <1>3 DEF AfterColumns

\* The columns that createTable adds are sound.
LEMMA AddColumnsSound ==
    ASSUME DictNumbers, NEW cols \in Seq(ColumnArgs),
           \A i \in DOMAIN cols : cols[i].share > 0 /\ ~cols[i].array => cols[i].share \in dicts
    PROVE  Sound(AddColumns(cols))
<1> DEFINE n == Len(cols)
<1>1. n \in Nat /\ DOMAIN cols = 1..n
      OBVIOUS
<1>2. PICK g : AfterColumns(cols, n, g) /\ AddColumns(cols) = g[n]
      BY Zenon, <1>1, AddColumnsIs
<1>3. \A i \in 1..n : ColumnOk(cols[i])
      BY <1>1 DEF ColumnOk
<1> HIDE DEF n
<1> DEFINE T == {m \in 0..n : ~Sound(g[m])}
<1>4. CASE T = {}
      BY <1>1, <1>2, <1>4
<1>5. CASE T # {}
  <2>1. T \subseteq Nat
        BY <1>1
  <2>2. PICK m \in T : \A j \in T : m <= j
        BY <1>5, <2>1, LeastNat, Zenon
  <2>3. m \in 0..n /\ ~Sound(g[m])
        BY Zenon
  <2>4. g[m] = IF m = 0 THEN NoColumns ELSE AddColumn(g[m - 1], cols[m])
        BY Zenon, <1>2, <2>3 DEF AfterColumns
  <2>5. m # 0
        BY Zenon, <2>3, <2>4, NoColumnsSound
  <2>6. m - 1 \in 0..n /\ ~(m <= m - 1) /\ m \in 1..n
        BY <1>1, <2>3, <2>5
  <2>7. Sound(g[m - 1])
        BY Zenon, <2>2, <2>6
  <2>8. Sound(AddColumn(g[m - 1], cols[m]))
        BY Zenon, <1>3, <2>6, <2>7, AddColumnSound
  <2> QED BY Zenon, <2>3, <2>4, <2>5, <2>8
<1> QED BY Zenon, <1>4, <1>5

-----------------------------------------------------------------------------
(* The inductive invariant.                                                  *)

Modes == {"shared", "unique"}
Mutexes == {"data", "dict", "schema", "table"} \X Nat

Places == {"idle", "create", "create.dict", "create.schema", "create.body", "create.emplace",
           "drop.find", "drop", "drop.dict", "drop.schema", "drop.lookup", "drop.table",
           "append.find", "append", "append.table", "append.dict", "append.columns",
           "append.commit", "fetch", "fetch.table", "fetch.column"}

Calls == [pc : Places, id : Nat, name : Names \cup {""}, cols : Columns \cup {<<>>},
          held : SUBSET (Mutexes \X Modes)]

\* A lock that one call holds unique and another at all.
Clash(held, other) == \E h \in held, g \in other : h[1] = g[1] /\ "unique" \in {h[2], g[2]}

Types ==
    /\ th \in [Threads -> Calls]
    /\ next_table_id \in Nat \ {0}
    /\ DictNumbers
    /\ DOMAIN columns = DOMAIN table_infos
    /\ DOMAIN table_infos \subseteq 1..next_table_id - 1

Excluded == \A t \in Threads : \A u \in Threads \ {t} : ~Clash(th[t].held, th[u].held)

OwnsData == {"create.dict", "create.schema", "create.body", "create.emplace",
             "drop.dict", "drop.schema", "drop.lookup", "drop.table"}
SharesData == {"append.table", "fetch.table"}
OwnsTable == {"append.dict", "append.columns", "append.commit"}
SharesTable == {"fetch.column"}

\* The locks of a call.
Locked(call) ==
    /\ call.pc \in OwnsData => <<data_mutex, "unique">> \in call.held
    /\ call.pc \in SharesData => <<data_mutex, "shared">> \in call.held
    /\ call.pc \in OwnsTable => <<TableMutex(call.id), "unique">> \in call.held
    /\ call.pc \in SharesTable => <<TableMutex(call.id), "shared">> \in call.held

\* The calls that go on with the table they have found.
InUse == SharesData \cup OwnsTable \cup SharesTable \cup {"drop.table"}

\* The table of a call is there: with data, or in the schema when it is just being
\* created.
Found(call) ==
    /\ call.pc \in InUse => call.id \in tables
    /\ call.pc = "create.emplace" => call.id \in DOMAIN table_infos

IInv ==
    /\ Types
    /\ Excluded
    /\ \A t \in Threads : Locked(th[t]) /\ Found(th[t])
    /\ TablesNamed
    /\ DictsMatchColumns

\* A table that an append or a fetch has found keeps its data and its columns until
\* the call is through: dropTable waits for it, under data_mutex_ or the mutex of the
\* table (ArrowStorage::dropTable).
TablesInUseStay ==
    \A t \in Threads : th[t].pc \in InUse => th[t].id \in tables /\ th[t].id \in DOMAIN columns

-----------------------------------------------------------------------------
(* What the steps of a call do to the calls, and the steps that only take or *)
(* release locks.                                                            *)

\* The calls, when one of them goes on and the others still find their tables.
LEMMA CallsKeep ==
    ASSUME IInv, NEW t \in Threads, NEW c \in Calls, th' = [th EXCEPT ![t] = c],
           \A u \in Threads \ {t} : ~Clash(c.held, th[u].held), Locked(c), Found(c)',
           \A u \in Threads \ {t} :
               /\ th[u].pc \in InUse => th[u].id \in tables'
               /\ th[u].pc = "create.emplace" => th[u].id \in DOMAIN table_infos'
    PROVE  /\ th' \in [Threads -> Calls]
           /\ Excluded'
           /\ \A u \in Threads : (Locked(th[u]) /\ Found(th[u]))'
           /\ th'[t] = c /\ \A u \in Threads \ {t} : th'[u] = th[u]
<1>1. th \in [Threads -> Calls]
      BY Zenon DEF IInv, Types
<1>2. th'[t] = c /\ \A u \in Threads \ {t} : th'[u] = th[u]
      BY Zenon, <1>1
<1>3. th' \in [Threads -> Calls]
      BY Zenon, <1>1
<1>4. Excluded'
  <2>1. ASSUME NEW u \in Threads, NEW v \in Threads \ {u} PROVE ~Clash(th'[u].held, th'[v].held)
    <3>1. CASE u = t
          BY Zenon, <1>2, <3>1
    <3>2. CASE v = t
          BY <1>2, <3>2 DEF Clash
    <3>3. CASE u # t /\ v # t
          BY Zenon, <1>2, <3>3 DEF IInv, Excluded
    <3> QED BY Zenon, <3>1, <3>2, <3>3
  <2> QED BY Zenon, <2>1 DEF Excluded, Clash
<1>5. ASSUME NEW u \in Threads PROVE (Locked(th[u]) /\ Found(th[u]))'
  <2>1. CASE u = t
        BY Zenon, <1>2, <2>1 DEF Locked, Found
  <2>2. CASE u # t
        BY Zenon, <1>2, <2>2 DEF IInv, Locked, Found
  <2> QED BY Zenon, <2>1, <2>2
<1> QED BY Zenon, <1>2, <1>3, <1>4, <1>5

\* An ended call has no locks and no table.
LEMMA IdleCall ==
    /\ Idle \in Calls /\ Idle.pc = "idle"
    /\ \A held : ~Clash(Idle.held, held)
    /\ Locked(Idle) /\ Found(Idle) /\ Found(Idle)'
<1>1. Idle \in Calls /\ Idle.held = {} /\ Idle.pc = "idle"
      BY Zenon DEF Idle, Calls, Places
<1>2. \A held : ~Clash(Idle.held, held)
      BY Zenon, <1>1 DEF Clash
<1>3. Locked(Idle) /\ Found(Idle) /\ Found(Idle)'
      BY Zenon, <1>1 DEF Locked, Found, OwnsData, SharesData, OwnsTable, SharesTable, InUse
<1> QED BY Zenon, <1>1, <1>2, <1>3

\* A step that changes the call of one thread only.
LEMMA QuietKeeps ==
    ASSUME IInv, NEW t \in Threads, NEW c \in Calls, UNCHANGED catalog,
           th' = [th EXCEPT ![t] = c], th[t].pc # "create.emplace",
           \A u \in Threads \ {t} : ~Clash(c.held, th[u].held), Locked(c), Found(c)
    PROVE  IInv'
<1>1. UNCHANGED <<tables, table_infos, by_name, columns, dicts, next_table_id, next_dict_id,
                  array_dicts>>
      BY Zenon DEF catalog, schema
<1>2. /\ th' \in [Threads -> Calls]
      /\ Excluded'
      /\ \A u \in Threads : (Locked(th[u]) /\ Found(th[u]))'
      /\ th'[t] = c /\ \A u \in Threads \ {t} : th'[u] = th[u]
  <2>1. Found(c)' /\ \A u \in Threads \ {t} :
            /\ th[u].pc \in InUse => th[u].id \in tables'
            /\ th[u].pc = "create.emplace" => th[u].id \in DOMAIN table_infos'
        BY Zenon, <1>1 DEF IInv, Found
  <2> QED BY Zenon, <2>1, CallsKeep
<1>3. Types'
      BY Zenon, <1>1, <1>2 DEF IInv, Types, DictNumbers
<1>4. TablesNamed'
  <2>1. \A u \in Threads : th[u].pc = "create.emplace" => th'[u] = th[u]
        BY Zenon, <1>2
  <2> QED BY <1>1, <2>1 DEF IInv, TablesNamed
<1>5. DictsMatchColumns'
      BY Zenon, <1>1 DEF IInv, DictsMatchColumns, DictsOf
<1> QED BY Zenon, <1>2, <1>3, <1>4, <1>5 DEF IInv

\* A call that ends.
LEMMA ReturnKeeps ==
    ASSUME IInv, NEW t \in Threads, UNCHANGED catalog, Return(t), th[t].pc # "create.emplace"
    PROVE  IInv'
  BY Zenon, IdleCall, QuietKeeps DEF Return

\* The held locks, as a set of pairs.
LEMMA Held ==
    ASSUME IInv, NEW u \in Threads, NEW g \in th[u].held
    PROVE  g \in Mutexes \X Modes /\ g = <<g[1], g[2]>>
<1>1. th[u].held \subseteq Mutexes \X Modes
      BY Zenon DEF IInv, Types, Calls
<1> QED BY <1>1

\* A lock that a call may take clashes with nobody's.
LEMMA MayTake ==
    ASSUME IInv, NEW t \in Threads, NEW l \in Mutexes, NEW mode \in Modes,
           IF mode = "unique" THEN CanOwn(t, l) ELSE CanShare(t, l),
           NEW u \in Threads \ {t}
    PROVE  ~Clash({<<l, mode>>}, th[u].held)
<1> SUFFICES ASSUME NEW g \in th[u].held, l = g[1], "unique" \in {mode, g[2]} PROVE FALSE
      BY DEF Clash
<1>1. g = <<l, g[2]>> /\ g[2] \in Modes
      BY Zenon, Held
<1>2. CASE mode = "unique"
      BY Zenon, <1>1, <1>2 DEF CanOwn, Holds, Modes
<1>3. CASE mode # "unique"
      BY Zenon, <1>1, <1>3 DEF CanShare, Holds, Modes
<1> QED BY Zenon, <1>2, <1>3

\* A call that keeps some of its locks and takes one.
LEMMA TakeKeeps ==
    ASSUME IInv, NEW t \in Threads, NEW l \in Mutexes, NEW mode \in Modes,
           IF mode = "unique" THEN CanOwn(t, l) ELSE CanShare(t, l),
           UNCHANGED catalog, NEW c \in Calls, th' = [th EXCEPT ![t] = c],
           th[t].pc # "create.emplace", c.held \subseteq th[t].held \cup {<<l, mode>>},
           Locked(c), Found(c)
    PROVE  IInv'
<1>1. ASSUME NEW u \in Threads \ {t} PROVE ~Clash(c.held, th[u].held)
  <2>1. ~Clash({<<l, mode>>}, th[u].held)
        BY Zenon, MayTake
  <2>2. ~Clash(th[t].held, th[u].held)
        BY Zenon DEF IInv, Excluded
  <2> QED BY Zenon, <2>1, <2>2 DEF Clash
<1> QED BY Zenon, <1>1, QuietKeeps

\* The mutexes are pairs.
LEMMA MutexesAre ==
    /\ {data_mutex, dict_mutex, schema_mutex} \subseteq Mutexes
    /\ \A id \in Nat : TableMutex(id) \in Mutexes
  BY DEF Mutexes, data_mutex, dict_mutex, schema_mutex, TableMutex

\* The call goes to another place with these locks.
Goes(t, held, pc) == th' = [th EXCEPT ![t].held = held, ![t].pc = pc]

\* The record of a call at another place.
LEMMA Moved ==
    ASSUME IInv, NEW t \in Threads, NEW held \in SUBSET (Mutexes \X Modes), NEW pc \in Places,
           Goes(t, held, pc)
    PROVE  \E c \in Calls : /\ th' = [th EXCEPT ![t] = c]
                            /\ c.held = held /\ c.pc = pc /\ c.id = th[t].id
<1> DEFINE c == [th[t] EXCEPT !.held = held, !.pc = pc]
<1>1. th[t] \in Calls /\ th \in [Threads -> Calls]
      BY Zenon DEF IInv, Types
<1>2. c \in Calls
      BY Zenon, <1>1 DEF Calls
<1>3. c.held = held /\ c.pc = pc /\ c.id = th[t].id
      BY Zenon, <1>1 DEF Calls
<1>4. th' = [th EXCEPT ![t] = c]
      BY Zenon, <1>1 DEF Goes, Calls
<1> QED BY Zenon, <1>2, <1>3, <1>4

\* The locks of a call that takes another.
LEMMA HeldAlso ==
    ASSUME IInv, NEW t \in Threads, NEW l \in Mutexes, NEW mode \in Modes
    PROVE  /\ th[t].held \in SUBSET (Mutexes \X Modes)
           /\ th[t].held \cup {<<l, mode>>} \in SUBSET (Mutexes \X Modes)
<1>1. th[t].held \in SUBSET (Mutexes \X Modes)
      BY Zenon DEF IInv, Types, Calls
<1>2. <<l, mode>> \in Mutexes \X Modes
      BY Zenon
<1> QED BY <1>1, <1>2, Zenon

\* The next lock of createTable or dropTable.
LEMMA OwnKeeps ==
    ASSUME IInv, NEW t \in Threads, NEW l \in Mutexes, NEW from \in Places, NEW to \in Places,
           At(t, from), CanOwn(t, l), Take(t, l, "unique", to), UNCHANGED catalog,
           from # "create.emplace", from \in OwnsData \/ l = data_mutex,
           to \in OwnsData \ {"create.emplace", "drop.table"}
    PROVE  IInv'
<1>1. PICK held \in SUBSET (Mutexes \X Modes) : held = th[t].held \cup {<<l, "unique">>}
      BY Zenon, HeldAlso DEF Modes
<1>2. Goes(t, held, to)
      BY Zenon, <1>1 DEF Goes, Take, IInv, Types
<1>3. PICK c \in Calls : /\ th' = [th EXCEPT ![t] = c]
                         /\ c.held = held /\ c.pc = to /\ c.id = th[t].id
      BY <1>2, Moved
<1>4. <<data_mutex, "unique">> \in c.held
      BY Zenon, <1>1, <1>3 DEF At, IInv, Locked
<1>5. Locked(c) /\ Found(c)
      BY Zenon, <1>3, <1>4
      DEF Locked, Found, OwnsData, SharesData, OwnsTable, SharesTable, InUse
<1> QED BY Zenon, <1>1, <1>3, <1>5, TakeKeeps DEF At, Modes

\* The names lead to ids.
LEMMA NamedIds ==
    ASSUME IInv, NEW name \in DOMAIN by_name
    PROVE  by_name[name] \in DOMAIN table_infos /\ by_name[name] \in Nat
<1>1. PICK id \in DOMAIN table_infos : name = table_infos[id]
      BY DEF IInv, TablesNamed
<1>2. by_name[name] = id
      BY Zenon, <1>1 DEF IInv, TablesNamed
<1> QED BY <1>1, <1>2 DEF IInv, Types

\* A table is looked up by name; its id may be stale when it is used.
LEMMA FindTableKeeps ==
    ASSUME IInv, NEW t \in Threads, NEW from \in Places, NEW to \in {"drop", "append"},
           FindTable(t, from, to), from # "create.emplace"
    PROVE  IInv'
<1>0. UNCHANGED catalog /\ th[t].pc # "create.emplace"
      BY Zenon DEF FindTable, At
<1>1. CASE th[t].name \in DOMAIN by_name
  <2> DEFINE c == [th[t] EXCEPT !.pc = to, !.id = by_name[th[t].name]]
  <2>1. th[t] \in Calls /\ th \in [Threads -> Calls]
        BY Zenon DEF IInv, Types
  <2>2. by_name[th[t].name] \in Nat /\ to \in Places
        BY Zenon, <1>1, NamedIds DEF Places
  <2>3. c \in Calls /\ c.held = th[t].held /\ c.pc = to
        BY Zenon, <2>1, <2>2 DEF Calls
  <2>4. th' = [th EXCEPT ![t] = c]
        BY Zenon, <1>1, <2>1 DEF FindTable, Calls
  <2> HIDE DEF c
  <2>5. Locked(c) /\ Found(c)
        BY Zenon, <2>3 DEF Locked, Found, OwnsData, SharesData, OwnsTable, SharesTable, InUse
  <2>6. \A u \in Threads \ {t} : ~Clash(c.held, th[u].held)
        BY Zenon, <2>3 DEF IInv, Excluded
  <2> QED BY Zenon, <1>0, <2>3, <2>4, <2>5, <2>6, QuietKeeps
<1>2. CASE th[t].name \notin DOMAIN by_name
      BY Zenon, <1>0, <1>2, ReturnKeeps DEF FindTable
<1> QED BY Zenon, <1>1, <1>2

\* dropTable looks its table up again, under the locks.
LEMMA DropLookupKeeps ==
    ASSUME IInv, NEW t \in Threads, DropLookup(t)
    PROVE  IInv'
<1>0. UNCHANGED catalog /\ th[t].pc = "drop.lookup"
      BY Zenon DEF DropLookup, At
<1>1. CASE th[t].id \in tables
  <2>1. PICK held \in SUBSET (Mutexes \X Modes) : held = th[t].held
        BY Zenon DEF IInv, Types, Calls
  <2>2. Goes(t, held, "drop.table")
    <3>1. th[t].held \ {} = th[t].held
          BY Zenon
    <3> QED BY Zenon, <1>1, <2>1, <3>1 DEF Goes, DropLookup, Release, IInv, Types
  <2>p. "drop.table" \in Places
        BY Zenon DEF Places
  <2>3. PICK c \in Calls : /\ th' = [th EXCEPT ![t] = c]
                           /\ c.held = held /\ c.pc = "drop.table" /\ c.id = th[t].id
        BY <2>p, <2>2, Moved
  <2>4. Locked(c) /\ Found(c)
        BY Zenon, <1>0, <1>1, <2>1, <2>3
        DEF IInv, Locked, Found, OwnsData, SharesData, OwnsTable, SharesTable, InUse
  <2>5. \A u \in Threads \ {t} : ~Clash(c.held, th[u].held)
        BY Zenon, <2>1, <2>3 DEF IInv, Excluded
  <2> QED BY Zenon, <1>0, <2>3, <2>4, <2>5, QuietKeeps
<1>2. CASE th[t].id \notin tables
      BY Zenon, <1>0, <1>2, ReturnKeeps DEF DropLookup
<1> QED BY Zenon, <1>1, <1>2

\* An append or fetch looks its table up under data_mutex_.
LEMMA ShareDataKeeps ==
    ASSUME IInv, NEW t \in Threads, NEW from \in Places, NEW to \in SharesData,
           ShareData(t, from, to), from # "create.emplace"
    PROVE  IInv'
<1>0. UNCHANGED catalog /\ th[t].pc # "create.emplace" /\ CanShare(t, data_mutex)
      BY Zenon DEF ShareData, At
<1>1. CASE th[t].id \in tables
  <2>1. PICK held \in SUBSET (Mutexes \X Modes) : held = th[t].held \cup {<<data_mutex, "shared">>}
        BY Zenon, MutexesAre, HeldAlso DEF Modes
  <2>p. to \in Places
        BY Zenon DEF Places, SharesData
  <2>2. Goes(t, held, to)
        BY Zenon, <1>1, <2>1 DEF Goes, ShareData, Take, IInv, Types
  <2>3. PICK c \in Calls : /\ th' = [th EXCEPT ![t] = c]
                           /\ c.held = held /\ c.pc = to /\ c.id = th[t].id
        BY <2>p, <2>2, Moved
  <2>4. Locked(c) /\ Found(c)
        BY Zenon, <1>1, <2>1, <2>3 DEF Locked, Found, OwnsData, SharesData, OwnsTable, SharesTable, InUse
  <2> QED BY Zenon, <1>0, <2>1, <2>3, <2>4, TakeKeeps, MutexesAre DEF Modes
<1>2. CASE th[t].id \notin tables
      BY Zenon, <1>0, <1>2, ReturnKeeps DEF ShareData
<1> QED BY Zenon, <1>1, <1>2

\* A call lets all its locks go but that of its table.
LEMMA TableKeeps ==
    ASSUME IInv, NEW t \in Threads, NEW mode \in Modes, NEW to \in Places,
           IF mode = "unique" THEN CanOwn(t, TableMutex(th[t].id))
                              ELSE CanShare(t, TableMutex(th[t].id)),
           Goes(t, {<<TableMutex(th[t].id), mode>>}, to),
           UNCHANGED catalog, th[t].pc \in SharesData,
           to \in IF mode = "unique" THEN OwnsTable ELSE SharesTable
    PROVE  IInv'
<1>1. th[t].id \in Nat
      BY Zenon DEF IInv, Types, Calls
<1>2. PICK l \in Mutexes : l = TableMutex(th[t].id)
      BY Zenon, <1>1, MutexesAre
<1>h. <<l, mode>> \in Mutexes \X Modes
      BY Zenon
<1>3. PICK held \in SUBSET (Mutexes \X Modes) : held = {<<l, mode>>}
      BY <1>h, Zenon
<1>4. Goes(t, held, to)
      BY Zenon, <1>2, <1>3
<1>5. PICK c \in Calls : /\ th' = [th EXCEPT ![t] = c]
                         /\ c.held = held /\ c.pc = to /\ c.id = th[t].id
      BY <1>4, Moved
<1>6. Locked(c)
      BY Zenon, <1>2, <1>3, <1>5 DEF Locked, OwnsData, SharesData, OwnsTable, SharesTable, Modes
<1>7. Found(c)
      BY Zenon, <1>5 DEF IInv, Found, SharesData, OwnsTable, SharesTable, InUse
<1>8. th[t].pc # "create.emplace"
      BY Zenon DEF SharesData
<1> QED BY Zenon, <1>2, <1>3, <1>5, <1>6, <1>7, <1>8, TakeKeeps

\* An append takes the mutex of its table, and lets data_mutex_ go.
LEMMA OwnTableKeeps ==
    ASSUME IInv, NEW t \in Threads, OwnTable(t)
    PROVE  IInv'
<1>1. Goes(t, {<<TableMutex(th[t].id), "unique">>}, "append.dict")
      BY Zenon DEF OwnTable, Goes
<1>2. "append.dict" \in Places /\ "append.dict" \in OwnsTable /\ "unique" \in Modes
      BY Zenon DEF Places, OwnsTable, Modes
<1>3. th[t].pc \in SharesData /\ UNCHANGED catalog /\ CanOwn(t, TableMutex(th[t].id))
      BY Zenon DEF OwnTable, At, SharesData
<1> QED BY Zenon, <1>1, <1>2, <1>3, TableKeeps

\* A fetch likewise.
LEMMA ShareTableKeeps ==
    ASSUME IInv, NEW t \in Threads, ShareTable(t)
    PROVE  IInv'
<1>1. Goes(t, {<<TableMutex(th[t].id), "shared">>}, "fetch.column")
      BY Zenon DEF ShareTable, Goes
<1>2. "fetch.column" \in Places /\ "fetch.column" \in SharesTable /\ "shared" \in Modes
      BY Zenon DEF Places, SharesTable, Modes
<1>3. th[t].pc \in SharesData /\ UNCHANGED catalog /\ CanShare(t, TableMutex(th[t].id))
      BY Zenon DEF ShareTable, At, SharesData
<1> QED BY Zenon, <1>1, <1>2, <1>3, TableKeeps

\* An append takes the lock of the dictionaries.
LEMMA ShareDictKeeps ==
    ASSUME IInv, NEW t \in Threads, ShareDict(t)
    PROVE  IInv'
<1>0. th[t].pc = "append.dict" /\ UNCHANGED catalog /\ CanShare(t, dict_mutex)
      BY Zenon DEF ShareDict, At
<1>1. PICK held \in SUBSET (Mutexes \X Modes) : held = th[t].held \cup {<<dict_mutex, "shared">>}
      BY Zenon, MutexesAre, HeldAlso DEF Modes
<1>2. Goes(t, held, "append.columns")
      BY Zenon, <1>1 DEF ShareDict, Take, Goes, IInv, Types
<1>3. "append.columns" \in Places
      BY Zenon DEF Places
<1>4. PICK c \in Calls : /\ th' = [th EXCEPT ![t] = c]
                         /\ c.held = held /\ c.pc = "append.columns" /\ c.id = th[t].id
      BY <1>2, <1>3, Moved
<1>5. Locked(c) /\ Found(c)
      BY Zenon, <1>0, <1>1, <1>4
      DEF IInv, Locked, Found, OwnsData, SharesData, OwnsTable, SharesTable, InUse
<1> QED BY Zenon, <1>0, <1>1, <1>4, <1>5, TakeKeeps, MutexesAre DEF Modes

\* It releases that lock, or throws.
LEMMA ImportColumnsKeeps ==
    ASSUME IInv, NEW t \in Threads, ImportColumns(t)
    PROVE  IInv'
<1>0. th[t].pc = "append.columns" /\ UNCHANGED catalog
      BY Zenon DEF ImportColumns, At
<1>1. CASE Release(t, {<<dict_mutex, "shared">>}, "append.commit")
  <2>1. PICK held \in SUBSET (Mutexes \X Modes) : held = th[t].held \ {<<dict_mutex, "shared">>}
        BY Zenon DEF IInv, Types, Calls
  <2>2. Goes(t, held, "append.commit")
        BY Zenon, <1>1, <2>1 DEF Release, Goes, IInv, Types
  <2>3. "append.commit" \in Places
        BY Zenon DEF Places
  <2>4. PICK c \in Calls : /\ th' = [th EXCEPT ![t] = c]
                           /\ c.held = held /\ c.pc = "append.commit" /\ c.id = th[t].id
        BY SMTT(30), <2>1, <2>2, <2>3, Moved
  <2>5. <<TableMutex(c.id), "unique">> \in c.held
        BY Zenon, <1>0, <2>1, <2>4 DEF IInv, Locked, OwnsTable
  <2>6. Locked(c) /\ Found(c)
        BY Zenon, <1>0, <2>4, <2>5
        DEF IInv, Locked, Found, OwnsData, SharesData, OwnsTable, SharesTable, InUse
  <2>7. \A u \in Threads \ {t} : ~Clash(c.held, th[u].held)
        BY Zenon, <2>1, <2>4 DEF IInv, Excluded, Clash
  <2> QED BY Zenon, <1>0, <2>4, <2>6, <2>7, QuietKeeps
<1>2. CASE Return(t)
      BY Zenon, <1>0, <1>2, ReturnKeeps
<1> QED BY Zenon, <1>1, <1>2 DEF ImportColumns

\* A call begins, without locks.
LEMMA CallKeeps ==
    ASSUME IInv, NEW t \in Threads, NEW c \in Calls, Call(t, c), c.held = {},
           c.pc \in {"create", "drop.find", "append.find", "fetch"}
    PROVE  IInv'
<1>1. Locked(c) /\ Found(c)
      BY Zenon DEF Locked, Found, OwnsData, SharesData, OwnsTable, SharesTable, InUse
<1>2. \A u \in Threads \ {t} : ~Clash(c.held, th[u].held)
      BY Zenon DEF Clash
<1>3. UNCHANGED catalog /\ th' = [th EXCEPT ![t] = c] /\ th[t].pc # "create.emplace"
      BY Zenon DEF Call, At
<1> QED BY Zenon, <1>1, <1>2, <1>3, QuietKeeps

-----------------------------------------------------------------------------
(* Steps that change the catalog.                                            *)

\* The new table gets its data.
LEMMA EmplaceTableKeeps ==
    ASSUME IInv, NEW t \in Threads, EmplaceTable(t)
    PROVE  IInv'
<1>0. /\ th[t].pc = "create.emplace" /\ tables' = tables \cup {th[t].id}
      /\ th' = [th EXCEPT ![t] = Idle]
      /\ UNCHANGED <<table_infos, by_name, columns, dicts, next_table_id, next_dict_id, array_dicts>>
      BY Zenon DEF EmplaceTable, At, Return, schema
<1>1. \A u \in Threads \ {t} :
          /\ th[u].pc \in InUse => th[u].id \in tables'
          /\ th[u].pc = "create.emplace" => th[u].id \in DOMAIN table_infos'
      BY Zenon, <1>0 DEF IInv, Found
<1>2. /\ th' \in [Threads -> Calls]
      /\ Excluded'
      /\ \A u \in Threads : (Locked(th[u]) /\ Found(th[u]))'
      /\ th'[t] = Idle /\ \A u \in Threads \ {t} : th'[u] = th[u]
      BY ZenonT(30), <1>0, <1>1, IdleCall, CallsKeep
<1>3. Types'
      BY Zenon, <1>0, <1>2 DEF IInv, Types, DictNumbers
<1>4. TablesNamed'
  <2>1. th[t].id \in DOMAIN table_infos
        BY Zenon, <1>0 DEF IInv, Found
  <2>2. tables' \subseteq DOMAIN table_infos
        BY Zenon, <1>0, <2>1 DEF IInv, TablesNamed
  <2>3. ASSUME NEW id \in DOMAIN table_infos \ tables'
        PROVE  \/ next_dict_id > MaxDictId
               \/ \E u \in Threads : th'[u].pc = "create.emplace" /\ th'[u].id = id
    <3>1. id \in DOMAIN table_infos \ tables /\ id # th[t].id
          BY Zenon, <1>0
    <3> QED BY Zenon, <1>2, <3>1 DEF IInv, TablesNamed
  <2> QED BY <1>0, <2>2, <2>3 DEF IInv, TablesNamed
<1>5. DictsMatchColumns'
      BY Zenon, <1>0 DEF IInv, DictsMatchColumns, DictsOf
<1> QED BY Zenon, <1>2, <1>3, <1>4, <1>5 DEF IInv

\* Two calls do not both have the unique data_mutex_, nor one the unique and the other
\* the shared.
LEMMA DataExcludes ==
    ASSUME IInv, NEW t \in Threads, th[t].pc \in OwnsData, NEW u \in Threads \ {t}
    PROVE  th[u].pc \notin OwnsData /\ th[u].pc \notin SharesData
<1>1. <<data_mutex, "unique">> \in th[t].held
      BY Zenon DEF IInv, Locked
<1>2. \A mode : <<data_mutex, mode>> \notin th[u].held
      BY Zenon, <1>1 DEF IInv, Excluded, Clash
<1> QED BY Zenon, <1>2 DEF IInv, Locked

\* No other call uses the table that is dropped, and none is being created.
LEMMA DropExcludes ==
    ASSUME IInv, NEW t \in Threads, DropTable(t), NEW u \in Threads \ {t}
    PROVE  /\ th[u].pc # "create.emplace"
           /\ th[u].pc \in InUse => th[u].id # th[t].id
<1>1. th[t].pc = "drop.table" /\ CanOwn(t, TableMutex(th[t].id))
      BY Zenon DEF DropTable, At
<1>2. th[u].pc \notin OwnsData /\ th[u].pc \notin SharesData
      BY Zenon, <1>1, DataExcludes DEF OwnsData
<1>3. ASSUME th[u].pc \in OwnsTable \cup SharesTable, th[u].id = th[t].id PROVE FALSE
  <2>1. Holds(u, TableMutex(th[t].id), "unique") \/ Holds(u, TableMutex(th[t].id), "shared")
        BY Zenon, <1>3 DEF IInv, Locked, Holds
  <2> QED BY Zenon, <1>1, <2>1 DEF CanOwn
<1> QED BY Zenon, <1>2, <1>3 DEF InUse, OwnsData

\* Names and tables after a drop.
LEMMA DropNames ==
    ASSUME IInv, NEW id \in DOMAIN table_infos,
           by_name' = Drop(by_name, table_infos[id]), table_infos' = Drop(table_infos, id)
    PROVE  /\ DOMAIN table_infos' = DOMAIN table_infos \ {id}
           /\ DOMAIN by_name' = {table_infos'[i] : i \in DOMAIN table_infos'}
           /\ \A i \in DOMAIN table_infos' : by_name'[table_infos'[i]] = i
<1> DEFINE D == DOMAIN table_infos
<1>1. DOMAIN by_name = {table_infos[i] : i \in D} /\ \A i \in D : by_name[table_infos[i]] = i
      BY Zenon DEF IInv, TablesNamed
<1>2. /\ DOMAIN table_infos' = D \ {id} /\ \A i \in D \ {id} : table_infos'[i] = table_infos[i]
      /\ DOMAIN by_name' = DOMAIN by_name \ {table_infos[id]}
      /\ \A n \in DOMAIN by_name \ {table_infos[id]} : by_name'[n] = by_name[n]
      BY Zenon DEF Drop
<1>3. ASSUME NEW i \in D \ {id} PROVE table_infos[i] \in DOMAIN by_name \ {table_infos[id]}
      BY Zenon, <1>1
<1>4. ASSUME NEW n \in DOMAIN by_name \ {table_infos[id]}
      PROVE  \E i \in D \ {id} : table_infos[i] = n
      BY Zenon, <1>1
<1>5. \A i \in DOMAIN table_infos' : by_name'[table_infos'[i]] = i
      BY <1>1, <1>2, <1>3
<1>6. {table_infos'[i] : i \in DOMAIN table_infos'} = {table_infos[i] : i \in D \ {id}}
      BY Zenon, <1>2
<1>7. {table_infos[i] : i \in D \ {id}} = DOMAIN by_name \ {table_infos[id]}
      BY Zenon, <1>3, <1>4
<1> QED BY Zenon, <1>2, <1>5, <1>6, <1>7

\* Dictionaries after a drop: those of the table that no other table has are gone.
LEMMA DropDicts ==
    ASSUME IInv, NEW id \in DOMAIN columns,
           columns' = Drop(columns, id), dicts' = dicts \ DictsToRemove(id),
           array_dicts' = array_dicts
    PROVE  DictsMatchColumns'
<1> DEFINE D == DOMAIN columns \ {id}
           used == UNION {DictsOf(columns[i]) : i \in DOMAIN columns}
           left_over == UNION {DictsOf(columns[i]) : i \in D}
<1>1. used = DictsOf(columns[id]) \cup left_over
      BY Zenon
<1>2. DOMAIN columns' = D /\ \A i \in D : columns'[i] = columns[i]
      BY Zenon DEF Drop
<1>3. UNION {DictsOf(columns'[i]) : i \in DOMAIN columns'} = left_over
      BY Zenon, <1>2
<1>4. used \subseteq dicts /\ dicts \subseteq used \cup array_dicts
      BY Zenon DEF IInv, DictsMatchColumns
<1>5. dicts' = dicts \ (DictsOf(columns[id]) \ left_over)
      BY Zenon DEF DictsToRemove
<1> HIDE DEF used, left_over
<1>6. left_over \subseteq dicts' /\ dicts' \subseteq left_over \cup array_dicts
      BY Zenon, <1>1, <1>4, <1>5
<1>7. (UNION {DictsOf(columns[i]) : i \in DOMAIN columns})' = left_over
      BY Zenon, <1>3 DEF DictsOf
<1> QED BY Zenon, <1>6, <1>7 DEF DictsMatchColumns

\* The table goes, with its name and its own dictionaries.
LEMMA DropTableKeeps ==
    ASSUME IInv, NEW t \in Threads, DropTable(t)
    PROVE  IInv'
<1> DEFINE id == th[t].id
<1>0. /\ th[t].pc = "drop.table" /\ tables' = tables \ {id}
      /\ by_name' = Drop(by_name, table_infos[id]) /\ table_infos' = Drop(table_infos, id)
      /\ columns' = Drop(columns, id) /\ dicts' = dicts \ DictsToRemove(id)
      /\ th' = [th EXCEPT ![t] = Idle]
      /\ UNCHANGED <<next_table_id, next_dict_id, array_dicts>>
      BY Zenon DEF DropTable, At, Return
<1>1. id \in tables /\ id \in DOMAIN table_infos /\ id \in DOMAIN columns
      BY Zenon, <1>0 DEF IInv, Found, InUse, TablesNamed, Types
<1> HIDE DEF id
<1>2. \A u \in Threads \ {t} :
          /\ th[u].pc \in InUse => th[u].id \in tables'
          /\ th[u].pc = "create.emplace" => th[u].id \in DOMAIN table_infos'
      BY Zenon, <1>0, DropExcludes DEF IInv, Found, id
<1>3. /\ th' \in [Threads -> Calls]
      /\ Excluded'
      /\ \A u \in Threads : (Locked(th[u]) /\ Found(th[u]))'
      /\ th'[t] = Idle /\ \A u \in Threads \ {t} : th'[u] = th[u]
      BY ZenonT(30), <1>0, <1>2, IdleCall, CallsKeep
<1>4. /\ DOMAIN table_infos' = DOMAIN table_infos \ {id}
      /\ DOMAIN by_name' = {table_infos'[i] : i \in DOMAIN table_infos'}
      /\ \A i \in DOMAIN table_infos' : by_name'[table_infos'[i]] = i
      BY Zenon, <1>0, <1>1, DropNames
<1>5. DOMAIN columns' = DOMAIN columns \ {id}
      BY Zenon, <1>0 DEF Drop
<1>6. Types'
      BY Zenon, <1>0, <1>3, <1>4, <1>5 DEF IInv, Types, DictNumbers
<1>7. TablesNamed'
  <2>1. tables' \subseteq DOMAIN table_infos'
        BY Zenon, <1>0, <1>4 DEF IInv, TablesNamed
  <2>2. ASSUME NEW i \in DOMAIN table_infos' \ tables'
        PROVE  next_dict_id > MaxDictId
    <3>1. i \in DOMAIN table_infos \ tables
          BY Zenon, <1>0, <1>4
    <3>2. \A u \in Threads : th[u].pc # "create.emplace"
          BY Zenon, <1>0, DropExcludes
    <3> QED BY Zenon, <3>1, <3>2 DEF IInv, TablesNamed
  <2> QED BY Zenon, <1>0, <1>4, <2>1, <2>2 DEF TablesNamed
<1>8. DictsMatchColumns'
      BY Zenon, <1>0, <1>1, DropDicts
<1> QED BY Zenon, <1>3, <1>6, <1>7, <1>8 DEF IInv

\* Names and tables after a create, with a new id and a new name.
LEMMA AddNames ==
    ASSUME IInv, NEW id, id \notin DOMAIN table_infos, NEW name, name \notin DOMAIN by_name,
           by_name' = Put(by_name, name, id), table_infos' = Put(table_infos, id, name)
    PROVE  /\ DOMAIN table_infos' = DOMAIN table_infos \cup {id}
           /\ DOMAIN by_name' = {table_infos'[i] : i \in DOMAIN table_infos'}
           /\ \A i \in DOMAIN table_infos' : by_name'[table_infos'[i]] = i
<1> DEFINE D == DOMAIN table_infos
<1>1. DOMAIN by_name = {table_infos[i] : i \in D} /\ \A i \in D : by_name[table_infos[i]] = i
      BY Zenon DEF IInv, TablesNamed
<1>2. /\ DOMAIN table_infos' = D \cup {id} /\ table_infos'[id] = name
      /\ \A i \in D : table_infos'[i] = table_infos[i]
      /\ DOMAIN by_name' = DOMAIN by_name \cup {name} /\ by_name'[name] = id
      /\ \A n \in DOMAIN by_name : by_name'[n] = by_name[n]
      BY Zenon DEF Put
<1>3. \A i \in DOMAIN table_infos' : by_name'[table_infos'[i]] = i
      BY <1>1, <1>2
<1>4. {table_infos'[i] : i \in D \cup {id}} = {table_infos[i] : i \in D} \cup {name}
      BY <1>2
<1> QED BY Zenon, <1>1, <1>2, <1>3, <1>4

\* Dictionaries after a create.
LEMMA AddDicts ==
    ASSUME IInv, NEW id, id \notin DOMAIN columns, NEW res, Sound(res),
           columns' = Put(columns, id, res.cols), dicts' = dicts \cup res.new,
           array_dicts' = array_dicts \cup {c.dict : c \in {d \in Range(res.cols) : d.array}}
    PROVE  DictsMatchColumns'
<1> DEFINE D == DOMAIN columns
           used == UNION {DictsOf(columns[i]) : i \in D}
           arrays == {c.dict : c \in {d \in Range(res.cols) : d.array}}
<1>1. DOMAIN columns' = D \cup {id} /\ columns'[id] = res.cols /\ \A i \in D : columns'[i] = columns[i]
      BY Zenon DEF Put
<1>2. UNION {DictsOf(columns'[i]) : i \in D \cup {id}} = used \cup DictsOf(res.cols)
      BY <1>1
<1>3. (UNION {DictsOf(columns[i]) : i \in DOMAIN columns})' = used \cup DictsOf(res.cols)
      BY Zenon, <1>1, <1>2 DEF DictsOf
<1>4. used \subseteq dicts /\ dicts \subseteq used \cup array_dicts
      BY Zenon DEF IInv, DictsMatchColumns
<1>5. DictsOf(res.cols) \subseteq dicts \cup res.new
      BY Zenon DEF Sound, DictsOf
<1>6. res.new \subseteq DictsOf(res.cols) \cup arrays
  <2> SUFFICES ASSUME NEW d \in res.new PROVE d \in DictsOf(res.cols) \cup arrays
        BY Zenon
  <2>1. PICK c \in Range(res.cols) : c.dict = d
        BY Zenon DEF Sound
  <2>2. d # Plain
        BY DEF Sound, Plain, IInv, Types, DictNumbers
  <2> QED BY Zenon, <2>1, <2>2 DEF DictsOf
<1> HIDE DEF used, arrays
<1>7. /\ used \cup DictsOf(res.cols) \subseteq dicts'
      /\ dicts' \subseteq used \cup DictsOf(res.cols) \cup array_dicts'
      BY Zenon, <1>4, <1>5, <1>6 DEF arrays
<1> QED BY Zenon, <1>3, <1>7 DEF DictsMatchColumns

\* The columns of a createTable whose parameters are right are sound.
LEMMA CreateSound ==
    ASSUME IInv, NEW t \in Threads, ParamsOk(th[t].name, th[t].cols)
    PROVE  Sound(AddColumns(th[t].cols))
<1>1. th[t].cols \in Columns \cup {<<>>}
      BY Zenon DEF IInv, Types, Calls
<1>2. Columns \subseteq Seq(ColumnArgs)
      BY CatalogAssumption, Zenon DEF ColumnArgs
<1>3. <<>> \in Seq(ColumnArgs)
      OBVIOUS
<1>4. th[t].cols \in Seq(ColumnArgs)
      BY <1>1, <1>2, <1>3, Zenon
<1> QED BY Zenon, <1>4, AddColumnsSound DEF IInv, Types, ParamsOk

\* createTable without the table: only its id is used up.
LEMMA CreateRefused ==
    ASSUME IInv, NEW t \in Threads, AddToSchema(t), ~ParamsOk(th[t].name, th[t].cols)
    PROVE  IInv'
<1>0. /\ th[t].pc = "create.body" /\ th' = [th EXCEPT ![t] = Idle]
      /\ next_table_id' = next_table_id + 1
      /\ UNCHANGED <<tables, table_infos, by_name, columns, dicts, next_dict_id, array_dicts>>
      BY Zenon DEF AddToSchema, At, Return, schema
<1>1. /\ th' \in [Threads -> Calls]
      /\ Excluded'
      /\ \A u \in Threads : (Locked(th[u]) /\ Found(th[u]))'
      /\ th'[t] = Idle /\ \A u \in Threads \ {t} : th'[u] = th[u]
  <2>1. \A u \in Threads \ {t} :
            /\ th[u].pc \in InUse => th[u].id \in tables'
            /\ th[u].pc = "create.emplace" => th[u].id \in DOMAIN table_infos'
        BY Zenon, <1>0 DEF IInv, Found
  <2> QED BY Zenon, <1>0, <2>1, IdleCall, CallsKeep
<1>2. Types'
      BY <1>0, <1>1 DEF IInv, Types, DictNumbers
<1>3. TablesNamed'
      BY SMTT(30), <1>0, <1>1 DEF IInv, TablesNamed
<1>4. DictsMatchColumns'
      BY Zenon, <1>0 DEF IInv, DictsMatchColumns, DictsOf
<1> QED BY Zenon, <1>1, <1>2, <1>3, <1>4 DEF IInv

\* createTable adds its table, and goes on or throws.
LEMMA CreateAdds ==
    ASSUME IInv, NEW t \in Threads, AddToSchema(t), ParamsOk(th[t].name, th[t].cols)
    PROVE  IInv'
<1>1. PICK res : res = AddColumns(th[t].cols)
      BY Zenon
<1>2. PICK id : id = next_table_id
      BY Zenon
<1>3. Sound(res)
      BY Zenon, <1>1, CreateSound
<1>4. /\ th[t].pc = "create.body" /\ next_table_id' = id + 1 /\ tables' = tables
      /\ table_infos' = Put(table_infos, id, th[t].name) /\ by_name' = Put(by_name, th[t].name, id)
      /\ columns' = Put(columns, id, res.cols) /\ dicts' = dicts \cup res.new
      /\ next_dict_id' = res.next
      /\ array_dicts' = array_dicts \cup {c.dict : c \in {d \in Range(res.cols) : d.array}}
      BY Zenon, <1>1, <1>2 DEF AddToSchema, At
<1>5. id \in Nat \ {0} /\ id \notin DOMAIN table_infos /\ id \notin DOMAIN columns
      BY <1>2 DEF IInv, Types
<1>6. /\ DOMAIN table_infos' = DOMAIN table_infos \cup {id}
      /\ DOMAIN by_name' = {table_infos'[i] : i \in DOMAIN table_infos'}
      /\ \A i \in DOMAIN table_infos' : by_name'[table_infos'[i]] = i
      BY Zenon, <1>4, <1>5, AddNames DEF ParamsOk
<1>7. DOMAIN columns' = DOMAIN columns \cup {id}
      BY Zenon, <1>4 DEF Put
<1>8. DictNumbers' /\ next_dict_id' >= next_dict_id /\ next_dict_id \in Int /\ MaxDictId \in Nat
  <2>1. MaxDictId \in Nat /\ next_dict_id \in 1..MaxDictId + 1 /\ dicts \subseteq 1..MaxDictId
        BY Zenon, CatalogAssumption DEF IInv, Types, DictNumbers
  <2>2. res.next \in next_dict_id..MaxDictId + 1 /\ res.new = next_dict_id..res.next - 1
        BY Zenon, <1>3 DEF Sound
  <2>3. res.new \subseteq 1..MaxDictId /\ res.next \in 1..MaxDictId + 1 /\ res.next >= next_dict_id
        BY <2>1, <2>2
  <2>4. dicts' \subseteq 1..MaxDictId /\ next_dict_id' \in 1..MaxDictId + 1
        BY Zenon, <1>4, <2>1, <2>3
  <2>5. DictNumbers'
        BY Zenon, <2>4 DEF DictNumbers
  <2> QED BY <1>4, <2>1, <2>3, <2>5
<1>9. /\ th' \in [Threads -> Calls]
      /\ Excluded'
      /\ \A u \in Threads : (Locked(th[u]) /\ Found(th[u]))'
      /\ \A u \in Threads \ {t} : th'[u] = th[u]
      /\ res.thrown \/ (th'[t].pc = "create.emplace" /\ th'[t].id = id)
  <2>1. \A u \in Threads \ {t} :
            /\ th[u].pc \in InUse => th[u].id \in tables'
            /\ th[u].pc = "create.emplace" => th[u].id \in DOMAIN table_infos'
        BY Zenon, <1>4, <1>6 DEF IInv, Found
  <2>2. CASE res.thrown
    <3>1. th' = [th EXCEPT ![t] = Idle]
          BY Zenon, <1>1, <2>2 DEF AddToSchema, Return
    <3> QED BY Zenon, <2>1, <2>2, <3>1, IdleCall, CallsKeep
  <2>3. CASE ~res.thrown
    <3>1. th' = [th EXCEPT ![t].pc = "create.emplace", ![t].id = id,
                           ![t].held = {<<data_mutex, "unique">>}]
          BY Zenon, <1>1, <1>2, <2>3 DEF AddToSchema
    <3>2. th[t] \in Calls /\ th \in [Threads -> Calls]
          BY Zenon DEF IInv, Types
    <3>3. PICK held \in SUBSET (Mutexes \X Modes) : held = {<<data_mutex, "unique">>}
      <4>1. <<data_mutex, "unique">> \in Mutexes \X Modes
            BY Zenon, MutexesAre DEF Modes
      <4> QED BY <4>1, Zenon
    <3>4. "create.emplace" \in Places /\ id \in Nat
          BY Zenon, <1>5 DEF Places
    <3>5. PICK c : c = [th[t] EXCEPT !.pc = "create.emplace", !.id = id, !.held = held]
          BY Zenon
    <3>6. c \in Calls /\ c.pc = "create.emplace" /\ c.id = id /\ c.held = held
          BY Zenon, <3>2, <3>4, <3>5 DEF Calls
    <3>7. th' = [th EXCEPT ![t] = c]
          BY Zenon, <3>1, <3>2, <3>3, <3>5 DEF Calls
    <3>8. Locked(c) /\ Found(c)'
          BY Zenon, <1>6, <3>3, <3>6
          DEF Locked, Found, OwnsData, SharesData, OwnsTable, SharesTable, InUse
    <3>9. held \subseteq th[t].held
          BY Zenon, <1>4, <3>3 DEF IInv, Locked, OwnsData
    <3>10. \A u \in Threads \ {t} : ~Clash(c.held, th[u].held)
          BY Zenon, <3>6, <3>9 DEF IInv, Excluded, Clash
    <3>11. /\ th' \in [Threads -> Calls]
           /\ Excluded'
           /\ \A u \in Threads : (Locked(th[u]) /\ Found(th[u]))'
           /\ th'[t] = c /\ \A u \in Threads \ {t} : th'[u] = th[u]
          BY Zenon, <2>1, <3>6, <3>7, <3>8, <3>10, CallsKeep
    <3> QED BY Zenon, <3>6, <3>11
  <2> QED BY Zenon, <2>2, <2>3
<1>10. Types'
  <2>1. DOMAIN table_infos \subseteq 1..id - 1 /\ DOMAIN columns = DOMAIN table_infos
        BY Zenon, <1>2 DEF IInv, Types
  <2>2. next_table_id' \in Nat \ {0} /\ DOMAIN table_infos' \subseteq 1..next_table_id' - 1
        BY <1>4, <1>5, <1>6, <2>1
  <2> QED BY Zenon, <1>6, <1>7, <1>8, <1>9, <2>1, <2>2 DEF Types
<1>11. TablesNamed'
  <2>1. tables' \subseteq DOMAIN table_infos'
        BY Zenon, <1>4, <1>6 DEF IInv, TablesNamed
  <2>2. ASSUME NEW i \in DOMAIN table_infos' \ tables'
        PROVE  \/ next_dict_id' > MaxDictId
               \/ \E u \in Threads : th'[u].pc = "create.emplace" /\ th'[u].id = i
    <3>1. CASE i = id
      <4>1. CASE res.thrown
            BY Zenon, <1>3, <1>4, <4>1 DEF Sound
      <4>2. CASE ~res.thrown
            BY Zenon, <1>9, <3>1, <4>2
      <4> QED BY Zenon, <4>1, <4>2
    <3>2. CASE i # id
      <4>1. i \in DOMAIN table_infos \ tables
            BY Zenon, <1>4, <1>6, <3>2
      <4>2. next_dict_id > MaxDictId => next_dict_id' > MaxDictId
            BY SMTT(30), <1>8 DEF DictNumbers
      <4>3. \A u \in Threads : th[u].pc = "create.emplace" => th'[u] = th[u]
            BY Zenon, <1>4, <1>9
      <4> QED BY Zenon, <4>1, <4>2, <4>3 DEF IInv, TablesNamed
    <3> QED BY Zenon, <3>1, <3>2
  <2> QED BY Zenon, <1>6, <2>1, <2>2 DEF TablesNamed
<1>12. DictsMatchColumns'
      BY Zenon, <1>3, <1>4, <1>5, AddDicts
<1> QED BY Zenon, <1>9, <1>10, <1>11, <1>12 DEF IInv

-----------------------------------------------------------------------------
\* An empty catalog.
LEMMA InitHolds == Init => IInv
<1> SUFFICES ASSUME Init PROVE IInv
      BY Zenon
<1>1. MaxDictId \in Nat
      BY Zenon, CatalogAssumption
<1>2. th = [t \in Threads |-> Idle] /\ \A t \in Threads : th[t] = Idle
      BY Zenon DEF Init
<1>3. DOMAIN table_infos = {} /\ DOMAIN by_name = {} /\ DOMAIN columns = {}
      BY Zenon DEF Init, Empty
<1>4. Types
      BY <1>1, <1>2, <1>3, IdleCall DEF Init, Types, DictNumbers
<1>5. Excluded
      BY Zenon, <1>2, IdleCall DEF Excluded
<1>6. \A t \in Threads : Locked(th[t]) /\ Found(th[t])
      BY Zenon, <1>2, IdleCall
<1>7. TablesNamed
      BY Zenon, <1>3 DEF Init, TablesNamed
<1>8. DictsMatchColumns
      BY Zenon, <1>3 DEF Init, DictsMatchColumns
<1> QED BY Zenon, <1>4, <1>5, <1>6, <1>7, <1>8 DEF IInv

\* Every call begins well.
LEMMA CallsBegin ==
    ASSUME IInv, NEW t \in Threads
    PROVE  /\ \A name \in Names, cols \in Columns : CallCreate(t, name, cols) => IInv'
           /\ \A name \in Names, pc \in {"drop.find", "append.find"} : CallByName(t, pc, name) => IInv'
           /\ \A id \in 1..next_table_id - 1 : CallById(t, "fetch", id) => IInv'
<1>1. ASSUME NEW name \in Names, NEW cols \in Columns, CallCreate(t, name, cols) PROVE IInv'
  <2>1. PICK c : c = [Idle EXCEPT !.pc = "create", !.name = name, !.cols = cols]
        BY Zenon
  <2>2. c \in Calls /\ c.held = {} /\ c.pc = "create"
        BY Zenon, <2>1 DEF Idle, Calls, Places
  <2> QED BY Zenon, <1>1, <2>1, <2>2, CallKeeps DEF CallCreate
<1>2. ASSUME NEW name \in Names, NEW pc \in {"drop.find", "append.find"}, CallByName(t, pc, name)
      PROVE IInv'
  <2>1. PICK c : c = [Idle EXCEPT !.pc = pc, !.name = name]
        BY Zenon
  <2>2. c \in Calls /\ c.held = {} /\ c.pc = pc
        BY Zenon, <2>1 DEF Idle, Calls, Places
  <2> QED BY Zenon, <1>2, <2>1, <2>2, CallKeeps DEF CallByName
<1>3. ASSUME NEW id \in 1..next_table_id - 1, CallById(t, "fetch", id) PROVE IInv'
  <2>1. PICK c : c = [Idle EXCEPT !.pc = "fetch", !.id = id]
        BY Zenon
  <2>2. id \in Nat
        BY DEF IInv, Types
  <2>3. c \in Calls /\ c.held = {} /\ c.pc = "fetch"
        BY Zenon, <2>1, <2>2 DEF Idle, Calls, Places
  <2> QED BY Zenon, <1>3, <2>1, <2>3, CallKeeps DEF CallById
<1> QED BY Zenon, <1>1, <1>2, <1>3

\* Every step of a call keeps the invariant.
LEMMA StepKeeps ==
    ASSUME IInv, NEW t \in Threads, Step(t)
    PROVE  IInv'
<1>1. CASE \/ OwnData(t, "create", "create.dict") \/ OwnData(t, "drop", "drop.dict")
  <2>1. PICK from \in {"create", "drop"}, to \in {"create.dict", "drop.dict"} : OwnData(t, from, to)
        BY Zenon, <1>1
  <2>2. from \in Places /\ to \in Places /\ to \in OwnsData \ {"create.emplace", "drop.table"}
        BY Zenon DEF Places, OwnsData
  <2> QED BY Zenon, <2>1, <2>2, OwnKeeps, MutexesAre DEF OwnData
<1>2. CASE OwnDict(t, "create.dict", "create.schema") \/ OwnDict(t, "drop.dict", "drop.schema")
  <2>1. PICK from \in {"create.dict", "drop.dict"}, to \in {"create.schema", "drop.schema"} :
            OwnDict(t, from, to)
        BY Zenon, <1>2
  <2>2. /\ from \in Places /\ from \in OwnsData
        /\ to \in Places /\ to \in OwnsData \ {"create.emplace", "drop.table"}
        BY Zenon DEF Places, OwnsData
  <2> QED BY Zenon, <2>1, <2>2, OwnKeeps, MutexesAre DEF OwnDict
<1>3. CASE OwnSchema(t, "create.schema", "create.body") \/ OwnSchema(t, "drop.schema", "drop.lookup")
  <2>1. PICK from \in {"create.schema", "drop.schema"}, to \in {"create.body", "drop.lookup"} :
            OwnSchema(t, from, to)
        BY Zenon, <1>3
  <2>2. /\ from \in Places /\ from \in OwnsData
        /\ to \in Places /\ to \in OwnsData \ {"create.emplace", "drop.table"}
        BY Zenon DEF Places, OwnsData
  <2> QED BY Zenon, <2>1, <2>2, OwnKeeps, MutexesAre DEF OwnSchema
<1>4. CASE FindTable(t, "drop.find", "drop") \/ FindTable(t, "append.find", "append")
      BY Zenon, <1>4, FindTableKeeps DEF Places
<1>5. CASE ShareData(t, "append", "append.table") \/ ShareData(t, "fetch", "fetch.table")
      BY Zenon, <1>5, ShareDataKeeps DEF Places, SharesData
<1>6. CASE CommitAppend(t) \/ FetchColumn(t)
      BY Zenon, <1>6, ReturnKeeps DEF CommitAppend, FetchColumn, At
<1>7. CASE AddToSchema(t)
      BY Zenon, <1>7, CreateRefused, CreateAdds
<1> QED BY Zenon, <1>1, <1>2, <1>3, <1>4, <1>5, <1>6, <1>7, EmplaceTableKeeps, DropLookupKeeps,
           DropTableKeeps, OwnTableKeeps, ShareTableKeeps, ShareDictKeeps, ImportColumnsKeeps
        DEF Step

\* Every step keeps the invariant.
LEMMA NextKeeps == IInv /\ [Next]_vars => IInv'
<1> SUFFICES ASSUME IInv, [Next]_vars PROVE IInv'
      BY Zenon
<1>1. CASE UNCHANGED vars
  <2>1. UNCHANGED <<tables, table_infos, by_name, columns, dicts, next_table_id, next_dict_id,
                    array_dicts, th>>
        BY Zenon, <1>1 DEF vars, catalog, schema
  <2>2. Types'
        BY Zenon, <2>1 DEF IInv, Types, DictNumbers
  <2>3. Excluded'
        BY Zenon, <2>1 DEF IInv, Excluded, Clash
  <2>4. \A t \in Threads : (Locked(th[t]) /\ Found(th[t]))'
        BY Zenon, <2>1 DEF IInv, Locked, Found
  <2>5. TablesNamed'
        BY SMTT(30), <2>1 DEF IInv, TablesNamed
  <2>6. DictsMatchColumns'
        BY Zenon, <2>1 DEF IInv, DictsMatchColumns, DictsOf
  <2> QED BY Zenon, <2>2, <2>3, <2>4, <2>5, <2>6 DEF IInv
<1>2. CASE Next
      BY Zenon, <1>2, CallsBegin, StepKeeps DEF Next
<1> QED BY Zenon, <1>1, <1>2

\* The inductive invariant holds.
LEMMA AlwaysIInv == Spec => []IInv
  BY InitHolds, NextKeeps, PTL DEF Spec

\* TypeOK at all times: the mutexes exclude each other, and numbers of dictionaries
\* stay within the limit, also when they run out in the middle of a table
\* (ArrowStorage::createTable).
THEOREM CatalogTyped == Spec => []TypeOK
<1>1. IInv => TypeOK
  <2> SUFFICES ASSUME IInv PROVE TypeOK
        BY Zenon
  <2>1. tables \subseteq 1..next_table_id - 1 /\ DOMAIN table_infos = DOMAIN columns
        BY Zenon DEF IInv, Types, TablesNamed
  <2>2. ASSUME NEW t \in Threads, NEW u \in Threads, NEW h \in th[t].held, h[2] = "unique", u # t,
               NEW g \in th[u].held
        PROVE  g[1] # h[1]
        BY Zenon, <2>2 DEF IInv, Excluded, Clash
  <2> QED BY Zenon, <2>1, <2>2 DEF IInv, Types, DictNumbers, TypeOK
<1> QED BY <1>1, AlwaysIInv, PTL

\* Names and tables stay inverse to each other, whatever the order of creates and drops
\* (SimpleSchemaProvider's table_index_by_name_, ArrowStorage's tables_).
THEOREM TablesStayNamed == Spec => []TablesNamed
  BY AlwaysIInv, PTL DEF IInv

\* A drop takes away exactly the dictionaries no other table has (dropTable).
THEOREM DictsStayMatched == Spec => []DictsMatchColumns
  BY AlwaysIInv, PTL DEF IInv

\* No table is dropped under a call that has found it (dropTable and the locks of
\* appendArrowTable and fetchBuffer).
THEOREM NoDropInUse == Spec => []TablesInUseStay
<1>1. IInv => TablesInUseStay
      BY Zenon DEF IInv, Types, Found, TablesNamed, TablesInUseStay
<1> QED BY <1>1, AlwaysIInv, PTL
=============================================================================

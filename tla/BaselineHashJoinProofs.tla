----------------------- MODULE BaselineHashJoinProofs -----------------------
(***************************************************************************)
(* Proofs about BaselineHashJoin, for any number of threads, rows and keys *)
(* and any hash function.                                                  *)
(*                                                                         *)
(* A key goes into the first slot of its probe sequence that is empty, and *)
(* a published slot never changes.  So every slot a thread has passed is   *)
(* published with another key and stays so (Passed); when the thread       *)
(* publishes its own key, the slots before it in the probe sequence hold   *)
(* other keys (Chain), and a key cannot be in two slots.  The spin loop is *)
(* what makes Passed true of a slot that was claimed but not published.    *)
(***************************************************************************)
EXTENDS BaselineHashJoin, TLAPS

\* No key starts with the value that marks an empty slot.
NoMaxKey == \A k \in Keys : k[1] # empty_key

Working(t) == pc[t] \notin {"probe", "end"}
Owns(t) == pc[t] \in {"copy", "publish"}
IsPublished(s) == lead[s] # empty_key /\ lead[s] # write_pending

\* The j-th slot of the probe sequence of k belongs to another key for good.
IsOther(k, j) == IsPublished(At(k, j)) /\ ~Holds(At(k, j), k)

\* Row r is not a row for the table, or its key is in the table.
Filed(r) ==
    column[r] = Skipped \/ (column[r][1] # write_pending /\ Matching(column[r]) # {})

\* Thread t will come to row r.
Reaches(t, r) == \E n \in Nat : r = row[t] + n * ThreadCount

\* A thread in the middle of a row has a row and a slot, and is filling.
WorkersFill ==
    \A t \in Threads : Working(t) =>
        phase = "fill" /\ HasRow(t) /\ off[t] \in Slots /\ Key(t)[1] # write_pending

TableSized == phase = "reify" \/ NumElems = 0 \/ entry_count > 0

OffsetsBounded == phase = "fill" => \A t \in Threads : off[t] = 0 \/ off[t] < entry_count

\* The claimed slots are the slots of the threads that write them.
ClaimsOwned ==
    /\ \A s \in Slots : lead[s] = write_pending =>
           \E t \in Threads : Owns(t) /\ Slot(t) = s
    /\ \A t \in Threads : Owns(t) => lead[Slot(t)] = write_pending
    /\ \A t, u \in Threads : Owns(t) /\ Owns(u) /\ Slot(t) = Slot(u) => t = u

RestCopied == \A t \in Threads : pc[t] = "publish" => rest[Slot(t)] = Key(t)[2]

\* What a thread that lost the race knows of its slot.
SlotSeen ==
    \A t \in Threads :
        /\ pc[t] = "spin" => lead[Slot(t)] # empty_key
        /\ pc[t] = "lead" => IsPublished(Slot(t))
        /\ pc[t] = "rest" => lead[Slot(t)] = Key(t)[1]
        /\ pc[t] = "value" => Holds(Slot(t), Key(t))

Chain ==
    \A k \in Keys, s \in Slots : k[1] # write_pending /\ Holds(s, k) =>
        \E i \in Slots : s = At(k, i) /\ \A j \in 0 .. i - 1 : IsOther(k, j)

Passed ==
    phase = "fill" => \A t \in Threads :
        pc[t] # "end" /\ HasRow(t) /\ Key(t)[1] # write_pending =>
            \A j \in 0 .. off[t] - 1 : IsOther(Key(t), j)

\* Every row is filed, or a thread has still to come to it or has failed.
RowsCovered ==
    /\ phase = "fill" => \A r \in Rows :
           Filed(r) \/ \E t \in Threads : (pc[t] # "end" \/ err[t] # 0) /\ Reaches(t, r)
    /\ phase \in {"count", "ids"} => \A r \in Rows : Filed(r)

IInv ==
    /\ TypeOK
    /\ WorkersFill /\ TableSized /\ OffsetsBounded
    /\ ClaimsOwned /\ RestCopied /\ SlotSeen
    /\ Chain /\ Passed
    /\ RowsCovered
    /\ KeysFound

\* Published slots stay as they are, and no slot becomes empty.
TableGrows ==
    /\ \A s \in Slots : IsPublished(s) => lead'[s] = lead[s] /\ rest'[s] = rest[s]
    /\ \A s \in Slots : lead[s] # empty_key => lead'[s] # empty_key
-----------------------------------------------------------------------------
\* A probe stays within the table.
LEMMA AtInSlots ==
    ASSUME NEW k \in Keys, NEW i \in Nat, entry_count \in Nat, entry_count > 0
    PROVE  At(k, i) \in Slots
BY MurmurAssumption DEF At, Slots

\* A key is its two components.
LEMMA KeyParts ==
    ASSUME NEW k \in Keys, NEW m \in Keys, k[1] = m[1], k[2] = m[2]
    PROVE  k = m
BY KeysAssumption

\* A key in the table twice would be before itself in its probe sequence.
LEMMA ChainGivesOneSlot ==
    ASSUME Chain, entry_count \in Nat
    PROVE  OneSlotPerKey
<1> SUFFICES ASSUME NEW k \in Keys, NEW s \in Slots, NEW u \in Slots,
                    k[1] # write_pending, Holds(s, k), Holds(u, k)
             PROVE  s = u
    BY Zenon DEF OneSlotPerKey
<1>1. PICK i \in Slots : s = At(k, i) /\ \A j \in 0 .. i - 1 : IsOther(k, j)
      BY Zenon DEF Chain
<1>2. PICK m \in Slots : u = At(k, m) /\ \A j \in 0 .. m - 1 : IsOther(k, j)
      BY Zenon DEF Chain
<1>3. ~(i < m) /\ ~(m < i)
      BY <1>1, <1>2 DEF IsOther, Slots
<1> QED BY <1>1, <1>2, <1>3 DEF Slots

\* A row of a thread is a row of the table, and its key is a key.
LEMMA RowHasKey ==
    ASSUME TypeOK, NEW t \in Threads, HasRow(t)
    PROVE  row[t] \in Rows /\ Key(t) \in Keys
BY ElemsAssumption DEF TypeOK, HasRow, Key, Rows

\* A key is not the mark of an empty slot.
LEMMA KeyNotEmpty ==
    ASSUME NoMaxKey, NEW k \in Keys
    PROVE  k[1] # empty_key
BY Zenon DEF NoMaxKey

\* A slot of another key stays one.
LEMMA OtherStays ==
    ASSUME TypeOK, TableGrows, UNCHANGED table, NEW k \in Keys, NEW j \in Nat,
           entry_count > 0, IsOther(k, j)
    PROVE  IsOther(k, j)'
<1>1. At(k, j) \in Slots
      BY Zenon, AtInSlots DEF TypeOK
<1>2. At(k, j)' = At(k, j)
      BY Zenon DEF At, table
<1>3. lead'[At(k, j)] = lead[At(k, j)] /\ rest'[At(k, j)] = rest[At(k, j)]
      BY Zenon, <1>1 DEF TableGrows, IsOther
<1> QED BY Zenon, <1>2, <1>3 DEF IsOther, IsPublished, Holds

\* A published key stays where it is.
LEMMA HeldStays ==
    ASSUME NoMaxKey, TypeOK, TableGrows, UNCHANGED table, NEW k \in Keys,
           NEW s \in Slots, k[1] # write_pending, Holds(s, k)
    PROVE  Holds(s, k)'
<1>1. IsPublished(s)
      BY Zenon, KeyNotEmpty DEF Holds, IsPublished
<1> QED BY Zenon, <1>1 DEF TableGrows, Holds

\* A filed row stays filed.
LEMMA FiledStays ==
    ASSUME NoMaxKey, TypeOK, TableGrows, UNCHANGED <<input, table>>, NEW r \in Rows, Filed(r)
    PROVE  Filed(r)'
<1>1. CASE column[r] = Skipped
      BY Zenon, <1>1 DEF Filed, input
<1>2. CASE column[r] # Skipped
  <2>1. column[r] \in Keys /\ column[r][1] # write_pending
        BY Zenon, <1>2 DEF Filed, TypeOK
  <2>2. PICK i \in Slots : Holds(At(column[r], i), column[r])
        BY Zenon, <1>2 DEF Filed, Matching
  <2>. entry_count > 0 /\ i \in Nat
       BY DEF TypeOK, Slots
  <2>3. At(column[r], i) \in Slots
        BY Zenon, <2>1, AtInSlots DEF TypeOK
  <2>4. Holds(At(column[r], i), column[r])'
        BY Zenon, <2>1, <2>2, <2>3, HeldStays DEF At, input, table, Holds
  <2>5. i \in Slots'
        BY Zenon DEF Slots, table
  <2> QED BY Zenon, <2>1, <2>4, <2>5 DEF Filed, Matching, input
<1> QED BY Zenon, <1>1, <1>2

\* What a thread knows of its slot stays true while other threads work.
LEMMA SeenStays ==
    ASSUME NoMaxKey, IInv, TableGrows, UNCHANGED <<input, table>>, NEW u \in Threads,
           Working(u), pc'[u] = pc[u], row'[u] = row[u], off'[u] = off[u]
    PROVE  /\ pc[u] = "spin" => lead'[Slot(u)] # empty_key
           /\ pc[u] = "lead" => lead'[Slot(u)] = lead[Slot(u)]
           /\ pc[u] \in {"rest", "value"} =>
                 lead'[Slot(u)] = lead[Slot(u)] /\ rest'[Slot(u)] = rest[Slot(u)]
           /\ Slot(u)' = Slot(u) /\ Key(u)' = Key(u)
<1>1. HasRow(u) /\ off[u] \in Slots /\ Key(u)[1] # write_pending
      BY Zenon DEF IInv, WorkersFill
<1>2. Key(u) \in Keys
      BY Zenon, <1>1, RowHasKey DEF IInv
<1>3. Slot(u) \in Slots
      BY <1>1, <1>2, AtInSlots DEF IInv, TypeOK, Slots, Slot
<1>4. Key(u)' = Key(u) /\ Slot(u)' = Slot(u)
      BY Zenon DEF Key, Slot, At, input, table
<1>5. Key(u)[1] # empty_key
      BY Zenon, <1>2, KeyNotEmpty
<1>6. pc[u] \in {"rest", "value"} => IsPublished(Slot(u))
      BY Zenon, <1>1, <1>5 DEF IInv, SlotSeen, IsPublished, Holds
<1>7. pc[u] = "lead" => IsPublished(Slot(u))
      BY Zenon DEF IInv, SlotSeen
<1>8. pc[u] = "spin" => lead[Slot(u)] # empty_key
      BY Zenon DEF IInv, SlotSeen
<1> QED BY Zenon, <1>3, <1>4, <1>6, <1>7, <1>8 DEF TableGrows

\* A move of a thread while the table fills.
Move(t) ==
    \/ NextRow(t) /\ \A r \in Rows : r = row[t] => Filed(r)'
    \/ EndWith(t, 0) /\ row[t] >= NumElems
    \/ EndWith(t, -1)
    \/ /\ NextSlot(t) /\ HasRow(t)
       /\ Key(t)[1] # write_pending => IsOther(Key(t), off[t])
    \/ \E l \in Labels \ {"end"} : GoTo(t, l)

\* A thread that moves on from a row has filed it; one that moves on to the
\* next slot has seen another key.
LEMMA MoveKeeps ==
    ASSUME NoMaxKey, IInv, TableGrows, UNCHANGED <<input, table, phase>>,
           phase = "fill", NEW t \in Threads, pc[t] # "end",
           Move(t)
    PROVE  TableSized' /\ OffsetsBounded' /\ Passed' /\ RowsCovered'
<1> USE DEF IInv
<1>t. /\ pc \in [Threads -> Labels] /\ row \in [Threads -> Nat] /\ off \in [Threads -> Nat]
      /\ err \in [Threads -> Int] /\ entry_count \in Nat
      BY DEF TypeOK
<1>k. \A u \in Threads \ {t} :
         pc'[u] = pc[u] /\ row'[u] = row[u] /\ off'[u] = off[u] /\ err'[u] = err[u]
      BY Zenon, <1>t DEF Move, NextRow, EndWith, NextSlot, GoTo
<1>s. entry_count' = entry_count /\ column' = column /\ Slots' = Slots /\ phase' = phase
      BY Zenon DEF input, table, Slots
<1>1. TableSized'
      BY Zenon, <1>s DEF TableSized
<1>2. OffsetsBounded'
  <2>1. off'[t] = 0 \/ off'[t] < entry_count
        BY Zenon, <1>t DEF Move, NextRow, EndWith, NextSlot, GoTo, OffsetsBounded
  <2> QED BY Zenon, <2>1, <1>k, <1>s DEF OffsetsBounded
<1>3. Passed'
  <2> SUFFICES ASSUME NEW u \in Threads, pc'[u] # "end", HasRow(u)',
                      Key(u)'[1] # write_pending, NEW j \in 0 .. off'[u] - 1
               PROVE  IsOther(Key(u), j)'
      BY Zenon DEF Passed
  <2>1. CASE u # t
    <3>1. HasRow(u) /\ Key(u)' = Key(u) /\ pc[u] # "end" /\ j \in 0 .. off[u] - 1
          BY Zenon, <2>1, <1>k, <1>s DEF HasRow, Key
    <3>2. IsOther(Key(u), j)
          BY Zenon, <3>1 DEF Passed
    <3>3. PICK k \in Keys : k = Key(u)
          BY Zenon, <3>1, RowHasKey
    <3>4. entry_count > 0
          BY <3>1, <1>t DEF OffsetsBounded
    <3>5. IsOther(k, j)'
          BY <3>2, <3>3, <3>4, OtherStays
    <3> QED BY Zenon, <3>1, <3>3, <3>5 DEF IsOther, IsPublished, Holds, At
  <2>2. CASE u = t
    <3>1. CASE NextRow(t)
          BY <3>1, <2>2, <1>t DEF NextRow
    <3>2. CASE \E e \in {0, -1} : EndWith(t, e)
          BY Zenon, <3>2, <2>2, <1>t DEF EndWith
    <3>3. CASE \/ /\ NextSlot(t)
                  /\ Key(t)[1] # write_pending => IsOther(Key(t), off[t])
               \/ \E l \in Labels \ {"end"} : GoTo(t, l)
      <4>1. /\ row'[t] = row[t]
            /\ \/ off'[t] = off[t]
               \/ off'[t] = off[t] + 1 /\ (Key(t)[1] # write_pending => IsOther(Key(t), off[t]))
            BY Zenon, <3>3, <1>t, <2>2 DEF NextSlot, EndWith, GoTo
      <4>2. HasRow(t) /\ Key(t)' = Key(t)
            BY Zenon, <4>1, <2>2, <1>s DEF HasRow, Key
      <4>3. PICK k \in Keys : k = Key(t)
            BY Zenon, <4>2, RowHasKey
      <4>4. IsOther(Key(t), j)
        <5>1. \A m \in 0 .. off[t] - 1 : IsOther(Key(t), m)
              BY Zenon, <4>2, <2>2 DEF Passed
        <5>2. off[t] \in Nat /\ (j \in 0 .. off[t] - 1 \/ j = off[t])
              BY <4>1, <2>2, <1>t
        <5>3. j = off[t] => IsOther(Key(t), off[t])
              BY <4>1, <4>2, <2>2, <1>t
        <5> QED BY Zenon, <5>1, <5>2, <5>3
      <4>5. entry_count > 0
            BY <2>2, <1>2, <1>t, <1>s, <4>1 DEF OffsetsBounded
      <4>6. IsOther(k, j)'
            BY <4>3, <4>4, <4>5, OtherStays
      <4> QED BY Zenon, <4>2, <4>3, <4>6, <2>2 DEF IsOther, IsPublished, Holds, At
    <3> QED BY Zenon, <3>1, <3>2, <3>3 DEF Move
  <2> QED BY Zenon, <2>1, <2>2
<1>4. RowsCovered'
  <2> SUFFICES ASSUME NEW r \in Rows
               PROVE  Filed(r)' \/ \E u \in Threads : (pc'[u] # "end" \/ err'[u] # 0) /\ Reaches(u, r)'
      BY Zenon, <1>s DEF RowsCovered, Rows
  <2>1. CASE Filed(r)
        BY Zenon, <2>1, FiledStays
  <2>2. ASSUME NEW u \in Threads, pc[u] # "end" \/ err[u] # 0, Reaches(u, r)
        PROVE  Filed(r)' \/ \E v \in Threads : (pc'[v] # "end" \/ err'[v] # 0) /\ Reaches(v, r)'
    <3>1. CASE u # t
          BY Zenon, <3>1, <2>2, <1>k DEF Reaches
    <3>2. CASE u = t /\ NextRow(t) /\ \A m \in Rows : m = row[t] => Filed(m)'
      <4>1. PICK n \in Nat : r = row[t] + n * ThreadCount
            BY Zenon, <3>2, <2>2 DEF Reaches
      <4>2. CASE n = 0
            BY <4>1, <4>2, <3>2, <1>t, ThreadsAssumption
      <4>3. CASE n # 0
        <5>1. n - 1 \in Nat /\ r = (row[t] + ThreadCount) + (n - 1) * ThreadCount
              BY <4>1, <4>3, <1>t, ThreadsAssumption
        <5>2. row'[t] = row[t] + ThreadCount /\ pc'[t] # "end"
              BY Zenon, <3>2, <1>t DEF NextRow
        <5> QED BY Zenon, <5>1, <5>2 DEF Reaches
      <4> QED BY Zenon, <4>2, <4>3
    <3>3. CASE u = t /\ EndWith(t, 0) /\ row[t] >= NumElems
      <4>1. PICK n \in Nat : r = row[t] + n * ThreadCount
            BY Zenon, <3>3, <2>2 DEF Reaches
      <4>2. n * ThreadCount >= 0
            BY ThreadsAssumption
      <4> QED BY <4>1, <4>2, <3>3, <1>t, ElemsAssumption, ThreadsAssumption DEF Rows
    <3>4. CASE u = t /\ row'[t] = row[t] /\ (pc'[t] # "end" \/ err'[t] # 0)
          BY Zenon, <3>4, <2>2 DEF Reaches
    <3> QED BY <3>1, <3>2, <3>3, <3>4, <1>t DEF Move, NextSlot, EndWith, GoTo
  <2> QED BY Zenon, <2>1, <2>2 DEF RowsCovered
<1> QED BY Zenon, <1>1, <1>2, <1>3, <1>4

\* Nothing moves but thread t.
OnlyMoves(t) ==
    /\ column' = column /\ entry_count' = entry_count /\ phase' = phase
    /\ lead' = lead /\ rest' = rest
    /\ \A u \in Threads \ {t} : pc'[u] = pc[u] /\ row'[u] = row[u] /\ off'[u] = off[u]

\* Thread t comes to a step on its slot, with what it must know there.
Arrives(t) ==
    /\ ~Owns(t)'
    /\ Working(t)' => /\ phase = "fill" /\ HasRow(t)' /\ off'[t] \in Slots
                      /\ Key(t)'[1] # write_pending
    /\ pc'[t] = "spin" => lead[Slot(t)'] # empty_key
    /\ pc'[t] = "lead" => IsPublished(Slot(t))'
    /\ pc'[t] = "rest" => lead[Slot(t)'] = Key(t)'[1]
    /\ pc'[t] = "value" => Holds(Slot(t), Key(t))'

\* When only thread t moves, from a slot it has not claimed, what the
\* invariant says of the slots and of the other threads stays.
LEMMA OthersKeep ==
    ASSUME NEW t \in Threads, WorkersFill, ClaimsOwned, RestCopied, SlotSeen, Chain,
           OnlyMoves(t), ~Owns(t), Arrives(t)
    PROVE  WorkersFill' /\ ClaimsOwned' /\ RestCopied' /\ SlotSeen' /\ Chain'
<1>1. Slots' = Slots
      BY Zenon DEF Slots, OnlyMoves
<1>2. \A u \in Threads \ {t} : HasRow(u)' = HasRow(u) /\ Key(u)' = Key(u) /\ Slot(u)' = Slot(u)
      BY Zenon DEF HasRow, Key, Slot, At, OnlyMoves
<1>3. \A u \in Threads \ {t} : Working(u)' = Working(u) /\ Owns(u)' = Owns(u)
      BY Zenon DEF Working, Owns, OnlyMoves
<1>4. WorkersFill'
      BY <1>1, <1>2, <1>3 DEF WorkersFill, OnlyMoves, Arrives
<1>5. ClaimsOwned'
      BY <1>1, <1>2, <1>3 DEF ClaimsOwned, OnlyMoves, Arrives
<1>6. RestCopied'
      BY ZenonT(30), <1>2 DEF RestCopied, Owns, OnlyMoves, Arrives
<1>7. SlotSeen'
      BY <1>2 DEF SlotSeen, IsPublished, Holds, OnlyMoves, Arrives
<1>8. Chain'
      BY Zenon, <1>1 DEF Chain, Holds, IsOther, IsPublished, At, OnlyMoves
<1> QED BY Zenon, <1>4, <1>5, <1>6, <1>7, <1>8

\* A move of a thread that writes no key: to the next row once the row is
\* filed, to its end, past a slot of another key, or on within a row.
QuietMove(t) ==
    \/ NextRow(t) /\ \A r \in Rows : r = row[t] => Filed(r)'
    \/ EndWith(t, 0) /\ row[t] >= NumElems
    \/ EndWith(t, -1)
    \/ /\ NextSlot(t) /\ HasRow(t)
       /\ Key(t)[1] # write_pending => IsOther(Key(t), off[t])
    \/ \E l \in {"spin", "lead", "rest", "value"} :
          /\ GoTo(t, l)
          /\ HasRow(t) /\ off[t] \in Slots /\ Key(t)[1] # write_pending
          /\ l = "spin" => lead[Slot(t)] # empty_key
          /\ l = "lead" => IsPublished(Slot(t))
          /\ l = "rest" => lead[Slot(t)] = Key(t)[1]
          /\ l = "value" => Holds(Slot(t), Key(t))

\* A thread that does not write a key leaves the invariant about keys alone.
LEMMA QuietKeeps ==
    ASSUME NoMaxKey, IInv, UNCHANGED <<input, table, lead, rest, phase>>,
           phase = "fill", NEW t \in Threads, pc[t] # "end", ~Owns(t),
           QuietMove(t), TypeOK'
    PROVE  IInv'
<1>t. /\ pc \in [Threads -> Labels] /\ row \in [Threads -> Nat] /\ off \in [Threads -> Nat]
      /\ err \in [Threads -> Int] /\ entry_count \in Nat
      BY DEF IInv, TypeOK
<1>s. /\ entry_count' = entry_count /\ column' = column /\ phase' = phase
      /\ lead' = lead /\ rest' = rest
      BY Zenon DEF input, table
<1>k. OnlyMoves(t)
      BY Zenon, <1>t, <1>s DEF OnlyMoves, QuietMove, NextRow, EndWith, NextSlot, GoTo
<1>g. TableGrows
      BY Zenon, <1>s DEF TableGrows
<1>1. TableSized' /\ OffsetsBounded' /\ Passed' /\ RowsCovered' /\ KeysFound'
  <2>1. Move(t)
        BY Zenon DEF QuietMove, Move, Labels
  <2>2. KeysFound'
        BY Zenon, <1>s DEF IInv, KeysFound
  <2> QED BY Zenon, <2>1, <2>2, <1>g, MoveKeeps
<1>i. WorkersFill /\ ClaimsOwned /\ RestCopied /\ SlotSeen /\ Chain
      BY Zenon DEF IInv
<1>2. CASE ~Working(t)'
  <2>1. pc'[t] \in {"probe", "end"}
        BY Zenon, <1>2 DEF Working
  <2>2. WorkersFill' /\ ClaimsOwned' /\ RestCopied' /\ SlotSeen' /\ Chain'
    <3>1. Arrives(t)
          BY Zenon, <1>2, <2>1 DEF Arrives, Owns
    <3> QED BY Zenon, <3>1, <1>i, <1>k, OthersKeep
  <2> QED BY Zenon, <1>1, <2>2 DEF IInv
<1>3. ASSUME NEW l \in {"spin", "lead", "rest", "value"}, GoTo(t, l),
             HasRow(t), off[t] \in Slots, Key(t)[1] # write_pending,
             l = "spin" => lead[Slot(t)] # empty_key,
             l = "lead" => IsPublished(Slot(t)),
             l = "rest" => lead[Slot(t)] = Key(t)[1],
             l = "value" => Holds(Slot(t), Key(t))
      PROVE  IInv'
  <2>1. pc'[t] = l /\ row'[t] = row[t] /\ off'[t] = off[t]
        BY Zenon, <1>3, <1>t DEF GoTo
  <2>2. HasRow(t)' = HasRow(t) /\ Key(t)' = Key(t) /\ Slot(t)' = Slot(t)
        BY Zenon, <2>1, <1>s DEF HasRow, Key, Slot, At
  <2>3. ~Owns(t)' /\ (IsPublished(Slot(t))' = IsPublished(Slot(t)))
        /\ (Holds(Slot(t), Key(t))' = Holds(Slot(t), Key(t)))
    <3>1. ~Owns(t)'
          BY Zenon, <2>1 DEF Owns
    <3> QED BY Zenon, <2>2, <3>1, <1>s DEF IsPublished, Holds
  <2>4. WorkersFill' /\ ClaimsOwned' /\ RestCopied' /\ SlotSeen' /\ Chain'
    <3>1. Arrives(t)
          BY Zenon, <1>3, <1>s, <2>1, <2>2, <2>3 DEF Arrives
    <3> QED BY Zenon, <3>1, <1>i, <1>k, OthersKeep
  <2> QED BY Zenon, <1>1, <2>4 DEF IInv
<1> QED BY Zenon, <1>2, <1>3, <1>t DEF QuietMove, NextRow, EndWith, NextSlot, Working

\* The moves of a thread keep the types of the thread's state.
LEMMA MoveTypes ==
    ASSUME TypeOK, NEW t \in Threads,
           \/ NextRow(t)
           \/ \E e \in {0, -1, -2} : EndWith(t, e)
           \/ NextSlot(t)
           \/ \E l \in Labels : GoTo(t, l)
    PROVE  /\ pc' \in [Threads -> Labels] /\ row' \in [Threads -> Nat]
           /\ off' \in [Threads -> Nat] /\ err' \in [Threads -> {0, -1, -2}]
<1>t. /\ pc \in [Threads -> Labels] /\ row \in [Threads -> Nat]
      /\ off \in [Threads -> Nat] /\ err \in [Threads -> {0, -1, -2}]
      BY Zenon DEF TypeOK
<1>1. CASE NextRow(t)
      BY <1>1, <1>t, ThreadsAssumption DEF NextRow, Labels
<1>2. CASE \E e \in {0, -1, -2} : EndWith(t, e)
      BY Zenon, <1>2, <1>t DEF EndWith, Labels
<1>3. CASE NextSlot(t)
      BY <1>3, <1>t DEF NextSlot, EndWith, Labels
<1>4. CASE \E l \in Labels : GoTo(t, l)
      BY Zenon, <1>4, <1>t DEF GoTo
<1> QED BY Zenon, <1>1, <1>2, <1>3, <1>4

\* The slot of a working thread is a slot of the table.
LEMMA SlotOfWorker ==
    ASSUME IInv, NEW t \in Threads, HasRow(t), phase = "fill"
    PROVE  off[t] \in Slots /\ Key(t) \in Keys /\ Slot(t) \in Slots
<1>1. Key(t) \in Keys /\ row[t] \in Rows
      BY Zenon, RowHasKey DEF IInv
<1>2. entry_count > 0 /\ entry_count \in Nat /\ off[t] \in Nat
      BY <1>1, ElemsAssumption DEF IInv, TypeOK, TableSized, Rows
<1>3. off[t] \in Slots
      BY <1>2 DEF IInv, OffsetsBounded, Slots
<1> QED BY Zenon, <1>1, <1>2, <1>3, AtInSlots DEF Slot
-----------------------------------------------------------------------------
(* The steps keep the invariant, one lemma for each.                         *)

\* Spinning until the slot is published keeps the invariant.
LEMMA SpinKeeps ==
    ASSUME NoMaxKey, IInv, NEW t \in Threads, Spin(t)
    PROVE  IInv'
<1>1. phase = "fill" /\ HasRow(t) /\ off[t] \in Slots /\ Key(t)[1] # write_pending
      BY Zenon DEF Spin, IInv, WorkersFill, Working
<1>2. IsPublished(Slot(t))
      BY Zenon DEF Spin, IInv, SlotSeen, IsPublished
<1>3. TypeOK'
      BY Zenon DEF Spin, IInv, TypeOK, GoTo, Slots, Labels, input, table, slots
<1> QED BY Zenon, <1>1, <1>2, <1>3, QuietKeeps DEF QuietMove, Spin, Owns, slots

\* The first comparison finds the slot of another key, or goes on.
LEMMA CompareLeadKeeps ==
    ASSUME NoMaxKey, IInv, NEW t \in Threads, CompareLead(t)
    PROVE  IInv'
<1>1. phase = "fill" /\ HasRow(t) /\ off[t] \in Slots /\ Key(t)[1] # write_pending
      BY Zenon DEF CompareLead, IInv, WorkersFill, Working
<1>2. IsPublished(Slot(t))
      BY Zenon DEF CompareLead, IInv, SlotSeen
<1>3. TypeOK'
  <2>1. NextSlot(t) \/ \E l \in Labels : GoTo(t, l)
        BY Zenon DEF CompareLead, Labels
  <2> QED BY Zenon, <2>1, MoveTypes DEF CompareLead, IInv, TypeOK, Slots, input, table, slots
<1>4. CASE lead[Slot(t)] = Key(t)[1]
      BY Zenon, <1>1, <1>3, <1>4, QuietKeeps DEF QuietMove, CompareLead, Owns, slots
<1>5. CASE lead[Slot(t)] # Key(t)[1]
  <2>1. IsOther(Key(t), off[t])
        BY Zenon, <1>2, <1>5 DEF IsOther, Holds, Slot
  <2> QED BY Zenon, <2>1, <1>1, <1>3, <1>5, QuietKeeps DEF QuietMove, CompareLead, Owns, slots
<1> QED BY Zenon, <1>4, <1>5

\* The row whose key the slot holds is filed.
LEMMA HeldIsFiled ==
    ASSUME NEW r \in Rows, NEW i \in Slots, column[r][1] # write_pending,
           Holds(At(column[r], i), column[r])
    PROVE  Filed(r)
BY Zenon DEF Filed, Matching

\* The comparison of the rest decides whose slot it is.
LEMMA CompareRestKeeps ==
    ASSUME NoMaxKey, IInv, NEW t \in Threads, CompareRest(t)
    PROVE  IInv'
<1>1. phase = "fill" /\ HasRow(t) /\ off[t] \in Slots /\ Key(t)[1] # write_pending
      BY Zenon DEF CompareRest, IInv, WorkersFill, Working
<1>2. lead[Slot(t)] = Key(t)[1] /\ Key(t)[1] # empty_key
      BY Zenon, <1>1, RowHasKey, KeyNotEmpty DEF CompareRest, IInv, SlotSeen
<1>3. TypeOK'
  <2>1. NextSlot(t) \/ NextRow(t) \/ \E l \in Labels : GoTo(t, l)
        BY Zenon DEF CompareRest, Labels
  <2> QED BY Zenon, <2>1, MoveTypes DEF CompareRest, IInv, TypeOK, Slots, input, table, slots
<1>4. CASE rest[Slot(t)] # Key(t)[2]
  <2>1. IsOther(Key(t), off[t])
        BY Zenon, <1>1, <1>2, <1>4 DEF IsOther, Holds, Slot, IsPublished
  <2> QED BY Zenon, <2>1, <1>1, <1>3, <1>4, QuietKeeps DEF QuietMove, CompareRest, Owns, slots
<1>5. CASE rest[Slot(t)] = Key(t)[2]
  <2>1. Holds(Slot(t), Key(t))
        BY Zenon, <1>2, <1>5 DEF Holds
  <2>2. CASE with_val_slot
        BY Zenon, <2>1, <2>2, <1>1, <1>3, <1>5, QuietKeeps DEF QuietMove, CompareRest, Owns, slots
  <2>3. CASE ~with_val_slot
    <3>1. \A r \in Rows : r = row[t] => Filed(r)
          BY Zenon, <2>1, <1>1, HeldIsFiled DEF Key, Slot
    <3>2. \A r \in Rows : Filed(r)' = Filed(r)
          BY Zenon DEF Filed, Matching, Holds, At, Slots, CompareRest, input, table, slots
    <3> QED BY Zenon, <2>3, <3>1, <3>2, <1>1, <1>3, <1>5, QuietKeeps DEF QuietMove, CompareRest, Owns, slots
  <2> QED BY Zenon, <2>2, <2>3
<1> QED BY Zenon, <1>4, <1>5

\* Writing the row of a found key files the row.
LEMMA WriteValueKeeps ==
    ASSUME NoMaxKey, IInv, NEW t \in Threads, WriteValue(t)
    PROVE  IInv'
<1>1. phase = "fill" /\ HasRow(t) /\ off[t] \in Slots /\ Key(t)[1] # write_pending
      BY Zenon DEF WriteValue, IInv, WorkersFill, Working
<1>2. Holds(Slot(t), Key(t))
      BY Zenon DEF WriteValue, IInv, SlotSeen
<1>r. row[t] \in Rows
      BY Zenon, <1>1, RowHasKey DEF IInv
<1>3. TypeOK'
  <2>1. NextRow(t) \/ \E e \in {0, -1, -2} : EndWith(t, e)
        BY Zenon DEF WriteValue
  <2>2. val' \in [Slots -> Rows \cup {invalid_slot_val}]
        BY Zenon, <1>r DEF WriteValue, IInv, TypeOK
  <2> QED BY Zenon, <2>1, <2>2, MoveTypes DEF WriteValue, IInv, TypeOK, Slots, input, table
<1>4. \A r \in Rows : r = row[t] => Filed(r)
      BY Zenon, <1>2, <1>1, HeldIsFiled DEF Key, Slot
<1>5. \A r \in Rows : Filed(r)' = Filed(r)
      BY Zenon DEF Filed, Matching, Holds, At, Slots, WriteValue, input, table
<1> QED BY Zenon, <1>1, <1>3, <1>4, <1>5, QuietKeeps DEF QuietMove, WriteValue, Owns

\* The compare-and-swap takes a free slot for one thread only.
LEMMA ClaimKeeps ==
    ASSUME NoMaxKey, IInv, NEW t \in Threads, Claim(t)
    PROVE  IInv'
<1>1. phase = "fill" /\ HasRow(t) /\ pc[t] = "probe" /\ ~Owns(t)
      BY Zenon DEF Claim, Owns
<1>2. off[t] \in Slots /\ Key(t) \in Keys /\ Slot(t) \in Slots
      BY Zenon, <1>1, SlotOfWorker
<1>3. TypeOK'
  <2>1. NextSlot(t) \/ \E l \in Labels : GoTo(t, l)
        BY Zenon DEF Claim, Labels
  <2>2. lead' \in [Slots -> Int]
        BY SMTT(30), KeysAssumption DEF Claim, IInv, TypeOK, write_pending
  <2> QED BY Zenon, <2>1, <2>2, MoveTypes DEF Claim, IInv, TypeOK, Slots, input, table
<1>4. CASE Key(t)[1] = write_pending
      BY Zenon, <1>1, <1>3, <1>4, QuietKeeps DEF QuietMove, Claim
<1>5. CASE Key(t)[1] # write_pending /\ lead[Slot(t)] # empty_key
      BY Zenon, <1>1, <1>2, <1>3, <1>5, QuietKeeps DEF QuietMove, Claim
<1>6. CASE Key(t)[1] # write_pending /\ lead[Slot(t)] = empty_key
  <2>t. /\ pc \in [Threads -> Labels] /\ lead \in [Slots -> Int]
        /\ write_pending \in Int /\ empty_key \in Int /\ write_pending # empty_key
        BY KeysAssumption DEF IInv, TypeOK, write_pending, empty_key
  <2>1. /\ lead' = [lead EXCEPT ![Slot(t)] = write_pending] /\ GoTo(t, "copy")
        /\ UNCHANGED <<input, table, rest, phase>>
        BY Zenon, <1>6 DEF Claim
  <2>s. /\ entry_count' = entry_count /\ column' = column /\ Slots' = Slots /\ phase' = phase
        /\ rest' = rest /\ row' = row /\ off' = off
        BY Zenon, <2>1 DEF input, table, Slots, GoTo
  <2>p. pc'[t] = "copy" /\ \A u \in Threads \ {t} : pc'[u] = pc[u]
        BY Zenon, <2>1, <2>t DEF GoTo
  <2>l. lead'[Slot(t)] = write_pending /\ \A s \in Slots \ {Slot(t)} : lead'[s] = lead[s]
        BY Zenon, <2>1, <2>t, <1>2
  <2>c. /\ \A k, i : At(k, i)' = At(k, i)
        /\ \A u \in Threads : HasRow(u)' = HasRow(u) /\ Key(u)' = Key(u) /\ Slot(u)' = Slot(u)
        BY Zenon, <2>s DEF At, HasRow, Key, Slot
  <2>g. TableGrows
        BY Zenon, <2>s, <2>l, <2>t, <1>6 DEF TableGrows, IsPublished
  <2>2. TableSized' /\ OffsetsBounded' /\ Passed' /\ RowsCovered'
        BY Zenon, <2>g, <2>1, <1>1, MoveKeeps DEF Move, Labels
  <2>3. WorkersFill'
        BY Zenon, <2>p, <2>s, <2>c, <1>1, <1>2, <1>6 DEF IInv, WorkersFill, Working
  <2>4. ClaimsOwned'
    <3>1. \A u \in Threads \ {t} : Owns(u) => Slot(u) # Slot(t)
          BY Zenon, <1>6, <2>t DEF IInv, ClaimsOwned
    <3>o. Owns(t)' /\ \A u \in Threads \ {t} : Owns(u)' = Owns(u)
          BY Zenon, <2>p DEF Owns
    <3>w. \A u \in Threads : Owns(u) => Slot(u) \in Slots
          BY Zenon, SlotOfWorker DEF IInv, WorkersFill, Working, Owns
    <3>2. \A s \in Slots' : lead'[s] = write_pending => \E u \in Threads : Owns(u)' /\ Slot(u)' = s
          BY Zenon, <3>o, <2>l, <2>s, <2>c, <1>1 DEF IInv, ClaimsOwned
    <3>3. \A u \in Threads : Owns(u)' => lead'[Slot(u)'] = write_pending
          BY ZenonT(30), <3>1, <3>o, <3>w, <2>l, <2>c DEF IInv, ClaimsOwned
    <3>4. \A u, v \in Threads : Owns(u)' /\ Owns(v)' /\ Slot(u)' = Slot(v)' => u = v
          BY SMTT(30), <3>1, <3>o, <2>c DEF IInv, ClaimsOwned
    <3> QED BY Zenon, <3>2, <3>3, <3>4 DEF ClaimsOwned
  <2>5. RestCopied'
        BY Zenon, <2>p, <2>s, <2>c DEF IInv, RestCopied
  <2>6. SlotSeen'
    <3> SUFFICES ASSUME NEW u \in Threads, u # t, Working(u)
                 PROVE  /\ pc'[u] = "spin" => lead'[Slot(u)'] # empty_key
                        /\ pc'[u] = "lead" => IsPublished(Slot(u))'
                        /\ pc'[u] = "rest" => lead'[Slot(u)'] = Key(u)'[1]
                        /\ pc'[u] = "value" => Holds(Slot(u), Key(u))'
        BY Zenon, <2>p DEF SlotSeen, Working
    <3>1. pc'[u] = pc[u] /\ row'[u] = row[u] /\ off'[u] = off[u]
          BY Zenon, <2>p, <2>s
    <3> QED BY ZenonT(30), <3>1, <2>g, <2>1, <2>c, <2>s, SeenStays DEF IInv, SlotSeen, IsPublished, Holds
  <2>7. Chain'
    <3> SUFFICES ASSUME NEW k \in Keys, NEW s \in Slots, k[1] # write_pending, Holds(s, k)'
                 PROVE  \E i \in Slots' : s = At(k, i)' /\ \A j \in 0 .. i - 1 : IsOther(k, j)'
        BY Zenon, <2>s DEF Chain
    <3>1. Holds(s, k)
          BY Zenon, <2>l, <2>s DEF Holds
    <3>2. PICK i \in Slots : s = At(k, i) /\ \A j \in 0 .. i - 1 : IsOther(k, j)
          BY Zenon, <3>1 DEF IInv, Chain
    <3>3. \A j \in 0 .. i - 1 : IsOther(k, j)'
      <4>1. entry_count > 0 /\ i \in Nat /\ TypeOK
            BY DEF IInv, TypeOK, Slots
      <4> QED BY <4>1, <3>2, <2>g, <2>1, OtherStays
    <3> QED BY Zenon, <3>2, <3>3, <2>c, <2>s
  <2> QED BY Zenon, <1>3, <2>2, <2>3, <2>4, <2>5, <2>6, <2>7, <2>s DEF IInv, KeysFound
<1> QED BY Zenon, <1>4, <1>5, <1>6

\* Copying the rest of a key writes the claimed slot only.
LEMMA CopyRestKeeps ==
    ASSUME NoMaxKey, IInv, NEW t \in Threads, CopyRest(t)
    PROVE  IInv'
<1>1. /\ phase = "fill" /\ HasRow(t) /\ pc[t] = "copy" /\ Owns(t)
      /\ Key(t)[1] # write_pending
      BY Zenon DEF CopyRest, Owns, IInv, WorkersFill, Working
<1>2. off[t] \in Slots /\ Key(t) \in Keys /\ Slot(t) \in Slots
      BY Zenon, <1>1, SlotOfWorker
<1>t. /\ pc \in [Threads -> Labels] /\ rest \in [Slots -> Int] /\ Key(t)[2] \in Int
      BY Zenon, <1>2, KeysAssumption DEF IInv, TypeOK
<1>3. TypeOK'
  <2>1. \E l \in Labels : GoTo(t, l)
        BY Zenon DEF CopyRest, Labels
  <2>2. rest' \in [Slots -> Int]
        BY Zenon, <1>t DEF CopyRest
  <2> QED BY Zenon, <2>1, <2>2, MoveTypes DEF CopyRest, IInv, TypeOK, Slots, input, table
<1>s. /\ entry_count' = entry_count /\ column' = column /\ Slots' = Slots /\ phase' = phase
      /\ lead' = lead /\ row' = row /\ off' = off
      BY Zenon DEF CopyRest, input, table, Slots, GoTo
<1>p. pc'[t] = "publish" /\ \A u \in Threads \ {t} : pc'[u] = pc[u]
      BY Zenon, <1>t DEF CopyRest, GoTo
<1>l. rest'[Slot(t)] = Key(t)[2] /\ \A s \in Slots \ {Slot(t)} : rest'[s] = rest[s]
      BY Zenon, <1>t, <1>2 DEF CopyRest
<1>c. /\ \A k, i : At(k, i)' = At(k, i)
      /\ \A u \in Threads : HasRow(u)' = HasRow(u) /\ Key(u)' = Key(u) /\ Slot(u)' = Slot(u)
      BY Zenon, <1>s DEF At, HasRow, Key, Slot
<1>w. lead[Slot(t)] = write_pending
      BY Zenon, <1>1 DEF IInv, ClaimsOwned
<1>g. TableGrows
      BY Zenon, <1>s, <1>l, <1>w DEF TableGrows, IsPublished
<1>4. TableSized' /\ OffsetsBounded' /\ Passed' /\ RowsCovered'
  <2>1. \E l \in Labels \ {"end"} : GoTo(t, l)
        BY Zenon DEF CopyRest, Labels
  <2> QED BY Zenon, <2>1, <1>g, <1>1, MoveKeeps DEF Move, CopyRest
<1>5. WorkersFill'
      BY Zenon, <1>p, <1>s, <1>c, <1>1, <1>2 DEF IInv, WorkersFill, Working
<1>6. ClaimsOwned'
  <2>1. \A u \in Threads : Owns(u)' = Owns(u)
        BY SMTT(30), <1>p, <1>1 DEF Owns
  <2> QED BY Zenon, <2>1, <1>s, <1>c DEF IInv, ClaimsOwned
<1>7. RestCopied'
  <2>1. \A u \in Threads \ {t} : Owns(u) => Slot(u) # Slot(t) /\ Slot(u) \in Slots
        BY Zenon, <1>1, SlotOfWorker DEF IInv, ClaimsOwned, WorkersFill, Working, Owns
  <2> QED BY SMTT(30), <2>1, <1>p, <1>l, <1>c DEF IInv, RestCopied, Owns
<1>8. SlotSeen'
  <2> SUFFICES ASSUME NEW u \in Threads, u # t, Working(u)
               PROVE  /\ pc'[u] = "spin" => lead'[Slot(u)'] # empty_key
                      /\ pc'[u] = "lead" => IsPublished(Slot(u))'
                      /\ pc'[u] = "rest" => lead'[Slot(u)'] = Key(u)'[1]
                      /\ pc'[u] = "value" => Holds(Slot(u), Key(u))'
      BY Zenon, <1>p DEF SlotSeen, Working
  <2>1. pc'[u] = pc[u] /\ row'[u] = row[u] /\ off'[u] = off[u]
        BY Zenon, <1>p, <1>s
  <2> QED BY Zenon, <2>1, <1>g, <1>c, <1>s, SeenStays DEF CopyRest, IInv, SlotSeen, IsPublished, Holds
<1>9. Chain'
  <2> SUFFICES ASSUME NEW k \in Keys, NEW s \in Slots, k[1] # write_pending, Holds(s, k)'
               PROVE  \E i \in Slots' : s = At(k, i)' /\ \A j \in 0 .. i - 1 : IsOther(k, j)'
      BY Zenon, <1>s DEF Chain
  <2>1. Holds(s, k)
        BY Zenon, <1>l, <1>s, <1>w DEF Holds
  <2>2. PICK i \in Slots : s = At(k, i) /\ \A j \in 0 .. i - 1 : IsOther(k, j)
        BY Zenon, <2>1 DEF IInv, Chain
  <2>3. \A j \in 0 .. i - 1 : IsOther(k, j)'
    <3>1. UNCHANGED table /\ TypeOK
          BY Zenon DEF CopyRest, IInv
    <3>2. entry_count > 0 /\ i \in Nat
          BY DEF IInv, TypeOK, Slots
    <3> QED BY <2>2, <3>1, <3>2, <1>g, OtherStays
  <2> QED BY Zenon, <2>2, <2>3, <1>c, <1>s
<1> QED BY Zenon, <1>3, <1>4, <1>5, <1>6, <1>7, <1>8, <1>9, <1>s DEF IInv, KeysFound

\* Publishing a key extends the chain: the thread has passed the slots before.
LEMMA PublishKeeps ==
    ASSUME NoMaxKey, IInv, NEW t \in Threads, Publish(t)
    PROVE  IInv'
<1>1. /\ phase = "fill" /\ HasRow(t) /\ pc[t] = "publish" /\ Owns(t)
      /\ Key(t)[1] # write_pending
      BY Zenon DEF Publish, Owns, IInv, WorkersFill, Working
<1>2. off[t] \in Slots /\ Key(t) \in Keys /\ Slot(t) \in Slots
      BY Zenon, <1>1, SlotOfWorker
<1>i. WorkersFill /\ ClaimsOwned /\ RestCopied /\ SlotSeen /\ Chain /\ Passed /\ TypeOK
      BY Zenon DEF IInv
<1>e. Key(t)[1] # empty_key
      BY Zenon, <1>2, KeyNotEmpty
<1>t. /\ pc \in [Threads -> Labels] /\ lead \in [Slots -> Int] /\ Key(t)[1] \in Int
      /\ row \in [Threads -> Nat] /\ off \in [Threads -> Nat]
      BY Zenon, <1>2, KeysAssumption, <1>i DEF TypeOK
<1>3. TypeOK'
  <2>1. NextRow(t) \/ \E l \in Labels : GoTo(t, l)
        BY Zenon DEF Publish, Labels
  <2>2. lead' \in [Slots -> Int]
        BY Zenon, <1>t DEF Publish
  <2> QED BY Zenon, <2>1, <2>2, <1>i, MoveTypes DEF Publish, TypeOK, Slots, input, table
<1>s. /\ entry_count' = entry_count /\ column' = column /\ Slots' = Slots /\ phase' = phase
      /\ rest' = rest
      BY Zenon DEF Publish, input, table, Slots
<1>p. /\ \A u \in Threads \ {t} : pc'[u] = pc[u] /\ row'[u] = row[u] /\ off'[u] = off[u]
      /\ \/ pc'[t] = "value" /\ row'[t] = row[t] /\ off'[t] = off[t]
         \/ pc'[t] = "probe"
      BY Zenon, <1>t DEF Publish, GoTo, NextRow
<1>l. lead'[Slot(t)] = Key(t)[1] /\ \A s \in Slots \ {Slot(t)} : lead'[s] = lead[s]
      BY Zenon, <1>t, <1>2 DEF Publish
<1>c. /\ \A k, i : At(k, i)' = At(k, i)
      /\ \A u \in Threads \ {t} : HasRow(u)' = HasRow(u) /\ Key(u)' = Key(u) /\ Slot(u)' = Slot(u)
      BY Zenon, <1>s, <1>p DEF At, HasRow, Key, Slot
<1>w. lead[Slot(t)] = write_pending /\ rest[Slot(t)] = Key(t)[2]
      BY Zenon, <1>1, <1>i DEF ClaimsOwned, RestCopied
<1>g. TableGrows
      BY Zenon, <1>s, <1>l, <1>w, <1>e DEF TableGrows, IsPublished
<1>h. \A k \in Keys, i \in Slots : k = Key(t) /\ i = off[t] => Holds(At(k, i), k)'
      BY Zenon, <1>l, <1>w, <1>s, <1>c DEF Holds, Slot
<1>4. TableSized' /\ OffsetsBounded' /\ Passed' /\ RowsCovered'
  <2>1. \A r \in Rows : r = row[t] => Filed(r)'
    <3> SUFFICES ASSUME NEW r \in Rows, r = row[t] PROVE Filed(r)'
        BY Zenon
    <3>1. column'[r] = Key(t)
          BY Zenon, <1>s DEF Key
    <3>2. Matching(column[r])' # {}
          BY Zenon, <3>1, <1>h, <1>2, <1>s DEF Matching
    <3> QED BY Zenon, <3>1, <3>2, <1>1 DEF Filed
  <2>2. NextRow(t) \/ \E l \in Labels \ {"end"} : GoTo(t, l)
        BY Zenon DEF Publish, Labels
  <2> QED BY Zenon, <2>1, <2>2, <1>g, <1>1, MoveKeeps DEF Move, Publish
<1>5. WorkersFill'
      BY Zenon, <1>p, <1>s, <1>c, <1>1, <1>2, <1>i DEF WorkersFill, Working, HasRow, Key
<1>o. ~Owns(t)' /\ \A u \in Threads \ {t} : Owns(u)' = Owns(u)
      BY Zenon, <1>p DEF Owns
<1>q. \A u \in Threads \ {t} : Owns(u) => Slot(u) # Slot(t) /\ Slot(u) \in Slots
      BY Zenon, <1>1, SlotOfWorker, <1>i DEF ClaimsOwned, WorkersFill, Working, Owns
<1>6. ClaimsOwned'
  <2>1. \A s \in Slots' : lead'[s] = write_pending => \E u \in Threads : Owns(u)' /\ Slot(u)' = s
        BY SMTT(30), <1>o, <1>l, <1>s, <1>c, <1>1, <1>i DEF ClaimsOwned
  <2>2. \A u \in Threads : Owns(u)' => lead'[Slot(u)'] = write_pending
        BY SMTT(60), <1>q, <1>o, <1>l, <1>c, <1>i DEF ClaimsOwned
  <2>3. \A u, v \in Threads : Owns(u)' /\ Owns(v)' /\ Slot(u)' = Slot(v)' => u = v
        BY Zenon, <1>o, <1>c, <1>i DEF ClaimsOwned
  <2> QED BY Zenon, <2>1, <2>2, <2>3 DEF ClaimsOwned
<1>7. RestCopied'
      BY ZenonT(30), SMTT(60), <1>p, <1>s, <1>c, <1>i DEF RestCopied
<1>8. SlotSeen'
  <2>1. ASSUME NEW u \in Threads, u # t, Working(u)
        PROVE  /\ pc'[u] = "spin" => lead'[Slot(u)'] # empty_key
               /\ pc'[u] = "lead" => IsPublished(Slot(u))'
               /\ pc'[u] = "rest" => lead'[Slot(u)'] = Key(u)'[1]
               /\ pc'[u] = "value" => Holds(Slot(u), Key(u))'
        BY ZenonT(30), <2>1, <1>p, <1>g, <1>c, <1>s, SeenStays, <1>i DEF Publish, SlotSeen, IsPublished, Holds
  <2>2. pc'[t] = "value" => Holds(Slot(t), Key(t))'
        BY Zenon, <1>p, <1>l, <1>w, <1>s DEF Holds, Slot, Key, At
  <2> QED BY Zenon, <2>1, <2>2, <1>p DEF SlotSeen, Working
<1>9. Chain'
  <2> SUFFICES ASSUME NEW k \in Keys, NEW s \in Slots, k[1] # write_pending, Holds(s, k)'
               PROVE  \E i \in Slots' : s = At(k, i)' /\ \A j \in 0 .. i - 1 : IsOther(k, j)'
      BY Zenon, <1>s DEF Chain
  <2>1. PICK i \in Slots : s = At(k, i) /\ \A j \in 0 .. i - 1 : IsOther(k, j)
    <3>1. CASE s = Slot(t)
      <4>1. k = Key(t)
            BY Zenon, <3>1, <1>l, <1>w, <1>s, <1>2, KeyParts DEF Holds
      <4> QED BY Zenon, <4>1, <3>1, <1>1, <1>2, <1>i DEF Passed, Slot
    <3>2. CASE s # Slot(t)
          BY Zenon, <3>2, <1>l, <1>s, <1>i DEF Chain, Holds
    <3> QED BY Zenon, <3>1, <3>2
  <2>2. \A j \in 0 .. i - 1 : IsOther(k, j)'
    <3>1. UNCHANGED table /\ TypeOK
          BY Zenon, <1>i DEF Publish
    <3>2. entry_count > 0 /\ i \in Nat
          BY <1>i DEF TypeOK, Slots
    <3> QED BY <2>1, <3>1, <3>2, <1>g, OtherStays
  <2> QED BY Zenon, <2>1, <2>2, <1>c, <1>s
<1> QED BY Zenon, <1>3, <1>4, <1>5, <1>6, <1>7, <1>8, <1>9, <1>s, <1>i DEF IInv, KeysFound

\* Once the keys are in, the table of keys stays as it is and no thread works
\* on it.
LEMMA LaterKeeps ==
    ASSUME IInv, UNCHANGED <<input, table, lead, rest>>, TypeOK',
           \A t \in Threads : ~Working(t),
           \A t \in Threads : ~Working(t)',
           phase' \in {"count", "ids", "done", "failed"},
           phase # "reify",
           phase' \in {"count", "ids"} => \A r \in Rows : Filed(r)
    PROVE  IInv'
<1>s. /\ entry_count' = entry_count /\ column' = column /\ Slots' = Slots
      /\ lead' = lead /\ rest' = rest
      BY Zenon DEF input, table, Slots
<1>1. WorkersFill' /\ RestCopied' /\ SlotSeen'
      BY Zenon DEF WorkersFill, RestCopied, SlotSeen, Working
<1>2. TableSized' /\ OffsetsBounded' /\ Passed' /\ KeysFound'
      BY Zenon, <1>s DEF IInv, TableSized, OffsetsBounded, Passed, KeysFound
<1>3. ClaimsOwned'
  <2>1. \A t \in Threads : ~Owns(t) /\ ~Owns(t)'
        BY Zenon DEF Owns, Working
  <2> QED BY Zenon, <2>1, <1>s DEF IInv, ClaimsOwned
<1>4. Chain'
      BY <1>s DEF IInv, Chain, Holds, At, IsOther, IsPublished
<1>5. RowsCovered'
  <2>1. \A r \in Rows : Filed(r)' = Filed(r)
        BY ZenonT(30), <1>s DEF Filed, Matching, Holds, At
  <2> QED BY Zenon, <2>1 DEF RowsCovered
<1> QED BY Zenon, <1>1, <1>2, <1>3, <1>4, <1>5 DEF IInv

\* Skipping a row keeps the invariant.
LEMMA SkipRowKeeps ==
    ASSUME NoMaxKey, IInv, NEW t \in Threads, SkipRow(t)
    PROVE  IInv'
<1>1. TypeOK'
      BY Zenon, MoveTypes DEF SkipRow, IInv, TypeOK, Slots, input, table, slots
<1>2. CASE phase = "fill"
  <2>1. \A r \in Rows : r = row[t] => Filed(r)'
        BY Zenon DEF SkipRow, Filed, Key, input
  <2> QED BY Zenon, <1>1, <1>2, <2>1, QuietKeeps DEF QuietMove, SkipRow, Owns, slots
<1>3. CASE phase \in {"count", "ids"}
  <2>1. \A u \in Threads : ~Working(u)
        BY Zenon, <1>3 DEF IInv, WorkersFill
  <2>2. \A u \in Threads : ~Working(u)'
        BY Zenon, <2>1 DEF SkipRow, NextRow, IInv, TypeOK, Working
  <2>3. \A r \in Rows : Filed(r)
        BY Zenon, <1>3 DEF IInv, RowsCovered
  <2> QED BY Zenon, <1>1, <1>3, <2>1, <2>2, <2>3, LaterKeeps DEF SkipRow, slots
<1> QED BY Zenon, <1>2, <1>3 DEF SkipRow

\* A thread ends when it has no more rows.
LEMMA EndSliceKeeps ==
    ASSUME NoMaxKey, IInv, NEW t \in Threads, EndSlice(t)
    PROVE  IInv'
<1>1. TypeOK'
      BY Zenon, MoveTypes DEF EndSlice, IInv, TypeOK, Slots, input, table, slots
<1>2. CASE phase = "fill"
      BY Zenon, <1>1, <1>2, QuietKeeps DEF QuietMove, EndSlice, Owns, slots
<1>3. CASE phase \in {"count", "ids"}
  <2>1. \A u \in Threads : ~Working(u)
        BY Zenon, <1>3 DEF IInv, WorkersFill
  <2>2. \A u \in Threads : ~Working(u)'
        BY Zenon, <2>1 DEF EndSlice, EndWith, IInv, TypeOK, Working
  <2>3. \A r \in Rows : Filed(r)
        BY Zenon, <1>3 DEF IInv, RowsCovered
  <2> QED BY Zenon, <1>1, <1>3, <2>1, <2>2, <2>3, LaterKeeps DEF EndSlice, slots
<1> QED BY Zenon, <1>2, <1>3 DEF EndSlice

\* The passes over a finished table of keys find every key.
LEMMA PassKeeps ==
    ASSUME NoMaxKey, IInv, NEW t \in Threads, CountMatch(t) \/ FillRowId(t)
    PROVE  IInv'
<1>1. phase \in {"count", "ids"} /\ HasRow(t)
      BY Zenon DEF CountMatch, FillRowId
<1>2. \A r \in Rows : Filed(r)
      BY Zenon, <1>1 DEF IInv, RowsCovered
<1>3. Matching(Key(t)) # {}
      BY Zenon, <1>1, <1>2, RowHasKey DEF IInv, Filed, Key, HasRow
<1>4. NextRow(t) /\ UNCHANGED <<input, table, slots, phase>>
      BY Zenon, <1>3 DEF CountMatch, FillRowId
<1>5. TypeOK'
      BY Zenon, <1>4, MoveTypes DEF IInv, TypeOK, Slots, input, table, slots
<1>6. \A u \in Threads : ~Working(u)
      BY Zenon, <1>1 DEF IInv, WorkersFill
<1>7. \A u \in Threads : ~Working(u)'
      BY Zenon, <1>4, <1>6 DEF NextRow, IInv, TypeOK, Working
<1> QED BY Zenon, <1>1, <1>2, <1>4, <1>5, <1>6, <1>7, LaterKeeps DEF slots

\* Starting the threads gives them the types of their state.
LEMMA StartTypes ==
    ASSUME StartThreads
    PROVE  /\ pc' \in [Threads -> Labels] /\ row' \in [Threads -> Nat]
           /\ off' \in [Threads -> Nat] /\ err' \in [Threads -> {0, -1, -2}]
           /\ \A t \in Threads : pc'[t] = "probe" /\ row'[t] = t /\ off'[t] = 0
BY ThreadsAssumption DEF StartThreads, Labels, Threads

\* Joining the threads of a pass starts the next, a retry or the end.
LEMMA JoinedKeeps ==
    ASSUME NoMaxKey, IInv, FillJoined \/ CountJoined \/ IdsJoined
    PROVE  IInv'
<1>1. \A t \in Threads : pc[t] = "end"
      BY Zenon DEF FillJoined, CountJoined, IdsJoined, AllEnded
<1>2. \A t \in Threads : ~Working(t)
      BY Zenon, <1>1 DEF Working
<1>u. UNCHANGED <<input, entry_count, slots>>
      BY Zenon DEF FillJoined, CountJoined, IdsJoined, table
<1>3. TypeOK'
      BY Zenon, <1>u, StartTypes
      DEF FillJoined, CountJoined, IdsJoined, IInv, TypeOK, Slots, input, table, slots, threads
<1>4. \A t \in Threads : ~Working(t)'
      BY Zenon, <1>2, StartTypes DEF FillJoined, CountJoined, IdsJoined, Working, threads
<1>5. phase = "fill" /\ ~FillFailed => \A r \in Rows : Filed(r)
      BY Zenon, <1>1 DEF IInv, RowsCovered, FillFailed
<1>6. phase \in {"count", "ids"} => \A r \in Rows : Filed(r)
      BY Zenon DEF IInv, RowsCovered
<1>7. CASE UNCHANGED table
  <2>1. /\ phase' \in {"count", "ids", "done", "failed"} /\ phase # "reify"
        /\ phase' \in {"count", "ids"} => \A r \in Rows : Filed(r)
    <3>1. CASE FillJoined
          BY <3>1, <1>5, <1>7 DEF FillJoined, table
    <3>2. CASE CountJoined \/ IdsJoined
          BY Zenon, <3>2, <1>6 DEF CountJoined, IdsJoined
    <3> QED BY Zenon, <3>1, <3>2
  <2> QED BY Zenon, <2>1, <1>u, <1>2, <1>3, <1>4, <1>7, LaterKeeps DEF slots
<1>8. CASE phase' = "reify" /\ FillJoined
  <2>s. /\ entry_count' = entry_count /\ column' = column /\ Slots' = Slots
        /\ lead' = lead /\ rest' = rest
        BY Zenon, <1>u DEF input, Slots, slots
  <2>1. WorkersFill' /\ RestCopied' /\ SlotSeen'
        BY Zenon, <1>4 DEF WorkersFill, RestCopied, SlotSeen, Working
  <2>2. TableSized' /\ OffsetsBounded' /\ Passed' /\ KeysFound' /\ RowsCovered'
        BY Zenon, <1>8 DEF TableSized, OffsetsBounded, Passed, KeysFound, RowsCovered
  <2>3. ClaimsOwned'
    <3>1. \A t \in Threads : ~Owns(t) /\ ~Owns(t)'
          BY Zenon, <1>2, <1>4 DEF Owns, Working
    <3> QED BY Zenon, <3>1, <2>s DEF IInv, ClaimsOwned
  <2>4. Chain'
        BY Zenon, <2>s DEF IInv, Chain, Holds, At, IsOther, IsPublished
  <2> QED BY Zenon, <1>3, <2>1, <2>2, <2>3, <2>4 DEF IInv
<1> QED BY Zenon, <1>7, <1>8 DEF FillJoined, CountJoined, IdsJoined, table

\* Every row is in the slice of a thread.
LEMMA SlicesCover ==
    ASSUME NEW r \in Nat
    PROVE  \E t \in Threads, n \in Nat : r = t + n * ThreadCount
<1>1. r % ThreadCount \in Threads /\ r \div ThreadCount \in Nat
      BY ThreadsAssumption DEF Threads
<1>2. r = (r % ThreadCount) + (r \div ThreadCount) * ThreadCount
      BY ThreadsAssumption
<1> QED BY Zenon, <1>1, <1>2

\* The estimate makes a table with slots.
LEMMA EstimateIsPositive ==
    ASSUME NEW n \in approximateTupleCount
    PROVE  2 * Max({n, 1}) \in Nat /\ 2 * Max({n, 1}) > 0
<1>1. n \in Nat
      BY DEF approximateTupleCount
<1>2. PICK x \in {n, 1} : \A y \in {n, 1} : x >= y
      BY <1>1
<1>3. Max({n, 1}) \in {n, 1} /\ \A y \in {n, 1} : Max({n, 1}) >= y
      BY Zenon, <1>2 DEF Max
<1> QED BY <1>1, <1>3

\* A fresh table is empty, and the threads have all the rows before them.
LEMMA ReifyKeeps ==
    ASSUME NoMaxKey, IInv, reifyWithLayout
    PROVE  IInv'
<1>1. entry_count' \in Nat /\ (NumElems = 0 \/ entry_count' > 0)
  <2>1. CASE layout = "OneToMany"
        BY Zenon, <2>1, EstimateIsPositive DEF reifyWithLayout
  <2>2. CASE layout # "OneToMany"
        BY <2>2, ElemsAssumption DEF reifyWithLayout
  <2> QED BY Zenon, <2>1, <2>2
<1>2. /\ \A s \in Slots' : lead'[s] = empty_key /\ rest'[s] = empty_key
      /\ phase' = "fill" /\ column' = column
      BY Zenon DEF reifyWithLayout, input
<1>s. /\ pc' \in [Threads -> Labels] /\ row' \in [Threads -> Nat]
      /\ off' \in [Threads -> Nat] /\ err' \in [Threads -> {0, -1, -2}]
      /\ \A t \in Threads : pc'[t] = "probe" /\ row'[t] = t /\ off'[t] = 0
      BY Zenon, StartTypes DEF reifyWithLayout
<1>3. TypeOK'
      BY Zenon, <1>1, <1>s, KeysAssumption DEF reifyWithLayout, IInv, TypeOK, input, empty_key
<1>4. WorkersFill' /\ RestCopied' /\ SlotSeen'
      BY Zenon, <1>s DEF WorkersFill, RestCopied, SlotSeen, Working
<1>5. TableSized' /\ OffsetsBounded' /\ KeysFound'
      BY Zenon, <1>1, <1>2, <1>s DEF TableSized, OffsetsBounded, KeysFound
<1>6. Passed'
      BY <1>s DEF Passed
<1>7. ClaimsOwned'
  <2>1. empty_key # write_pending
        BY KeysAssumption DEF empty_key, write_pending
  <2> QED BY Zenon, <2>1, <1>2, <1>s DEF ClaimsOwned, Owns
<1>8. Chain'
      BY Zenon, <1>2, KeyNotEmpty DEF Chain, Holds
<1>9. RowsCovered'
  <2> SUFFICES ASSUME NEW r \in Rows
               PROVE  \E t \in Threads : pc'[t] # "end" /\ Reaches(t, r)'
      BY Zenon, <1>2 DEF RowsCovered
  <2> QED BY <1>s, SlicesCover, ElemsAssumption DEF Reaches, Rows
<1> QED BY Zenon, <1>3, <1>4, <1>5, <1>6, <1>7, <1>8, <1>9 DEF IInv

\* The invariant holds before the build.
LEMMA InitHolds ==
    ASSUME NoMaxKey, Init
    PROVE  IInv
<1>1. Slots = {} /\ entry_count = 0 /\ phase = "reify"
      BY DEF Init, Slots
<1>2. TypeOK
      BY <1>1, ThreadsAssumption DEF Init, TypeOK, Labels, Threads
<1>3. \A t \in Threads : pc[t] = "end"
      BY Zenon DEF Init
<1>4. WorkersFill /\ RestCopied /\ SlotSeen
      BY Zenon, <1>3 DEF WorkersFill, RestCopied, SlotSeen, Working
<1>5. TableSized /\ OffsetsBounded /\ Passed /\ RowsCovered /\ KeysFound
      BY Zenon, <1>1 DEF TableSized, OffsetsBounded, Passed, RowsCovered, KeysFound
<1>6. ClaimsOwned /\ Chain
      BY Zenon, <1>1, <1>3 DEF ClaimsOwned, Owns, Chain
<1> QED BY Zenon, <1>2, <1>4, <1>5, <1>6 DEF IInv

\* Every step keeps the invariant.
LEMMA NextKeeps ==
    ASSUME NoMaxKey, IInv, [Next]_vars
    PROVE  IInv'
<1>1. CASE BuilderStep
      BY Zenon, <1>1, ReifyKeeps, JoinedKeeps DEF BuilderStep
<1>2. ASSUME NEW t \in Threads, ThreadStep(t)
      PROVE  IInv'
      BY Zenon, <1>2, SkipRowKeeps, EndSliceKeeps, ClaimKeeps, CopyRestKeeps, PublishKeeps,
         SpinKeeps, CompareLeadKeeps, CompareRestKeeps, WriteValueKeeps, PassKeeps
      DEF ThreadStep
<1>3. CASE UNCHANGED vars
  <2>1. /\ column' = column /\ semi' = semi
        /\ layout' = layout /\ attempt' = attempt /\ entry_count' = entry_count
        /\ lead' = lead /\ rest' = rest /\ val' = val
        /\ count_buff' = count_buff /\ pos_buff' = pos_buff /\ id_buff' = id_buff
        /\ phase' = phase /\ pc' = pc /\ row' = row /\ off' = off /\ err' = err
        BY Zenon, <1>3 DEF vars, input, table, slots, buffs, threads
  <2>2. TypeOK'
        BY Zenon, <2>1 DEF IInv, TypeOK, Slots
  <2>3. WorkersFill' /\ TableSized' /\ OffsetsBounded'
        BY Zenon, <2>1 DEF IInv, WorkersFill, TableSized, OffsetsBounded, Working, Slots, HasRow, Key
  <2>4. ClaimsOwned' /\ RestCopied' /\ SlotSeen'
        BY Zenon, <2>1 DEF IInv, ClaimsOwned, RestCopied, SlotSeen, Owns, IsPublished, Holds,
           Slots, Slot, Key, At
  <2>5. Chain' /\ Passed'
        BY Zenon, <2>1 DEF IInv, Chain, Passed, IsOther, IsPublished, Holds, At, Slots, Key, HasRow
  <2>6. RowsCovered' /\ KeysFound'
        BY Zenon, <2>1 DEF IInv, RowsCovered, KeysFound, Filed, Matching, Reaches, Holds, Slots, At,
           Key, HasRow
  <2> QED BY Zenon, <2>2, <2>3, <2>4, <2>5, <2>6 DEF IInv
<1> QED BY Zenon, <1>1, <1>2, <1>3 DEF Next
-----------------------------------------------------------------------------
\* However the threads interleave, a key is published in one slot only: the
\* claim, copy, publish and spin steps of get_matching_baseline_hash_slot_at
\* are enough for any number of threads and any hash function.
THEOREM KeysHaveOneSlot ==
    ASSUME NoMaxKey
    PROVE  Spec => []OneSlotPerKey
<1>1. Init => IInv
      BY Zenon, InitHolds
<1>2. IInv /\ [Next]_vars => IInv'
      BY Zenon, NextKeeps
<1>3. IInv => OneSlotPerKey
      BY Zenon, ChainGivesOneSlot DEF IInv, TypeOK
<1> QED BY <1>1, <1>2, <1>3, PTL DEF Spec

\* The passes that count and file the rows of a one-to-many table find every
\* key: get_matching_baseline_hash_slot_readonly does not reach CHECK(false).
THEOREM KeysAreFound ==
    ASSUME NoMaxKey
    PROVE  Spec => []KeysFound
<1>1. Init => IInv
      BY Zenon, InitHolds
<1>2. IInv /\ [Next]_vars => IInv'
      BY Zenon, NextKeeps
<1>3. IInv => KeysFound
      BY Zenon DEF IInv
<1> QED BY <1>1, <1>2, <1>3, PTL DEF Spec
=============================================================================

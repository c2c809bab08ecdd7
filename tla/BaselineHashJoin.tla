-------------------------- MODULE BaselineHashJoin --------------------------
(* The build of a keyed (baseline) join hash table on the CPU, and the       *)
(* lookups of the generated code: BaselineJoinHashTable::reify, the builder  *)
(* BaselineJoinHashTableBuilder::initHashTableOnCpu and the runtime          *)
(* functions of HashJoinRuntime.cpp and JoinHashTableQueryRuntime.cpp.       *)
(*                                                                           *)
(* ThreadCount threads insert the keys of their rows into one open-addressed *)
(* table.  A thread claims an empty slot by a compare-and-swap of the first  *)
(* key component to write_pending, writes the other components, and          *)
(* publishes the key by storing its first component; a thread that loses the *)
(* race spins until then and compares.  A one-to-one table keeps the row in  *)
(* the slot and fails on the second row of a key; the build then starts over *)
(* with a one-to-many table, whose rows are counted and filed in two more    *)
(* parallel passes.                                                          *)
(*                                                                           *)
(* A key is <<first component, the other components>>; a thread that works   *)
(* on the other components is alone on the slot.  Slots are numbered, byte   *)
(* offsets are left out: initHashTableOnCpu refuses tables over 2GB.         *)
EXTENDS Integers, FiniteSets, FiniteSetsExt, Functions

CONSTANTS
    ThreadCount,    \* cpu_threads()
    NumElems,       \* the rows of the inner table, join_columns[0].num_elems
    MaxVal,         \* the largest value of the component type T
    Keys,           \* the keys of inner and outer rows
    Murmur,         \* MurmurHash1: a number for every key
    EstimateError   \* how far the HyperLogLog estimate may be off

ASSUME ThreadsAssumption == ThreadCount \in Nat \ {0}
ASSUME ElemsAssumption == NumElems \in Nat
ASSUME KeysAssumption == /\ MaxVal \in Int
                         /\ \A k \in Keys : k \in Int \X Int
ASSUME MurmurAssumption == Murmur \in [Keys -> Nat]
ASSUME ErrorAssumption == EstimateError \in Nat

Threads == 0 .. ThreadCount - 1
Rows == 0 .. NumElems - 1

empty_key == MaxVal
write_pending == MaxVal - 1
invalid_slot_val == -1

\* A row GenericKeyHandler passes over: a null component, or a string that
\* the outer dictionary does not hold.
Skipped == <<>>

VARIABLES
    column,         \* row -> its key, or Skipped
    semi,           \* join_type_ is SEMI or ANTI
    layout,         \* of the table being built
    attempt,        \* of reify: 1, then 2 for the one-to-many fallback
    entry_count,
    lead,           \* slot -> first key component
    rest,           \* slot -> the other key components
    val,            \* slot -> row (one-to-one tables)
    count_buff,     \* slot -> number of rows (one-to-many tables)
    pos_buff,       \* slot -> first index of its rows in id_buff
    id_buff,        \* rows, grouped by slot
    phase,          \* what the builder is doing
    pc, row, off,   \* per thread: step, current row, probe offset
    err             \* per thread: the result of fill_baseline_hash_join_buff

input == <<column, semi>>
table == <<layout, attempt, entry_count>>
slots == <<lead, rest, val>>
buffs == <<count_buff, pos_buff, id_buff>>
threads == <<pc, row, off, err>>
vars == <<input, table, slots, buffs, phase, threads>>

Labels == {"probe", "copy", "publish", "spin", "lead", "rest", "value", "end"}

Slots == 0 .. entry_count - 1
At(k, i) == (Murmur[k] + i) % entry_count
Holds(s, k) == lead[s] = k[1] /\ rest[s] = k[2]
with_val_slot == layout = "OneToOne"

\* (mutant of for_semi_join) Every join takes the semi join's variant.
for_any_join == layout = "OneToOne"

for_semi_join == semi /\ layout = "OneToOne"

Key(t) == column[row[t]]
Slot(t) == At(Key(t), off[t])
HasRow(t) == row[t] < NumElems /\ Key(t) # Skipped
-----------------------------------------------------------------------------
(* BaselineJoinHashTable::reify and reifyWithLayout                          *)

DistinctKeys == {column[r] : r \in Rows} \ {Skipped}

\* The estimate of the number of keys that sizes a one-to-many table.
approximateTupleCount ==
    LET n == Cardinality(DistinctKeys)
    IN  {m \in 0 .. n + EstimateError : m >= n - EstimateError}

Init ==
    /\ column \in [Rows -> Keys \cup {Skipped}]
    /\ semi \in BOOLEAN
    /\ layout \in {"OneToOne", "OneToMany"}
    /\ attempt = 1
    /\ entry_count = 0
    /\ lead = [s \in Slots |-> empty_key]
    /\ rest = [s \in Slots |-> empty_key]
    /\ val = [s \in Slots |-> invalid_slot_val]
    /\ count_buff = <<>> /\ pos_buff = <<>> /\ id_buff = <<>>
    /\ phase = "reify"
    /\ pc = [t \in Threads |-> "end"]
    /\ row = [t \in Threads |-> t]
    /\ off = [t \in Threads |-> 0]
    /\ err = [t \in Threads |-> 0]

\* Every thread (again) at the first row of its slice.
StartThreads ==
    /\ pc' = [t \in Threads |-> "probe"]
    /\ row' = [t \in Threads |-> t]
    /\ off' = [t \in Threads |-> 0]
    /\ err' = [t \in Threads |-> 0]

reifyWithLayout ==
    /\ phase = "reify"
    /\ phase' = "fill"
    /\ IF layout = "OneToMany"
       THEN \E n \in approximateTupleCount : entry_count' = 2 * Max({n, 1})
       ELSE entry_count' = 2 * NumElems
    /\ lead' = [s \in Slots' |-> empty_key]
    /\ rest' = [s \in Slots' |-> empty_key]
    /\ val' = [s \in Slots' |-> invalid_slot_val]
    /\ StartThreads
    /\ UNCHANGED <<input, layout, attempt, buffs>>
-----------------------------------------------------------------------------
(* fill_baseline_hash_join_buff: one step per atomic access of a thread      *)

\* The thread goes on to the next row of its slice.
NextRow(t) ==
    /\ pc' = [pc EXCEPT ![t] = "probe"]
    /\ row' = [row EXCEPT ![t] = @ + ThreadCount]
    /\ off' = [off EXCEPT ![t] = 0]
    /\ UNCHANGED err

EndWith(t, e) ==
    /\ pc' = [pc EXCEPT ![t] = "end"]
    /\ err' = [err EXCEPT ![t] = e]
    /\ UNCHANGED <<row, off>>

GoTo(t, label) ==
    /\ pc' = [pc EXCEPT ![t] = label]
    /\ UNCHANGED <<row, off, err>>

\* (mutant of NextSlot) The last slot of the turn is not tried.
NextSlotShort(t) ==
    IF off[t] + 2 < entry_count
    THEN /\ pc' = [pc EXCEPT ![t] = "probe"]
         /\ off' = [off EXCEPT ![t] = @ + 1]
         /\ UNCHANGED <<row, err>>
    ELSE EndWith(t, -2)

\* (mutant of NextSlot) The probe does not notice the end of the turn.
NextSlotCircles(t) ==
    /\ pc' = [pc EXCEPT ![t] = "probe"]
    /\ off' = [off EXCEPT ![t] = (@ + 1) % entry_count]
    /\ UNCHANGED <<row, err>>

\* The slot at h_probe is not the key's: write_baseline_hash_slot tries the
\* next one, and gives up after a full turn.
NextSlot(t) ==
    IF off[t] + 1 < entry_count
    THEN /\ pc' = [pc EXCEPT ![t] = "probe"]
         /\ off' = [off EXCEPT ![t] = @ + 1]
         /\ UNCHANGED <<row, err>>
    ELSE EndWith(t, -2)

SkipRow(t) ==
    /\ phase \in {"fill", "count", "ids"}
    /\ pc[t] = "probe" /\ row[t] < NumElems /\ Key(t) = Skipped
    /\ NextRow(t)
    /\ UNCHANGED <<input, table, slots, buffs, phase>>

EndSlice(t) ==
    /\ phase \in {"fill", "count", "ids"}
    /\ pc[t] = "probe" /\ row[t] >= NumElems
    /\ EndWith(t, 0)
    /\ UNCHANGED <<input, table, slots, buffs, phase>>

\* get_matching_baseline_hash_slot_at, up to its compare-and-swap.
Claim(t) ==
    /\ phase = "fill" /\ pc[t] = "probe" /\ HasRow(t)
    /\ IF Key(t)[1] = write_pending
       THEN NextSlot(t) /\ UNCHANGED lead
       ELSE IF lead[Slot(t)] = empty_key
            THEN /\ lead' = [lead EXCEPT ![Slot(t)] = write_pending]
                 /\ GoTo(t, "copy")
            ELSE GoTo(t, "spin") /\ UNCHANGED lead
    /\ UNCHANGED <<input, table, rest, val, buffs, phase>>

CopyRest(t) ==
    /\ pc[t] = "copy"
    /\ rest' = [rest EXCEPT ![Slot(t)] = Key(t)[2]]
    /\ GoTo(t, "publish")
    /\ UNCHANGED <<input, table, lead, val, buffs, phase>>

Publish(t) ==
    /\ pc[t] = "publish"
    /\ lead' = [lead EXCEPT ![Slot(t)] = Key(t)[1]]
    /\ IF with_val_slot THEN GoTo(t, "value") ELSE NextRow(t)
    /\ UNCHANGED <<input, table, rest, val, buffs, phase>>

\* (mutant of Spin) The thread does not wait for the winner.
SpinNot(t) ==
    /\ pc[t] = "spin"
    /\ GoTo(t, "lead")
    /\ UNCHANGED <<input, table, slots, buffs, phase>>

\* Enabled when the winning thread has published its key.
Spin(t) ==
    /\ pc[t] = "spin"
    /\ lead[Slot(t)] # write_pending
    /\ GoTo(t, "lead")
    /\ UNCHANGED <<input, table, slots, buffs, phase>>

CompareLead(t) ==
    /\ pc[t] = "lead"
    /\ IF lead[Slot(t)] = Key(t)[1] THEN GoTo(t, "rest") ELSE NextSlot(t)
    /\ UNCHANGED <<input, table, slots, buffs, phase>>

CompareRest(t) ==
    /\ pc[t] = "rest"
    /\ IF rest[Slot(t)] # Key(t)[2] THEN NextSlot(t)
       ELSE IF with_val_slot THEN GoTo(t, "value") ELSE NextRow(t)
    /\ UNCHANGED <<input, table, slots, buffs, phase>>

\* The compare-and-swap of the slot's row.
WriteValue(t) ==
    /\ pc[t] = "value"
    /\ IF val[Slot(t)] = invalid_slot_val
       THEN val' = [val EXCEPT ![Slot(t)] = row[t]] /\ NextRow(t)
       ELSE /\ UNCHANGED val
            /\ IF for_semi_join THEN NextRow(t) ELSE EndWith(t, -1)
    /\ UNCHANGED <<input, table, lead, rest, buffs, phase>>
-----------------------------------------------------------------------------
(* initHashTableOnCpu joins the threads; reify retries once, as one-to-many. *)

AllEnded == \A t \in Threads : pc[t] = "end"

\* (mutant of FillFailed) Only the first thread is asked.
FirstFailed == err[0] # 0

\* initHashTableOnCpu returns the error of the last thread that has one.
FillFailed == \E t \in Threads : err[t] # 0

FillJoined ==
    /\ phase = "fill" /\ AllEnded
    /\ IF FillFailed
       THEN /\ IF attempt = 1
               THEN phase' = "reify" /\ layout' = "OneToMany" /\ attempt' = 2
               ELSE phase' = "failed" /\ UNCHANGED <<layout, attempt>>
            /\ UNCHANGED <<buffs, threads>>
       ELSE /\ UNCHANGED <<layout, attempt>>
            /\ IF with_val_slot
               THEN phase' = "done" /\ UNCHANGED <<buffs, threads>>
               ELSE /\ phase' = "count"
                    /\ count_buff' = [s \in Slots |-> 0]
                    /\ pos_buff' = [s \in Slots |-> invalid_slot_val]
                    /\ id_buff' = [i \in Rows |-> invalid_slot_val]
                    /\ StartThreads
    /\ UNCHANGED <<input, entry_count, slots>>
-----------------------------------------------------------------------------
(* fill_one_to_many_baseline_hash_table                                      *)

\* get_matching_baseline_hash_slot_readonly: the offsets it could return.
Matching(k) == {i \in Slots : Holds(At(k, i), k)}

\* CHECK(false) in that function: the key of a row is not in the table.
CheckFails(t) ==
    /\ phase' = "aborted"
    /\ UNCHANGED <<buffs, threads>>

CountMatch(t) ==
    /\ phase = "count" /\ pc[t] = "probe" /\ HasRow(t)
    /\ IF Matching(Key(t)) = {} THEN CheckFails(t)
       ELSE LET s == At(Key(t), Min(Matching(Key(t))))
            IN  /\ count_buff' = [count_buff EXCEPT ![s] = @ + 1]
                /\ NextRow(t)
                /\ UNCHANGED <<pos_buff, id_buff, phase>>
    /\ UNCHANGED <<input, table, slots>>

\* The positions are the exclusive sums of the counts; the counts restart.
CountJoined ==
    /\ phase = "count" /\ AllEnded
    /\ phase' = "ids"
    /\ pos_buff' = [s \in Slots |-> IF count_buff[s] # 0
                                    THEN FoldFunctionOnSet(+, 0, count_buff, 0 .. s - 1)
                                    ELSE pos_buff[s]]
    /\ count_buff' = [s \in Slots |-> 0]
    /\ StartThreads
    /\ UNCHANGED <<input, table, slots, id_buff>>

\* The fetch-and-add gives every row an index of its own.
FillRowId(t) ==
    /\ phase = "ids" /\ pc[t] = "probe" /\ HasRow(t)
    /\ IF Matching(Key(t)) = {} THEN CheckFails(t)
       ELSE LET s == At(Key(t), Min(Matching(Key(t))))
            IN  /\ count_buff' = [count_buff EXCEPT ![s] = @ + 1]
                /\ id_buff' = [id_buff EXCEPT ![count_buff[s] + pos_buff[s]] = row[t]]
                /\ NextRow(t)
                /\ UNCHANGED <<pos_buff, phase>>
    /\ UNCHANGED <<input, table, slots>>

IdsJoined ==
    /\ phase = "ids" /\ AllEnded
    /\ phase' = "done"
    /\ UNCHANGED <<input, table, slots, buffs, threads>>
-----------------------------------------------------------------------------
ThreadStep(t) ==
    \/ SkipRow(t) \/ EndSlice(t) \/ Claim(t) \/ CopyRest(t) \/ Publish(t)
    \/ Spin(t) \/ CompareLead(t) \/ CompareRest(t) \/ WriteValue(t)
    \/ CountMatch(t) \/ FillRowId(t)

BuilderStep == reifyWithLayout \/ FillJoined \/ CountJoined \/ IdsJoined

Next == BuilderStep \/ \E t \in Threads : ThreadStep(t)

Spec == Init /\ [][Next]_vars

\* The threads are std::async tasks the operating system keeps scheduling.
FairSpec ==
    /\ Spec
    /\ WF_vars(BuilderStep)
    /\ \A t \in Threads : WF_vars(ThreadStep(t))
-----------------------------------------------------------------------------
(* The lookups of the generated code in a finished table                     *)

FirstOf(k, offsets) == At(k, Min(offsets))

\* baseline_hash_join_idx_impl: stops at the key or at an empty slot.
baseline_hash_join_idx(k) ==
    LET stops == {i \in Slots : Holds(At(k, i), k) \/ lead[At(k, i)] = empty_key}
    IN  IF stops = {} THEN -1
        ELSE IF Holds(FirstOf(k, stops), k) THEN val[FirstOf(k, stops)]
        ELSE -2

\* get_composite_key_index_impl: an empty first slot does not stop it.
get_composite_key_index(k) ==
    LET stops == {i \in Slots : \/ Holds(At(k, i), k)
                                \/ i > 0 /\ lead[At(k, i)] = empty_key}
    IN  IF stops = {} THEN -1
        ELSE IF Holds(FirstOf(k, stops), k) THEN FirstOf(k, stops)
        ELSE -1

\* HashJoin::codegenMatchingSet: the rows the join loop visits.
codegenMatchingSet(k) ==
    LET e == get_composite_key_index(k)
    IN  IF e < 0 \/ pos_buff[e] < 0 THEN <<>>
        ELSE [i \in 1 .. count_buff[e] |-> id_buff[pos_buff[e] + i - 1]]
-----------------------------------------------------------------------------
RowsOf(k) == {r \in Rows : column[r] = k}

\* Every variable stays within its domain.
TypeOK ==
    /\ column \in [Rows -> Keys \cup {Skipped}]
    /\ semi \in BOOLEAN
    /\ layout \in {"OneToOne", "OneToMany"}
    /\ attempt \in {1, 2}
    /\ entry_count \in Nat
    /\ phase \in {"reify", "fill", "count", "ids", "done", "failed", "aborted"}
    /\ pc \in [Threads -> Labels]
    /\ row \in [Threads -> Nat]
    /\ off \in [Threads -> Nat]
    /\ err \in [Threads -> {0, -1, -2}]
    /\ lead \in [Slots -> Int]
    /\ rest \in [Slots -> Int]
    /\ val \in [Slots -> Rows \cup {invalid_slot_val}]

\* A key is published in one slot only, however the threads that insert it
\* race (get_matching_baseline_hash_slot_at).
OneSlotPerKey ==
    \A k \in Keys, s, u \in Slots :
        k[1] # write_pending /\ Holds(s, k) /\ Holds(u, k) => s = u

\* The second and third pass find the key of every row: the CHECK(false) of
\* get_matching_baseline_hash_slot_readonly is not reached.
KeysFound == phase # "aborted"

\* In a finished table the generated code finds, for every outer key, exactly
\* the inner rows that have it, each of them once; a one-to-one table holds
\* the one row, that of a semi join any one.
JoinIsExact ==
    phase = "done" => \A k \in Keys :
        IF layout = "OneToMany"
        THEN LET ids == codegenMatchingSet(k)
             IN  /\ IsInjective(ids)
                 /\ Range(ids) = RowsOf(k)
        ELSE LET idx == baseline_hash_join_idx(k)
             IN  IF RowsOf(k) = {} THEN idx < 0
                 ELSE idx \in RowsOf(k) /\ (semi \/ RowsOf(k) = {idx})

PendingKey == \E r \in Rows : column[r] # Skipped /\ column[r][1] = write_pending
RepeatedKey == \E r, u \in Rows : r # u /\ column[r] = column[u] /\ column[r] # Skipped

\* The build gives up only on a key whose first component is write_pending,
\* and abandons the one-to-one table only for that or for a repeated key.
FailsForCause ==
    /\ phase = "failed" => PendingKey
    /\ attempt = 2 => PendingKey \/ (RepeatedKey /\ ~semi)

\* Every build ends: no thread spins forever on a slot, no thread circles the
\* table, and the fallback is tried once.
BuildEnds == <>(phase \in {"done", "failed"})
=============================================================================

----------------------------- MODULE ArrowTable -----------------------------
(***************************************************************************)
(* One table of ArrowStorage, with one column: how appendArrowTable cuts   *)
(* the rows of many Arrow tables into fragments, how fetchBuffer puts a    *)
(* fragment of many Arrow chunks into the buffers of a chunk, and what     *)
(* queries get that run while rows are appended.                           *)
(*                                                                         *)
(* An append holds the lock of the table and is one step, and so is a      *)
(* fetch.  A query takes none of the locks when it reads the metadata that *)
(* getTableMetadata shares with it.  Sizes are in elements: a number, an   *)
(* element of an array, a character and an offset each count for one.      *)
(***************************************************************************)
EXTENDS Integers, Sequences, SequencesExt, FiniteSetsExt

CONSTANTS
    Kinds,          \* the types of columns looked at, of AllKinds
    InputRows,      \* kind -> the rows an Arrow table may have
    ListSize,       \* numElems() of the fixed length array type
    FragmentSize,   \* fragment_size
    Queries,
    MaxRows,        \* bound: rows of the table
    MaxAppendRows,  \* bound: rows of an appended Arrow table
    MaxAppends,     \* bound: calls of appendArrowTable
    MaxFetches,     \* bound: chunks a query gets
    Null,           \* a null of Arrow, and the value that stands for one
    NullArray,      \* the first element of a null array
    Hi, Lo          \* numeric_limits max() and lowest()

AllKinds == {"int", "fixed", "text", "array"}

ASSUME TableAssumption ==
    /\ Kinds \subseteq AllKinds
    /\ ListSize \in Nat \ {0}
    /\ FragmentSize \in Nat \ {0}
    /\ {MaxRows, MaxAppendRows, MaxAppends, MaxFetches} \subseteq Nat

VARIABLES
    kind,           \* the type of the column
    rows,           \* history: all rows appended, in order
    col_data,       \* the chunks of the column
    fragments,      \* the fragments: offset, row_count
    metadata,       \* fragment -> its ChunkMetadata
    buffers,        \* fragment -> what the CPU level has of it: data and index
    qs,             \* query -> what it is doing
    appends,        \* calls of appendArrowTable so far
    failed          \* the check that ended the process, "no" while it runs

table == <<rows, col_data, fragments, metadata>>
vars == <<kind, table, buffers, qs, appends, failed>>

VarLen == kind \in {"text", "array"}

\* Elements per row of a column that is not variable length.
Elems == IF kind = "fixed" THEN ListSize ELSE 1
-----------------------------------------------------------------------------
(* Arrow arrays.  A chunk of a variable length column is [offs, data], any   *)
(* other is the sequence of its elements.                                    *)

Length(chunk) == IF VarLen THEN Len(chunk.offs) - 1 ELSE Len(chunk)

SubChunk(chunk, from, n) ==
    IF VarLen THEN [offs |-> SubSeq(chunk.offs, from + 1, from + n + 1),
                    data |-> chunk.data]
    ELSE SubSeq(chunk, from + 1, from + n)

LengthOf(chunks) == FoldLeft(LAMBDA sum, c : sum + Length(c), 0, chunks)

\* ChunkedArray::Slice
Slice(chunks, offset, n) ==
    LET start(i) == LengthOf(SubSeq(chunks, 1, i - 1))
        from(i) == Max({0, offset - start(i)})
        to(i) == Min({Length(chunks[i]), offset + n - start(i)})
        part(i) == IF from(i) < to(i) THEN <<SubChunk(chunks[i], from(i), to(i) - from(i))>>
                   ELSE <<>>
    IN  FlattenSeq([i \in 1..Len(chunks) |-> part(i)])

\* A list or string array of the rows.
ListChunk(rs) ==
    [offs |-> [i \in 1..Len(rs) + 1 |-> Len(FlattenSeq(SubSeq(rs, 1, i - 1)))],
     data |-> FlattenSeq(rs)]
-----------------------------------------------------------------------------
(* Importing: replaceNullValues makes one chunk of what it rewrites.         *)

HasNulls(rs) == \E i \in DOMAIN rs : rs[i] = Null

\* A row of a fixed length array: padded with nulls, or cut.
FixedRow(r) ==
    IF r = Null THEN [j \in 1..ListSize |-> IF j = 1 THEN NullArray ELSE Null]
    ELSE [j \in 1..ListSize |-> IF j <= Len(r) THEN r[j] ELSE Null]

Text(r) == IF r = Null THEN <<>> ELSE r

\* The column of an Arrow table of the rows rs, the first split of them in one
\* chunk, as it is stored.
Import(rs, split) ==
    LET chunks == IF split = Len(rs) THEN <<rs>>
                  ELSE <<SubSeq(rs, 1, split), SubSeq(rs, split + 1, Len(rs))>>
        each(R(_), sq) == [i \in DOMAIN sq |-> R(sq[i])]
    IN  CASE kind = "int" -> IF HasNulls(rs) THEN <<rs>> ELSE chunks
          [] kind = "fixed" -> <<FlattenSeq(each(FixedRow, rs))>>
          [] kind = "text" -> [c \in DOMAIN chunks |-> ListChunk(each(Text, chunks[c]))]
          [] kind = "array" -> <<ListChunk(rs)>>

NoStats == [min |-> Hi, max |-> Lo, has_nulls |-> FALSE]

\* NoneEncoder::updateStatsEncoded on elements, then fillChunkStats.
ElementStats(es) ==
    LET values == Range(es) \ {Null, NullArray}
    IN  [min |-> Min(values \cup {Hi}), max |-> Max(values \cup {Lo}),
         has_nulls |-> Null \in Range(es)]

\* (mutant of MergeStats) has_nulls is that of the existing fragment
MergeStatsKeepsNulls(s, t) ==
    [min |-> Min({s.min, t.min}), max |-> Max({s.max, t.max}), has_nulls |-> s.has_nulls]

MergeStats(s, t) ==
    [min |-> Min({s.min, t.min}), max |-> Max({s.max, t.max}),
     has_nulls |-> s.has_nulls \/ t.has_nulls]

\* computeTotalStringsLength
TotalLength(chunks, offset, n) ==
    FoldLeft(LAMBDA sum, c : sum + c.offs[Len(c.offs)] - c.offs[1], 0,
             Slice(chunks, offset, n))

\* The metadata of a new fragment.  The statistics of a variable length array are
\* left out: computeStats looks for the elements at a wrong address.
NewMetadata(rs, chunks, frag) ==
    LET n == frag.row_count
    IN  [numElements |-> n,
         numBytes |-> IF VarLen THEN TotalLength(chunks, frag.offset, n) ELSE n * Elems,
         stats |-> CASE kind = "array" -> NoStats
                     [] kind = "text" ->
                          [NoStats EXCEPT !.has_nulls =
                             HasNulls(SubSeq(rs, frag.offset + 1, frag.offset + n))]
                     [] OTHER ->
                          ElementStats(FlattenSeq(Slice(chunks, frag.offset, n * Elems)))]
-----------------------------------------------------------------------------
(* appendArrowTable.                                                         *)

\* The first new fragment is merged with the last existing one if that is not full.
FirstFragSize(n) ==
    LET size == Min({FragmentSize, n})
        left == FragmentSize - Last(fragments).row_count
    IN  IF fragments # <<>> /\ left > 0 THEN Min({size, left}) ELSE size

NewFragments(n) ==
    LET first == FirstFragSize(n)
        count == (n + FragmentSize - 1 - first) \div FragmentSize + 1
        offset(i) == IF i = 1 THEN 0 ELSE (i - 2) * FragmentSize + first
    IN  [i \in 1..count |->
            [offset |-> offset(i),
             row_count |-> IF i = 1 THEN first ELSE Min({FragmentSize, n - offset(i)})]]

MergeMetadata(m, new) ==
    [numElements |-> m.numElements + new.numElements,
     numBytes |-> m.numBytes + new.numBytes,
     stats |-> MergeStats(m.stats, new.stats)]

\* (mutant of Moved) the offset is not adjusted
MovedNot(frags, by) == frags

Moved(frags, by) == [i \in DOMAIN frags |-> [frags[i] EXCEPT !.offset = @ + by]]

\* Rows of an Arrow table are appended.  A call that throws has changed nothing.
AppendArrowTable(rs, split) ==
    LET chunks == Import(rs, split)
        new == NewFragments(Len(rs))
        meta == [i \in DOMAIN new |-> NewMetadata(rs, chunks, new[i])]
        last == Len(fragments)
    IN  /\ failed = "no"
        /\ rows' = rows \o rs
        /\ appends' = appends + 1
        /\ IF rows = <<>>
           THEN col_data' = chunks /\ fragments' = new /\ metadata' = meta
           ELSE /\ col_data' = col_data \o chunks
                /\ IF fragments[last].row_count < FragmentSize
                   THEN /\ fragments' = [fragments EXCEPT ![last].row_count =
                                            @ + new[1].row_count]
                                        \o Moved(Tail(new), Len(rows))
                        /\ metadata' = [metadata EXCEPT ![last] = MergeMetadata(@, meta[1])]
                                       \o Tail(meta)
                   ELSE /\ fragments' = fragments \o Moved(new, Len(rows))
                        /\ metadata' = metadata \o meta
        /\ UNCHANGED <<kind, buffers, qs, failed>>
-----------------------------------------------------------------------------
(* fetchBuffer, and getZeroCopyBufferMemory, which hands out the same.       *)

FixedLenData(f, num_bytes) ==
    FlattenSeq(Slice(col_data, fragments[f].offset * Elems,
                     (num_bytes \div Elems) * Elems))

\* fetchVarLenData and fetchVarLenArrayData: what they copy.
VarLenData(f, num_bytes) ==
    LET copy(acc, c) ==
          LET size == Min({c.offs[Len(c.offs)] - c.offs[1], num_bytes})
          IN  IF acc.remained = 0 THEN acc
              ELSE [copied |-> acc.copied \o SubSeq(c.data, c.offs[1] + 1, c.offs[1] + size),
                    remained |-> acc.remained - size]
    IN  FoldLeft(copy, [copied |-> <<>>, remained |-> num_bytes],
                 Slice(col_data, fragments[f].offset, fragments[f].row_count)).copied

Data(f, num_bytes) ==
    IF VarLen THEN VarLenData(f, num_bytes) ELSE FixedLenData(f, num_bytes)

\* (mutant of VarLenOffsets) the offset of the first row of a chunk is not subtracted
VarLenOffsetsRaw(f, n) ==
    LET add(acc, c) ==
          LET len == Len(c.offs) - 1
          IN  [out |-> acc.out \o [i \in 1..len |-> c.offs[i] + acc.delta],
               delta |-> acc.delta + c.offs[len + 1]]
        all == FoldLeft(add, [out |-> <<>>, delta |-> 0],
                        Slice(col_data, fragments[f].offset, n))
    IN  all.out \o <<all.delta>>

\* fetchVarLenOffsets.  delta is unsigned in the code and may wrap; the sums do not.
VarLenOffsets(f, n) ==
    LET add(acc, c) ==
          LET delta == acc.delta - c.offs[1]
              len == Len(c.offs) - 1
          IN  [out |-> acc.out \o [i \in 1..len |-> c.offs[i] + delta],
               delta |-> delta + c.offs[len + 1]]
        all == FoldLeft(add, [out |-> <<>>, delta |-> 0],
                        Slice(col_data, fragments[f].offset, n))
    IN  all.out \o <<all.delta>>
-----------------------------------------------------------------------------
(* Queries.                                                                  *)

MaxFragments == MaxRows \div FragmentSize + 1
Fields == {"numBytes", "numElements"}
Unread == -1

Idle(left) == [pc |-> "idle", frag |-> 0, rows |-> 0, got |-> [x \in Fields |-> Unread],
               left |-> left]

At(q, pc) == failed = "no" /\ qs[q].pc = pc
Goto(q, pc) == qs' = [qs EXCEPT ![q].pc = pc]

Pinned(f, part) ==
    \E q \in Queries :
        qs[q].frag = f /\ qs[q].pc \in IF part = "data" THEN {"index", "held"} ELSE {"held"}

Init ==
    /\ kind \in Kinds
    /\ rows = <<>> /\ col_data = <<>> /\ fragments = <<>> /\ metadata = <<>>
    /\ buffers = [f \in 1..MaxFragments |-> [data |-> <<>>, index |-> <<>>]]
    /\ qs = [q \in Queries |-> Idle(MaxFetches)]
    /\ appends = 0
    /\ failed = "no"

\* getTableMetadata: the query has the fragments and their numbers of rows, and
\* pointers to their metadata.  It looks at one fragment that is not empty.
GetTableMetadata(q, f) ==
    /\ At(q, "idle")
    /\ qs[q].left > 0
    /\ fragments[f].row_count > 0
    /\ qs' = [qs EXCEPT ![q] = [Idle(@.left - 1) EXCEPT !.pc = "meta", !.frag = f,
                                                     !.rows = fragments[f].row_count]]
    /\ UNCHANGED <<kind, table, buffers, appends, failed>>

\* The query reads a field of the metadata for a call of getChunk, in the order the
\* compiler chose for its arguments, and without a lock.
ReadMetadata(q, x) ==
    /\ At(q, "meta")
    /\ qs[q].got[x] = Unread
    /\ qs' = [qs EXCEPT ![q].got[x] = metadata[qs[q].frag][x]]
    /\ UNCHANGED <<kind, table, buffers, appends, failed>>

\* Chunk::getChunkBuffer gets the data buffer: the one at hand if it is long enough,
\* or else fetchBuffer fills it with num_bytes.
GetDataBuffer(q) ==
    LET f == qs[q].frag
        num_bytes == qs[q].got["numBytes"]
        data == Data(f, num_bytes)
    IN  /\ At(q, "meta")
        /\ \A x \in Fields : qs[q].got[x] # Unread
        /\ IF Len(buffers[f].data) >= num_bytes THEN UNCHANGED <<buffers, failed>>
           ELSE IF Len(data) # num_bytes THEN failed' = "memcpy" /\ UNCHANGED buffers
           ELSE buffers' = [buffers EXCEPT ![f].data = data] /\ UNCHANGED failed
        /\ Goto(q, IF VarLen THEN "index" ELSE "held")
        /\ UNCHANGED <<kind, table, appends>>

\* Then the index buffer of a variable length column, with one more offset than
\* elements.
GetIndexBuffer(q) ==
    LET f == qs[q].frag
        n == qs[q].got["numElements"]
    IN  /\ At(q, "index")
        /\ IF Len(buffers[f].index) >= n + 1 THEN UNCHANGED <<buffers, failed>>
           ELSE IF n # fragments[f].row_count THEN failed' = "CHECK_EQ" /\ UNCHANGED buffers
           ELSE buffers' = [buffers EXCEPT ![f].index = VarLenOffsets(f, n)]
                /\ UNCHANGED failed
        /\ Goto(q, "held")
        /\ UNCHANGED <<kind, table, appends>>

\* The query has used the rows.
Release(q) ==
    /\ At(q, "held")
    /\ qs' = [qs EXCEPT ![q] = Idle(@.left)]
    /\ UNCHANGED <<kind, table, buffers, appends, failed>>

\* The pool evicts a buffer that nobody has pinned.
Evict(f, part) ==
    /\ failed = "no"
    /\ ~Pinned(f, part)
    /\ buffers[f][part] # <<>>
    /\ buffers' = [buffers EXCEPT ![f][part] = <<>>]
    /\ UNCHANGED <<kind, table, qs, appends, failed>>

\* The rows and chunks of the Arrow tables that may come.  There is no empty one
\* for a variable length column: computeTotalStringsLength then looks for a chunk
\* past the last.
Inputs ==
    {<<rs, split>> \in SeqOf(InputRows[kind], MaxAppendRows) \X (0..MaxAppendRows) :
        /\ IF rs = <<>> THEN split = 0 /\ ~VarLen ELSE split \in 1..Len(rs)
        /\ Len(rows) + Len(rs) <= MaxRows}

Next ==
    \/ appends < MaxAppends /\ \E in \in Inputs : AppendArrowTable(in[1], in[2])
    \/ \E q \in Queries :
          \/ \E f \in DOMAIN fragments : GetTableMetadata(q, f)
          \/ \E x \in Fields : ReadMetadata(q, x)
          \/ GetDataBuffer(q)
          \/ GetIndexBuffer(q)
          \/ Release(q)
    \/ \E f \in 1..MaxFragments, part \in {"data", "index"} : Evict(f, part)

Spec == Init /\ [][Next]_vars
-----------------------------------------------------------------------------
(* Properties.                                                               *)

\* The elements of a row as a query should see them.
Row(r) ==
    CASE kind = "int" -> <<r>>
      [] kind = "fixed" -> FixedRow(r)
      [] kind = "text" -> Text(r)
      [] kind = "array" -> r

RowsOf(f) == SubSeq(rows, fragments[f].offset + 1, fragments[f].offset + fragments[f].row_count)
ElementsOf(f) == FlattenSeq([i \in DOMAIN RowsOf(f) |-> Row(RowsOf(f)[i])])

\* Whatever the sizes of the appended tables, the fragments cover the rows in order,
\* each but the last has exactly fragment_size rows, and the sizes in their metadata,
\* which queries fetch by, are those of these rows, also after merges.
FragmentsTile ==
    \A f \in DOMAIN fragments :
        /\ fragments[f].offset = (f - 1) * FragmentSize
        /\ fragments[f].row_count =
              Min({FragmentSize, Len(rows) - (f - 1) * FragmentSize})
        /\ f = Len(fragments) => fragments[f].offset + fragments[f].row_count = Len(rows)
        /\ metadata[f].numElements = Len(RowsOf(f))
        /\ metadata[f].numBytes = Len(ElementsOf(f))

\* The statistics by which queries skip fragments are those of the rows of the
\* fragment, merged or not.
StatsExact ==
    \A f \in DOMAIN fragments :
        /\ kind = "int" => metadata[f].stats = ElementStats(RowsOf(f))
        /\ kind = "text" => metadata[f].stats.has_nulls = HasNulls(RowsOf(f))

\* What a query finds in its buffers for row i of its fragment.
Fetched(f, i) ==
    LET b == buffers[f]
        from == IF VarLen THEN b.index[i] ELSE (i - 1) * Elems
        to == IF VarLen THEN b.index[i + 1] ELSE i * Elems
    IN  IF to <= Len(b.data) THEN SubSeq(b.data, from + 1, to) ELSE <<Unread>>

\* A query finds exactly the rows that the fragment had when it asked for the
\* metadata, while rows are appended to the fragment, and other queries make longer
\* what is in the pool or read the sizes at another time.  And fetchVarLenData fills
\* the buffer reserved for num_bytes and never writes behind it, though it takes all
\* rows of the fragment and num_bytes may be of a time when it had fewer.
FetchedIsExact ==
    /\ failed # "memcpy"
    /\ \A q \in Queries :
          failed = "no" /\ qs[q].pc = "held" =>
              \A i \in 1..qs[q].rows :
                  Fetched(qs[q].frag, i) = Row(rows[fragments[qs[q].frag].offset + i])

=============================================================================

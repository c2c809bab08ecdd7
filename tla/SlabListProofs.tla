--------------------------- MODULE SlabListProofs ---------------------------
(***************************************************************************)
(* Lemmas on the segment lists of SlabPool: every operation on a list is a *)
(* Splice, so what an operation preserves follows from what a splice does  *)
(* to single elements (SpliceOrigin) and to neighbours (SpliceNeighbours). *)
(*                                                                         *)
(* Conditions on whole lists are named, so that a proof step can carry one *)
(* along unexpanded.                                                       *)
(***************************************************************************)
EXTENDS SlabPool, TLAPS

IsList(list) == list \in Seq(Seg)

\* no key has two segments
Distinct(list) ==
    \A i, j \in 1 .. Len(list) :
        (list[i].buffer = list[j].buffer /\ list[i].buffer # NoKey) => i = j

FreeHoldNothing(list) ==
    \A i \in 1 .. Len(list) : IsFree(list[i]) => list[i].buffer = NoKey

\* no two neighbours are free
Merged(list) ==
    \A i \in 1 .. Len(list) - 1 : ~(IsFree(list[i]) /\ IsFree(list[i + 1]))

Has(list, k) == \E i \in 1 .. Len(list) : list[i].buffer = k

\* a segment taken for a buffer that is not entered yet
IsHole(seg) == ~IsFree(seg) /\ seg.buffer = NoKey
HoleAt(list, h) == \A i \in 1 .. Len(list) : IsHole(list[i]) <=> i = h
OneHole(list) == \E h \in 1 .. Len(list) : HoleAt(list, h)
NoHole(list) == \A i \in 1 .. Len(list) : ~IsHole(list[i])

GoodList(list) ==
    /\ IsList(list)
    /\ Tiles(list)
    /\ Distinct(list)
    /\ FreeHoldNothing(list)
    /\ Merged(list)

Shift(lo, hi, new) == Len(new) - (hi - lo + 1)

IsSplice(res, list, lo, hi, new) ==
    /\ IsList(res)
    /\ Shift(lo, hi, new) \in Int
    /\ Len(res) = Len(list) + Shift(lo, hi, new)
    /\ \A i \in 1 .. lo - 1 : res[i] = list[i]
    /\ \A i \in 1 .. Len(new) : res[lo - 1 + i] = new[i]
    /\ \A i \in hi + 1 .. Len(list) : res[i + Shift(lo, hi, new)] = list[i]

\* Splice replaces the elements lo..hi and moves the later ones.
LEMMA SpliceShape ==
    ASSUME NEW list, IsList(list), NEW new, IsList(new),
           NEW lo \in 1 .. Len(list), NEW hi \in lo .. Len(list)
    PROVE  IsSplice(Splice(list, lo, hi, new), list, lo, hi, new)
<1> USE DEF IsList
<1> DEFINE n == Len(list) - (hi - lo + 1) + Len(new)
           shift == Len(new) - (hi - lo + 1)
           F(i) == IF i < lo THEN list[i]
                   ELSE IF i < lo + Len(new) THEN new[i - lo + 1]
                   ELSE list[i - Len(new) + (hi - lo + 1)]
           G == [i \in 1 .. n |-> F(i)]
<1>1. n \in Nat /\ n = Len(list) + shift
  OBVIOUS
<1>2. ASSUME NEW i \in 1 .. n PROVE F(i) \in Seg
  <2>1. CASE i < lo
    BY <2>1
  <2>2. CASE i >= lo /\ i < lo + Len(new)
    BY <2>2
  <2>3. CASE i >= lo + Len(new)
    <3>1. i - Len(new) + (hi - lo + 1) \in 1 .. Len(list)
      BY <2>3
    <3> QED BY <2>3, <3>1
  <2> QED BY <2>1, <2>2, <2>3
<1>3. G \in Seq(Seg) /\ Len(G) = n
  <2> HIDE DEF n, F
  <2> QED BY <1>1, <1>2
<1>4. ASSUME NEW i \in 1 .. lo - 1 PROVE G[i] = list[i]
  BY <1>1
<1>5. ASSUME NEW i \in 1 .. Len(new) PROVE G[lo - 1 + i] = new[i]
  <2>1. lo - 1 + i \in 1 .. n /\ ~(lo - 1 + i < lo) /\ lo - 1 + i < lo + Len(new)
        /\ (lo - 1 + i) - lo + 1 = i
    OBVIOUS
  <2> QED BY Zenon, <2>1
<1>6. ASSUME NEW i \in hi + 1 .. Len(list) PROVE G[i + shift] = list[i]
  <2>1. /\ i + shift \in 1 .. n /\ ~(i + shift < lo) /\ ~(i + shift < lo + Len(new))
        /\ i + shift - Len(new) + (hi - lo + 1) = i
    OBVIOUS
  <2>2. F(i + shift) = list[i]
    BY <2>1
  <2> HIDE DEF F, n
  <2> QED BY Zenon, <2>1, <2>2
<1>7. Splice(list, lo, hi, new) = G
  BY Zenon DEF Splice
<1>8. shift \in Int
  OBVIOUS
<1> HIDE DEF G, n
<1> QED BY Zenon, <1>1, <1>8, <1>3, <1>4, <1>5, <1>6, <1>7 DEF IsSplice, Shift

-----------------------------------------------------------------------------
FromBefore(res, list, lo, i) == i < lo /\ res[i] = list[i]
FromNew(res, new, lo, i) ==
    \E j \in 1 .. Len(new) : i = lo - 1 + j /\ res[i] = new[j]
FromAfter(res, list, lo, hi, new, i) ==
    \E j \in hi + 1 .. Len(list) : i = j + Shift(lo, hi, new) /\ res[i] = list[j]

\* Each element of a splice comes from one of three places.
LEMMA SpliceOrigin ==
    ASSUME NEW list, NEW new, NEW res,
           NEW lo \in 1 .. Len(list), NEW hi \in lo .. Len(list),
           IsSplice(res, list, lo, hi, new),
           NEW i \in 1 .. Len(res)
    PROVE  \/ FromBefore(res, list, lo, i)
           \/ FromNew(res, new, lo, i)
           \/ FromAfter(res, list, lo, hi, new, i)
<1>1. CASE i < lo
  <2>1. i \in 1 .. lo - 1
    BY <1>1
  <2>2. res[i] = list[i]
    BY Zenon, <2>1 DEF IsSplice
  <2> QED BY Zenon, <1>1, <2>2 DEF FromBefore
<1>2. CASE i >= lo /\ i < lo + Len(new)
  <2> DEFINE j == i - lo + 1
  <2>1. j \in 1 .. Len(new) /\ i = lo - 1 + j
    BY <1>2
  <2> HIDE DEF j
  <2>2. res[lo - 1 + j] = new[j]
    BY Zenon, <2>1 DEF IsSplice
  <2> QED BY Zenon, <2>1, <2>2 DEF FromNew
<1>3. CASE i >= lo + Len(new)
  <2> DEFINE d == Shift(lo, hi, new)
             j == i - d
  <2>1. d \in Int /\ Len(res) = Len(list) + d
    BY Zenon DEF IsSplice
  <2>2. d = Len(new) - (hi - lo + 1)
    BY Zenon DEF Shift
  <2>3. \A m \in hi + 1 .. Len(list) : res[m + d] = list[m]
    BY Zenon DEF IsSplice
  <2> HIDE DEF d
  <2>4. j \in hi + 1 .. Len(list) /\ i = j + d
    BY <1>3, <2>1, <2>2
  <2> HIDE DEF j
  <2>5. res[j + d] = list[j]
    BY Zenon, <2>3, <2>4
  <2> QED BY Zenon, <2>4, <2>5 DEF FromAfter, d
<1> QED BY <1>1, <1>2, <1>3

\* Two neighbours of a splice were neighbours before, or meet at an end of new.
Neighbours(res, list, lo, hi, new, i) ==
    \/ \E j \in 1 .. Len(list) - 1 :
          j + 1 < lo /\ res[i] = list[j] /\ res[i + 1] = list[j + 1]
    \/ lo > 1 /\ res[i] = list[lo - 1] /\ res[i + 1] = new[1]
    \/ \E j \in 1 .. Len(new) - 1 : res[i] = new[j] /\ res[i + 1] = new[j + 1]
    \/ hi < Len(list) /\ res[i] = new[Len(new)] /\ res[i + 1] = list[hi + 1]
    \/ \E j \in 1 .. Len(list) - 1 :
          j > hi /\ res[i] = list[j] /\ res[i + 1] = list[j + 1]

LEMMA SpliceNeighbours ==
    ASSUME NEW list, NEW new, NEW res,
           NEW lo \in 1 .. Len(list), NEW hi \in lo .. Len(list),
           IsSplice(res, list, lo, hi, new), Len(new) > 0,
           NEW i \in 1 .. Len(res) - 1
    PROVE  Neighbours(res, list, lo, hi, new, i)
<1> DEFINE d == Shift(lo, hi, new)
<1>1. d \in Int /\ Len(res) = Len(list) + d
  BY Zenon DEF IsSplice
<1>2. d = Len(new) - (hi - lo + 1)
  BY Zenon DEF Shift
<1>a. \A j \in 1 .. lo - 1 : res[j] = list[j]
  BY Zenon DEF IsSplice
<1>b. \A j \in 1 .. Len(new) : res[lo - 1 + j] = new[j]
  BY Zenon DEF IsSplice
<1>c. \A j \in hi + 1 .. Len(list) : res[j + d] = list[j]
  BY Zenon DEF IsSplice
<1> HIDE DEF d
<1>3. CASE i + 1 < lo
  <2>1. i \in 1 .. lo - 1 /\ i + 1 \in 1 .. lo - 1 /\ i \in 1 .. Len(list) - 1
    BY <1>3
  <2>2. res[i] = list[i] /\ res[i + 1] = list[i + 1]
    BY Zenon, <2>1, <1>a
  <2> QED BY Zenon, <1>3, <2>1, <2>2 DEF Neighbours
<1>4. CASE i + 1 = lo
  <2>1. i \in 1 .. lo - 1 /\ i = lo - 1 /\ lo - 1 + 1 = i + 1 /\ lo > 1
    BY <1>4
  <2>2. res[i] = list[i]
    BY Zenon, <2>1, <1>a
  <2>3. res[lo - 1 + 1] = new[1]
    BY <1>b
  <2> QED BY Zenon, <2>1, <2>2, <2>3 DEF Neighbours
<1>5. CASE i >= lo /\ i + 1 < lo + Len(new)
  <2> DEFINE j == i - lo + 1
  <2>1. /\ j \in 1 .. Len(new) - 1 /\ j \in 1 .. Len(new) /\ j + 1 \in 1 .. Len(new)
        /\ lo - 1 + j = i /\ lo - 1 + (j + 1) = i + 1
    BY <1>5
  <2> HIDE DEF j
  <2>2. res[lo - 1 + j] = new[j] /\ res[lo - 1 + (j + 1)] = new[j + 1]
    BY Zenon, <1>b, <2>1
  <2>3. res[i] = new[j] /\ res[i + 1] = new[j + 1]
    BY Zenon, <2>1, <2>2
  <2> QED BY Zenon, <2>1, <2>3 DEF Neighbours
<1>6. CASE i + 1 = lo + Len(new)
  <2>1. res[lo - 1 + Len(new)] = new[Len(new)]
    BY <1>b
  <2>2. hi + 1 \in hi + 1 .. Len(list) /\ hi < Len(list)
    BY <1>6, <1>1, <1>2
  <2>3. res[hi + 1 + d] = list[hi + 1]
    BY Zenon, <2>2, <1>c
  <2>4. lo - 1 + Len(new) = i /\ hi + 1 + d = i + 1
    BY <1>6, <1>1, <1>2
  <2>5. res[i] = new[Len(new)] /\ res[i + 1] = list[hi + 1]
    BY Zenon, <2>1, <2>3, <2>4
  <2> QED BY Zenon, <2>2, <2>5 DEF Neighbours
<1>7. CASE i >= lo + Len(new)
  <2> DEFINE j == i - d
  <2>1. /\ j \in hi + 1 .. Len(list) /\ j + 1 \in hi + 1 .. Len(list)
        /\ j \in 1 .. Len(list) - 1 /\ j > hi
        /\ j + d = i /\ j + 1 + d = i + 1
    BY <1>7, <1>1, <1>2
  <2> HIDE DEF j
  <2>2. res[j + d] = list[j] /\ res[j + 1 + d] = list[j + 1]
    BY Zenon, <1>c, <2>1
  <2>3. res[i] = list[j] /\ res[i + 1] = list[j + 1]
    BY Zenon, <2>1, <2>2
  <2> QED BY Zenon, <2>1, <2>3 DEF Neighbours
<1> QED BY <1>3, <1>4, <1>5, <1>6, <1>7

-----------------------------------------------------------------------------
\* new covers the pages from .. to - 1
Covers(new, from, to) ==
    /\ Len(new) > 0
    /\ new[1].start = from
    /\ End(new[Len(new)]) = to
    /\ \A i \in 1 .. Len(new) - 1 : new[i + 1].start = End(new[i])

\* Replacing segments by segments that cover the same pages keeps the tiling.
LEMMA SpliceTiles ==
    ASSUME NEW list, Tiles(list), NEW new, NEW res,
           NEW lo \in 1 .. Len(list), NEW hi \in lo .. Len(list),
           Covers(new, list[lo].start, End(list[hi])),
           IsSplice(res, list, lo, hi, new)
    PROVE  Tiles(res) /\ SlabSize(res) = SlabSize(list)
<1> DEFINE d == Shift(lo, hi, new)
<1>1. d \in Int /\ Len(res) = Len(list) + d
  BY Zenon DEF IsSplice
<1>2. d = Len(new) - (hi - lo + 1)
  BY Zenon DEF Shift
<1>a. \A j \in 1 .. lo - 1 : res[j] = list[j]
  BY Zenon DEF IsSplice
<1>b. \A j \in 1 .. Len(new) : res[lo - 1 + j] = new[j]
  BY Zenon DEF IsSplice
<1>c. \A j \in hi + 1 .. Len(list) : res[j + d] = list[j]
  BY Zenon DEF IsSplice
<1>d. /\ Len(new) > 0
      /\ new[1].start = list[lo].start
      /\ End(new[Len(new)]) = End(list[hi])
  BY Zenon DEF Covers
<1>e. list[1].start = 0
  BY Zenon DEF Tiles
<1> HIDE DEF d
<1>3. Len(res) > 0
  BY <1>1, <1>2, <1>d
<1>4. res[1].start = 0
  <2>1. CASE lo = 1
    <3>1. res[lo - 1 + 1] = new[1]
      BY <1>d, <1>b
    <3> QED BY <1>d, <1>e, <2>1, <3>1
  <2>2. CASE lo > 1
    <3>1. res[1] = list[1]
      BY <2>2, <1>a
    <3> QED BY Zenon, <1>e, <3>1
  <2> QED BY <2>1, <2>2
<1>5. ASSUME NEW i \in 1 .. Len(res) - 1 PROVE res[i + 1].start = End(res[i])
  <2>1. Neighbours(res, list, lo, hi, new, i)
    BY Zenon, <1>d, SpliceNeighbours
  <2>2. \A j \in 1 .. Len(list) - 1 : list[j + 1].start = End(list[j])
    BY Zenon DEF Tiles
  <2>3. \A j \in 1 .. Len(new) - 1 : new[j + 1].start = End(new[j])
    BY Zenon DEF Covers
  <2>4. lo > 1 => list[lo].start = End(list[lo - 1])
    <3>1. lo > 1 => lo - 1 \in 1 .. Len(list) - 1 /\ lo - 1 + 1 = lo
      OBVIOUS
    <3> QED BY Zenon, <3>1, <2>2
  <2>5. hi < Len(list) => list[hi + 1].start = End(list[hi])
    BY <2>2
  <2> QED BY Zenon, <1>d, <2>1, <2>2, <2>3, <2>4, <2>5 DEF Neighbours
<1>6. SlabSize(res) = SlabSize(list)
  <2>1. CASE hi = Len(list)
    <3>1. res[lo - 1 + Len(new)] = new[Len(new)]
      BY <1>b, <1>d
    <3>2. Len(res) = lo - 1 + Len(new)
      BY <2>1, <1>1, <1>2
    <3> QED BY Zenon, <2>1, <3>1, <3>2, <1>d DEF SlabSize
  <2>2. CASE hi < Len(list)
    <3>1. res[Len(list) + d] = list[Len(list)]
      BY <2>2, <1>c
    <3> QED BY Zenon, <3>1, <1>1 DEF SlabSize
  <2> QED BY <2>1, <2>2
<1> QED BY Zenon, <1>3, <1>4, <1>5, <1>6 DEF Tiles

\* A splice keeps free runs merged if new is merged and fits in.
LEMMA SpliceMerged ==
    ASSUME NEW list, Merged(list), NEW new, Merged(new), Len(new) > 0, NEW res,
           NEW lo \in 1 .. Len(list), NEW hi \in lo .. Len(list),
           lo > 1 => ~(IsFree(list[lo - 1]) /\ IsFree(new[1])),
           hi < Len(list) => ~(IsFree(new[Len(new)]) /\ IsFree(list[hi + 1])),
           IsSplice(res, list, lo, hi, new)
    PROVE  Merged(res)
<1> SUFFICES ASSUME NEW i \in 1 .. Len(res) - 1
             PROVE  ~(IsFree(res[i]) /\ IsFree(res[i + 1]))
  BY Zenon DEF Merged
<1>1. Neighbours(res, list, lo, hi, new, i)
  BY Zenon, SpliceNeighbours
<1>2. \A j \in 1 .. Len(list) - 1 : ~(IsFree(list[j]) /\ IsFree(list[j + 1]))
  BY Zenon DEF Merged
<1>3. \A j \in 1 .. Len(new) - 1 : ~(IsFree(new[j]) /\ IsFree(new[j + 1]))
  BY Zenon DEF Merged
<1> QED BY Zenon, <1>1, <1>2, <1>3 DEF Neighbours

LEMMA SpliceFreeHoldNothing ==
    ASSUME NEW list, FreeHoldNothing(list), NEW new, FreeHoldNothing(new), NEW res,
           NEW lo \in 1 .. Len(list), NEW hi \in lo .. Len(list),
           IsSplice(res, list, lo, hi, new)
    PROVE  FreeHoldNothing(res)
<1> SUFFICES ASSUME NEW i \in 1 .. Len(res), IsFree(res[i])
             PROVE  res[i].buffer = NoKey
  BY Zenon DEF FreeHoldNothing
<1>1. CASE FromBefore(res, list, lo, i)
  <2>1. i \in 1 .. Len(list) /\ res[i] = list[i]
    BY <1>1 DEF FromBefore
  <2> QED BY Zenon, <2>1 DEF FreeHoldNothing
<1>2. CASE FromNew(res, new, lo, i)
  BY Zenon, <1>2 DEF FromNew, FreeHoldNothing
<1>3. CASE FromAfter(res, list, lo, hi, new, i)
  <2>1. PICK j \in hi + 1 .. Len(list) : res[i] = list[j]
    BY Zenon, <1>3 DEF FromAfter
  <2>2. j \in 1 .. Len(list)
    OBVIOUS
  <2> QED BY Zenon, <2>1, <2>2 DEF FreeHoldNothing
<1> QED BY Zenon, <1>1, <1>2, <1>3, SpliceOrigin

-----------------------------------------------------------------------------
\* only the first segment of new may hold a buffer, and only that of key
Carries(new, key) ==
    /\ Len(new) > 0
    /\ \A j \in 1 .. Len(new) : new[j].buffer # NoKey => j = 1 /\ new[j].buffer = key

HasOutside(list, lo, hi, k) ==
    \E i \in 1 .. Len(list) : (i < lo \/ i > hi) /\ list[i].buffer = k

\* element i of the splice holds what element o of list held
Origin(res, list, lo, hi, new, keep, i, o) ==
    /\ res[i].buffer = list[o].buffer
    /\ \/ o < lo /\ i = o
       \/ o = keep /\ i = lo
       \/ o > hi /\ i = o + Shift(lo, hi, new)

LEMMA SpliceKeyOrigin ==
    ASSUME NEW list, NEW new, NEW res,
           NEW lo \in 1 .. Len(list), NEW hi \in lo .. Len(list),
           NEW keep \in lo .. hi, Carries(new, list[keep].buffer),
           IsSplice(res, list, lo, hi, new),
           NEW i \in 1 .. Len(res), res[i].buffer # NoKey
    PROVE  \E o \in 1 .. Len(list) : Origin(res, list, lo, hi, new, keep, i, o)
<1>1. CASE FromBefore(res, list, lo, i)
  <2>1. i \in 1 .. Len(list) /\ i < lo /\ res[i] = list[i]
    BY <1>1 DEF FromBefore
  <2> QED BY Zenon, <2>1 DEF Origin
<1>2. CASE FromNew(res, new, lo, i)
  <2>1. PICK j \in 1 .. Len(new) : i = lo - 1 + j /\ res[i] = new[j]
    BY Zenon, <1>2 DEF FromNew
  <2>2. j = 1 /\ new[j].buffer = list[keep].buffer
    BY Zenon, <2>1 DEF Carries
  <2>3. i = lo /\ keep \in 1 .. Len(list)
    BY <2>1, <2>2
  <2>4. res[i].buffer = list[keep].buffer
    BY Zenon, <2>1, <2>2
  <2> QED BY Zenon, <2>3, <2>4 DEF Origin
<1>3. CASE FromAfter(res, list, lo, hi, new, i)
  <2>1. PICK j \in hi + 1 .. Len(list) : i = j + Shift(lo, hi, new) /\ res[i] = list[j]
    BY Zenon, <1>3 DEF FromAfter
  <2>2. j \in 1 .. Len(list) /\ j > hi
    OBVIOUS
  <2>3. res[i].buffer = list[j].buffer
    BY Zenon, <2>1
  <2> QED BY Zenon, <2>1, <2>2, <2>3 DEF Origin
<1> QED BY Zenon, <1>1, <1>2, <1>3, SpliceOrigin

LEMMA SpliceDistinct ==
    ASSUME NEW list, Distinct(list), NEW new, NEW res,
           NEW lo \in 1 .. Len(list), NEW hi \in lo .. Len(list),
           NEW keep \in lo .. hi, Carries(new, list[keep].buffer),
           IsSplice(res, list, lo, hi, new)
    PROVE  Distinct(res)
<1> SUFFICES ASSUME NEW i \in 1 .. Len(res), NEW j \in 1 .. Len(res),
                    res[i].buffer = res[j].buffer, res[i].buffer # NoKey
             PROVE  i = j
  BY Zenon DEF Distinct
<1>1. PICK o \in 1 .. Len(list) : Origin(res, list, lo, hi, new, keep, i, o)
  BY Zenon, SpliceKeyOrigin
<1>2. PICK p \in 1 .. Len(list) : Origin(res, list, lo, hi, new, keep, j, p)
  BY Zenon, SpliceKeyOrigin
<1>3. list[o].buffer = list[p].buffer /\ list[o].buffer # NoKey
  BY Zenon, <1>1, <1>2 DEF Origin
<1>4. o = p
  BY Zenon, <1>3 DEF Distinct
<1>5. Shift(lo, hi, new) \in Int
  BY Zenon DEF IsSplice
<1>6. \/ o < lo /\ i = o
      \/ o = keep /\ i = lo
      \/ o > hi /\ i = o + Shift(lo, hi, new)
  BY Zenon, <1>1 DEF Origin
<1>7. \/ o < lo /\ j = o
      \/ o = keep /\ j = lo
      \/ o > hi /\ j = o + Shift(lo, hi, new)
  BY Zenon, <1>2, <1>4 DEF Origin
<1> QED BY <1>5, <1>6, <1>7

\* The keys of a splice are those outside lo..hi and the one new carries.
LEMMA SpliceHas ==
    ASSUME NEW list, NEW new, NEW res,
           NEW lo \in 1 .. Len(list), NEW hi \in lo .. Len(list),
           NEW keep \in lo .. hi, Carries(new, list[keep].buffer),
           IsSplice(res, list, lo, hi, new),
           NEW k, k # NoKey
    PROVE  Has(res, k) <=> HasOutside(list, lo, hi, k) \/ k = new[1].buffer
<1> DEFINE d == Shift(lo, hi, new)
<1>1. d \in Int /\ Len(res) = Len(list) + d
  BY Zenon DEF IsSplice
<1>2. d = Len(new) - (hi - lo + 1)
  BY Zenon DEF Shift
<1>a. \A j \in 1 .. lo - 1 : res[j] = list[j]
  BY Zenon DEF IsSplice
<1>b. \A j \in 1 .. Len(new) : res[lo - 1 + j] = new[j]
  BY Zenon DEF IsSplice
<1>c. \A j \in hi + 1 .. Len(list) : res[j + d] = list[j]
  BY Zenon DEF IsSplice
<1>d. Len(new) > 0
  BY Zenon DEF Carries
<1> HIDE DEF d
<1>3. res[lo] = new[1] /\ lo \in 1 .. Len(res)
  <2>1. res[lo - 1 + 1] = new[1] /\ lo - 1 + 1 = lo
    BY <1>b, <1>d
  <2>2. lo \in 1 .. Len(res)
    BY <1>1, <1>2, <1>d
  <2> QED BY Zenon, <2>1, <2>2
<1>4. ASSUME HasOutside(list, lo, hi, k) PROVE Has(res, k)
  <2>1. PICK i \in 1 .. Len(list) : (i < lo \/ i > hi) /\ list[i].buffer = k
    BY Zenon, <1>4 DEF HasOutside
  <2>2. CASE i < lo
    <3>1. i \in 1 .. Len(res) /\ i \in 1 .. lo - 1
      BY <2>2, <1>3
    <3>2. res[i].buffer = k
      BY Zenon, <3>1, <1>a, <2>1
    <3> QED BY Zenon, <3>1, <3>2 DEF Has
  <2>3. CASE i > hi
    <3>1. i \in hi + 1 .. Len(list)
      BY <2>3
    <3>2. i + d \in 1 .. Len(res)
      BY <2>3, <1>1, <1>2
    <3>3. res[i + d].buffer = k
      BY Zenon, <3>1, <1>c, <2>1
    <3> QED BY Zenon, <3>2, <3>3 DEF Has
  <2> QED BY Zenon, <2>1, <2>2, <2>3
<1>5. ASSUME k = new[1].buffer PROVE Has(res, k)
  BY Zenon, <1>3, <1>5 DEF Has
<1>6. ASSUME Has(res, k) PROVE HasOutside(list, lo, hi, k) \/ k = new[1].buffer
  <2>1. PICK i \in 1 .. Len(res) : res[i].buffer = k
    BY Zenon, <1>6 DEF Has
  <2>2. PICK o \in 1 .. Len(list) : Origin(res, list, lo, hi, new, keep, i, o)
    BY Zenon, <2>1, SpliceKeyOrigin
  <2>3. CASE i = lo
    BY Zenon, <2>1, <2>3, <1>3
  <2>4. CASE o < lo \/ o > hi
    <3>1. list[o].buffer = k
      BY Zenon, <2>1, <2>2 DEF Origin
    <3> QED BY Zenon, <2>4, <3>1 DEF HasOutside
  <2> QED BY Zenon, <2>2, <2>3, <2>4 DEF Origin
<1> QED BY Zenon, <1>4, <1>5, <1>6

-----------------------------------------------------------------------------
LEMMA SpliceNoHole ==
    ASSUME NEW list, NoHole(list), NEW new, NoHole(new), NEW res,
           NEW lo \in 1 .. Len(list), NEW hi \in lo .. Len(list),
           IsSplice(res, list, lo, hi, new)
    PROVE  NoHole(res)
<1> SUFFICES ASSUME NEW i \in 1 .. Len(res) PROVE ~IsHole(res[i])
  BY Zenon DEF NoHole
<1>1. CASE FromBefore(res, list, lo, i)
  <2>1. i \in 1 .. Len(list) /\ res[i] = list[i]
    BY <1>1 DEF FromBefore
  <2> QED BY Zenon, <2>1 DEF NoHole
<1>2. CASE FromNew(res, new, lo, i)
  BY Zenon, <1>2 DEF FromNew, NoHole
<1>3. CASE FromAfter(res, list, lo, hi, new, i)
  <2>1. PICK j \in hi + 1 .. Len(list) : res[i] = list[j]
    BY Zenon, <1>3 DEF FromAfter
  <2>2. j \in 1 .. Len(list)
    OBVIOUS
  <2> QED BY Zenon, <2>1, <2>2 DEF NoHole
<1> QED BY Zenon, <1>1, <1>2, <1>3, SpliceOrigin

\* The first segment of new becomes the only hole.
LEMMA SpliceMakesHole ==
    ASSUME NEW list, NoHole(list), NEW new, HoleAt(new, 1), Len(new) > 0, NEW res,
           NEW lo \in 1 .. Len(list), NEW hi \in lo .. Len(list),
           IsSplice(res, list, lo, hi, new)
    PROVE  OneHole(res)
<1>1. ASSUME NEW i \in 1 .. Len(res) PROVE IsHole(res[i]) <=> i = lo
  <2>1. CASE FromBefore(res, list, lo, i)
    <3>1. i \in 1 .. Len(list) /\ res[i] = list[i] /\ i # lo
      BY <2>1 DEF FromBefore
    <3> QED BY Zenon, <3>1 DEF NoHole
  <2>2. CASE FromNew(res, new, lo, i)
    <3>1. PICK j \in 1 .. Len(new) : i = lo - 1 + j /\ res[i] = new[j]
      BY Zenon, <2>2 DEF FromNew
    <3>2. IsHole(new[j]) <=> j = 1
      BY Zenon DEF HoleAt
    <3> QED BY <3>1, <3>2
  <2>3. CASE FromAfter(res, list, lo, hi, new, i)
    <3>1. PICK j \in hi + 1 .. Len(list) : i = j + Shift(lo, hi, new) /\ res[i] = list[j]
      BY Zenon, <2>3 DEF FromAfter
    <3>2. j \in 1 .. Len(list)
      OBVIOUS
    <3>3. i # lo
      BY SMTT(30), <3>1 DEF Shift
    <3> QED BY Zenon, <3>1, <3>2, <3>3 DEF NoHole
  <2> QED BY Zenon, <2>1, <2>2, <2>3, SpliceOrigin
<1>2. lo \in 1 .. Len(res)
  <2>1. Len(res) = Len(list) + Shift(lo, hi, new)
    BY Zenon DEF IsSplice
  <2> QED BY <2>1 DEF Shift
<1> QED BY Zenon, <1>1, <1>2 DEF OneHole, HoleAt

\* A hole outside lo..hi stays the only hole.
LEMMA SpliceKeepsHole ==
    ASSUME NEW list, OneHole(list), NEW new, NoHole(new), NEW res,
           NEW lo \in 1 .. Len(list), NEW hi \in lo .. Len(list),
           \A j \in lo .. hi : ~IsHole(list[j]),
           IsSplice(res, list, lo, hi, new)
    PROVE  OneHole(res)
<1>1. PICK h \in 1 .. Len(list) : HoleAt(list, h)
  BY Zenon DEF OneHole
<1>2. \A j \in 1 .. Len(list) : IsHole(list[j]) <=> j = h
  BY Zenon, <1>1 DEF HoleAt
<1>3. h < lo \/ h > hi
  BY <1>2
<1> DEFINE d == Shift(lo, hi, new)
<1>4. d \in Int /\ Len(res) = Len(list) + d
  BY Zenon DEF IsSplice
<1>5. d = Len(new) - (hi - lo + 1)
  BY Zenon DEF Shift
<1> DEFINE g == IF h < lo THEN h ELSE h + d
<1> HIDE DEF d
<1>6. g \in 1 .. Len(res)
  BY <1>3, <1>4, <1>5
<1>7. ASSUME NEW i \in 1 .. Len(res) PROVE IsHole(res[i]) <=> i = g
  <2>1. CASE FromBefore(res, list, lo, i)
    <3>1. i \in 1 .. Len(list) /\ res[i] = list[i] /\ i < lo
      BY <2>1 DEF FromBefore
    <3>2. i = h <=> i = g
      BY <3>1, <1>3, <1>4, <1>5
    <3> HIDE DEF g
    <3> QED BY Zenon, <3>1, <3>2, <1>2
  <2>2. CASE FromNew(res, new, lo, i)
    <3>1. PICK j \in 1 .. Len(new) : i = lo - 1 + j /\ res[i] = new[j]
      BY Zenon, <2>2 DEF FromNew
    <3>2. i # g
      BY <3>1, <1>3, <1>4, <1>5
    <3> HIDE DEF g
    <3> QED BY Zenon, <3>1, <3>2 DEF NoHole
  <2>3. CASE FromAfter(res, list, lo, hi, new, i)
    <3>1. PICK j \in hi + 1 .. Len(list) : i = j + d /\ res[i] = list[j]
      BY Zenon, <2>3 DEF FromAfter, d
    <3>2. j \in 1 .. Len(list)
      OBVIOUS
    <3>3. j = h <=> i = g
      BY SMTT(30), <3>1, <3>2, <1>3, <1>4, <1>5
    <3> HIDE DEF g
    <3> QED BY Zenon, <3>1, <3>2, <3>3, <1>2
  <2> QED BY Zenon, <2>1, <2>2, <2>3, SpliceOrigin
<1> HIDE DEF g
<1> QED BY Zenon, <1>6, <1>7 DEF OneHole, HoleAt

-----------------------------------------------------------------------------
LEMMA Element ==
    ASSUME NEW list, IsList(list), NEW i \in 1 .. Len(list)
    PROVE  /\ list[i] \in Seg
           /\ list[i].start \in Nat
           /\ list[i].num \in Nat
           /\ list[i].buffer \in Keys \cup {NoKey}
           /\ End(list[i]) \in Nat
           /\ End(list[i]) = list[i].start + list[i].num
<1>1. list[i] \in Seg
  BY DEF IsList
<1> QED BY <1>1 DEF Seg, End

LEMMA FreeSegIs ==
    ASSUME NEW start \in Nat, NEW num \in Nat
    PROVE  /\ FreeSeg(start, num) \in Seg
           /\ FreeSeg(start, num).start = start
           /\ FreeSeg(start, num).buffer = NoKey
           /\ IsFree(FreeSeg(start, num))
           /\ End(FreeSeg(start, num)) = start + num
           /\ ~IsHole(FreeSeg(start, num))
BY Zenon DEF FreeSeg, Seg, IsFree, End, IsHole

LEMMA UsedSegIs ==
    ASSUME NEW start \in Nat, NEW num \in Nat, NEW touched \in Nat
    PROVE  /\ UsedSeg(start, num, touched) \in Seg
           /\ UsedSeg(start, num, touched).start = start
           /\ UsedSeg(start, num, touched).buffer = NoKey
           /\ ~IsFree(UsedSeg(start, num, touched))
           /\ End(UsedSeg(start, num, touched)) = start + num
           /\ IsHole(UsedSeg(start, num, touched))
BY Zenon DEF UsedSeg, Seg, IsFree, End, IsHole

\* a followed by the free segment of the pages left over, if any
IsWithRest(new, a, start, num) ==
    /\ IsList(new)
    /\ new[1] = a
    /\ \/ num = 0 /\ Len(new) = 1
       \/ num > 0 /\ Len(new) = 2 /\ new[2] = FreeSeg(start, num)

LEMMA WithRest ==
    ASSUME NEW a \in Seg, NEW start \in Nat, NEW num \in Nat
    PROVE  IsWithRest(<<a>> \o Rest(start, num), a, start, num)
<1> DEFINE f == FreeSeg(start, num)
<1>1. f \in Seg
  BY Zenon, FreeSegIs
<1>2. Rest(start, num) = IF num > 0 THEN <<f>> ELSE <<>>
  BY Zenon DEF Rest
<1> HIDE DEF f
<1>3. CASE num > 0
  <2>1. Rest(start, num) = <<f>>
    BY Zenon, <1>2, <1>3
  <2>2. <<a>> \in Seq(Seg) /\ <<f>> \in Seq(Seg)
    BY <1>1
  <2>3. <<a>> \o <<f>> \in Seq(Seg) /\ Len(<<a>> \o <<f>>) = 2
    BY <2>2
  <2>4. (<<a>> \o <<f>>)[1] = a
    BY <2>2
  <2>5. (<<a>> \o <<f>>)[2] = f
    BY <2>2
  <2> QED BY Zenon, <1>3, <2>1, <2>3, <2>4, <2>5 DEF IsWithRest, IsList, f
<1>4. CASE num = 0
  <2>1. <<a>> \o Rest(start, num) = <<a>>
    BY <1>2, <1>4
  <2>2. <<a>> \in Seq(Seg) /\ Len(<<a>>) = 1
    OBVIOUS
  <2>3. <<a>>[1] = a
    BY Zenon
  <2> QED BY Zenon, <1>4, <2>1, <2>2, <2>3 DEF IsWithRest, IsList
<1> QED BY <1>3, <1>4

\* What findFreeBufferInSlab and evict make of the segments lo..hi: the pages of
\* the request, as a hole, and a free segment of the pages left over.
Taken(list, lo, hi, n, e) ==
    Splice(list, lo, hi,
           <<UsedSeg(list[lo].start, n, e)>>
              \o Rest(list[lo].start + n, End(list[hi]) - list[lo].start - n))

LEMMA TakenIsGood ==
    ASSUME NEW list, GoodList(list), NoHole(list),
           NEW lo \in 1 .. Len(list), NEW hi \in lo .. Len(list),
           NEW n \in Nat, NEW e \in Nat,
           n <= End(list[hi]) - list[lo].start,
           hi < Len(list) /\ n < End(list[hi]) - list[lo].start
              => ~IsFree(list[hi + 1])
    PROVE  /\ GoodList(Taken(list, lo, hi, n, e))
           /\ OneHole(Taken(list, lo, hi, n, e))
           /\ SlabSize(Taken(list, lo, hi, n, e)) = SlabSize(list)
           /\ \A k \in Keys : NoKey # k =>
                 (Has(Taken(list, lo, hi, n, e), k) <=> HasOutside(list, lo, hi, k))
<1> DEFINE from == list[lo].start
           to == End(list[hi])
           a == UsedSeg(from, n, e)
           left == to - from - n
           f == FreeSeg(from + n, left)
           new == <<a>> \o Rest(from + n, left)
           res == Taken(list, lo, hi, n, e)
<1>0. /\ IsList(list) /\ Tiles(list) /\ Distinct(list)
      /\ FreeHoldNothing(list) /\ Merged(list)
  BY Zenon DEF GoodList
<1>1. from \in Nat /\ to \in Nat
  BY <1>0, Element
<1>2. left \in Nat
  <2> HIDE DEF from, to
  <2> QED BY <1>1 DEF from, to
<1>3. from + n \in Nat
  BY <1>1
<1>4. /\ a \in Seg /\ a.start = from /\ a.buffer = NoKey /\ ~IsFree(a)
      /\ End(a) = from + n /\ IsHole(a)
  BY ZenonT(30), <1>1, UsedSegIs
<1>5. /\ f.start = from + n /\ f.buffer = NoKey /\ IsFree(f)
      /\ End(f) = from + n + left /\ ~IsHole(f)
  BY Zenon, <1>2, <1>3, FreeSegIs
<1>6. IsWithRest(new, a, from + n, left)
  BY Zenon, <1>2, <1>3, <1>4, WithRest
<1>7. res = Splice(list, lo, hi, new)
  BY Zenon DEF Taken
<1>8. from + n + left = to
  BY <1>1, <1>2
<1>9. hi < Len(list) /\ left > 0 => ~IsFree(list[hi + 1])
  <2> HIDE DEF from, to
  <2> QED BY <1>1 DEF from, to
<1> HIDE DEF from, to, a, left, f, new, res
<1>n. /\ IsList(new) /\ new[1] = a
      /\ \/ left = 0 /\ Len(new) = 1
         \/ left > 0 /\ Len(new) = 2 /\ new[2] = f
  BY Zenon, <1>6 DEF IsWithRest, f
<1>10. IsSplice(res, list, lo, hi, new)
  BY Zenon, <1>0, <1>7, <1>n, SpliceShape
<1>11. Covers(new, from, to)
  <2>1. CASE left = 0
    <3>1. Len(new) = 1 /\ new[1] = a
      BY <2>1, <1>n
    <3>2. End(a) = to
      BY <2>1, <1>1, <1>4, <1>8
    <3> QED BY <3>1, <3>2, <1>4 DEF Covers
  <2>2. CASE left > 0
    <3>1. Len(new) = 2 /\ new[1] = a /\ new[2] = f
      BY <2>2, <1>n
    <3>2. End(f) = to /\ f.start = End(a)
      BY Zenon, <1>4, <1>5, <1>8
    <3> QED BY <3>1, <3>2, <1>4 DEF Covers
  <2> QED BY <2>1, <2>2, <1>2
<1>12. Tiles(res) /\ SlabSize(res) = SlabSize(list)
  BY Zenon, <1>0, <1>10, <1>11, SpliceTiles DEF from, to
<1>13. Merged(new) /\ FreeHoldNothing(new) /\ HoleAt(new, 1) /\ Len(new) > 0
  BY SMTT(30), <1>n, <1>4, <1>5 DEF Merged, FreeHoldNothing, HoleAt
<1>14. Carries(new, list[lo].buffer)
  BY <1>n, <1>4, <1>5 DEF Carries
<1>15. hi < Len(list) => ~(IsFree(new[Len(new)]) /\ IsFree(list[hi + 1]))
  BY Zenon, <1>n, <1>4, <1>9
<1>16. Merged(res)
  BY Zenon, <1>0, <1>10, <1>13, <1>15, <1>n, <1>4, SpliceMerged
<1>17. FreeHoldNothing(res)
  BY Zenon, <1>0, <1>10, <1>13, SpliceFreeHoldNothing
<1>18. Distinct(res)
  <2>1. lo \in lo .. hi
    OBVIOUS
  <2> QED BY Zenon, <1>0, <1>10, <1>14, <2>1, SpliceDistinct
<1>19. OneHole(res)
  BY Zenon, <1>10, <1>13, SpliceMakesHole
<1>20. ASSUME NEW k \in Keys, NoKey # k
       PROVE  Has(res, k) <=> HasOutside(list, lo, hi, k)
  <2>0. lo \in lo .. hi /\ k # NoKey
    BY <1>20
  <2>1. Has(res, k) <=> HasOutside(list, lo, hi, k) \/ k = new[1].buffer
    BY Zenon, <2>0, <1>10, <1>14, SpliceHas
  <2> QED BY Zenon, <1>20, <2>1, <1>n, <1>4
<1>21. GoodList(res)
  BY Zenon, <1>10, <1>12, <1>16, <1>17, <1>18 DEF GoodList, IsSplice
<1> QED BY Zenon, <1>12, <1>19, <1>20, <1>21 DEF res

-----------------------------------------------------------------------------
\* The segments i merges with: i and its free neighbours.
MergeRange(list, i, lo, hi) ==
    /\ lo \in 1 .. i
    /\ hi \in i .. Len(list)
    /\ lo = i \/ (lo + 1 = i /\ IsFree(list[lo]))
    /\ hi = i \/ (hi = i + 1 /\ IsFree(list[hi]))
    /\ lo > 1 => ~IsFree(list[lo - 1])
    /\ hi < Len(list) => ~IsFree(list[hi + 1])

LEMMA MergeIsRange ==
    ASSUME NEW list, Merged(list), NEW i \in 1 .. Len(list)
    PROVE  MergeRange(list, i, MergeLo(list, i), MergeHi(list, i))
<1> DEFINE lo == MergeLo(list, i)
           hi == MergeHi(list, i)
<1>1. /\ lo \in 1 .. i
      /\ lo = i \/ (lo + 1 = i /\ IsFree(list[lo]))
  BY DEF MergeLo
<1>2. lo > 1 => ~IsFree(list[lo - 1])
  <2>1. CASE lo = i
    BY <2>1 DEF MergeLo
  <2>2. CASE lo + 1 = i /\ IsFree(list[lo]) /\ lo > 1
    <3> HIDE DEF lo
    <3>1. lo - 1 \in 1 .. Len(list) - 1 /\ lo - 1 + 1 = lo
      BY <1>1, <2>2
    <3> QED BY Zenon, <2>2, <3>1 DEF Merged
  <2> QED BY Zenon, <1>1, <2>1, <2>2
<1>3. /\ hi \in i .. Len(list)
      /\ hi = i \/ (hi = i + 1 /\ IsFree(list[hi]))
  BY DEF MergeHi
<1>4. hi < Len(list) => ~IsFree(list[hi + 1])
  <2>1. CASE hi = i
    BY <2>1 DEF MergeHi
  <2>2. CASE hi = i + 1 /\ IsFree(list[hi]) /\ hi < Len(list)
    <3> HIDE DEF hi
    <3>1. hi \in 1 .. Len(list) - 1
      BY <1>3, <2>2
    <3> QED BY Zenon, <2>2, <3>1 DEF Merged
  <2> QED BY Zenon, <1>3, <2>1, <2>2
<1> QED BY Zenon, <1>1, <1>2, <1>3, <1>4 DEF MergeRange

\* Merging keeps every key but the one of segment i.
LEMMA MergeKeeps ==
    ASSUME NEW list, Distinct(list), FreeHoldNothing(list),
           NEW i \in 1 .. Len(list), NEW lo, NEW hi, MergeRange(list, i, lo, hi),
           list[i].buffer # NoKey, NEW k, k # NoKey
    PROVE  HasOutside(list, lo, hi, k) <=> Has(list, k) /\ k # list[i].buffer
<1>1. /\ lo \in 1 .. i /\ hi \in i .. Len(list)
      /\ lo = i \/ (lo + 1 = i /\ IsFree(list[lo]))
      /\ hi = i \/ (hi = i + 1 /\ IsFree(list[hi]))
  BY Zenon DEF MergeRange
<1>2. ASSUME HasOutside(list, lo, hi, k) PROVE Has(list, k) /\ k # list[i].buffer
  <2>1. PICK j \in 1 .. Len(list) : (j < lo \/ j > hi) /\ list[j].buffer = k
    BY Zenon, <1>2 DEF HasOutside
  <2>2. j # i
    BY <2>1, <1>1
  <2>3. k # list[i].buffer
    BY Zenon, <2>1, <2>2 DEF Distinct
  <2> QED BY Zenon, <2>1, <2>3 DEF Has
<1>3. ASSUME Has(list, k), k # list[i].buffer PROVE HasOutside(list, lo, hi, k)
  <2>1. PICK j \in 1 .. Len(list) : list[j].buffer = k
    BY Zenon, <1>3 DEF Has
  <2>2. j # i /\ ~IsFree(list[j])
    BY Zenon, <1>3, <2>1 DEF FreeHoldNothing
  <2>3. j < lo \/ j > hi
    BY <2>2, <1>1
  <2> QED BY Zenon, <2>1, <2>3 DEF HasOutside
<1> QED BY Zenon, <1>2, <1>3

\* removeSegment: the pages stay tiled, the key disappears, the others stay.
LEMMA RemoveIsGood ==
    ASSUME NEW list, GoodList(list), NEW i \in 1 .. Len(list), list[i].buffer # NoKey
    PROVE  /\ GoodList(RemoveSegment(list, i))
           /\ NoHole(list) => NoHole(RemoveSegment(list, i))
           /\ OneHole(list) => OneHole(RemoveSegment(list, i))
           /\ SlabSize(RemoveSegment(list, i)) = SlabSize(list)
           /\ \A k \in Keys : NoKey # k =>
                 (Has(RemoveSegment(list, i), k) <=> Has(list, k) /\ k # list[i].buffer)
<1> DEFINE lo == MergeLo(list, i)
           hi == MergeHi(list, i)
           before == IF lo < i THEN list[lo].num ELSE 0
           after == IF hi > i THEN list[hi].num ELSE 0
           num == before + list[i].num + after
           f == FreeSeg(list[lo].start, num)
           new == <<f>>
           res == RemoveSegment(list, i)
<1>0. /\ IsList(list) /\ Tiles(list) /\ Distinct(list)
      /\ FreeHoldNothing(list) /\ Merged(list)
  BY Zenon DEF GoodList
<1>1. MergeRange(list, i, lo, hi)
  BY Zenon, <1>0, MergeIsRange
<1>2. res = Splice(list, lo, hi, new)
  BY Zenon DEF RemoveSegment
<1> HIDE DEF lo, hi, res
<1>3. /\ lo \in 1 .. i /\ hi \in i .. Len(list) /\ lo \in 1 .. Len(list)
      /\ hi \in 1 .. Len(list) /\ hi \in lo .. Len(list) /\ i \in lo .. hi
      /\ lo = i \/ (lo + 1 = i /\ IsFree(list[lo]))
      /\ hi = i \/ (hi = i + 1 /\ IsFree(list[hi]))
  BY <1>1 DEF MergeRange
<1>4. /\ list[lo].start \in Nat /\ list[i].start \in Nat /\ list[hi].start \in Nat
      /\ list[lo].num \in Nat /\ list[i].num \in Nat /\ list[hi].num \in Nat
      /\ End(list[lo]) = list[lo].start + list[lo].num
      /\ End(list[i]) = list[i].start + list[i].num
      /\ End(list[hi]) = list[hi].start + list[hi].num
  BY Zenon, <1>0, <1>3, Element
<1>5. list[lo].start + before = list[i].start /\ before \in Nat
  <2>1. CASE lo = i
    BY <2>1, <1>4
  <2>2. CASE lo + 1 = i
    <3>1. lo \in 1 .. Len(list) - 1
      BY <2>2, <1>3
    <3>2. list[lo + 1].start = End(list[lo])
      BY Zenon, <1>0, <3>1 DEF Tiles
    <3> QED BY <2>2, <3>2, <1>3, <1>4
  <2> QED BY Zenon, <1>3, <2>1, <2>2
<1>6. list[i].start + list[i].num + after = End(list[hi]) /\ after \in Nat
  <2>1. CASE hi = i
    BY <2>1, <1>4
  <2>2. CASE hi = i + 1
    <3>1. i \in 1 .. Len(list) - 1
      BY <2>2, <1>3
    <3>2. list[i + 1].start = End(list[i])
      BY Zenon, <1>0, <3>1 DEF Tiles
    <3> QED BY <2>2, <3>2, <1>3, <1>4
  <2> QED BY Zenon, <1>3, <2>1, <2>2
<1> HIDE DEF before, after
<1>7. num \in Nat /\ list[lo].start + num = End(list[hi])
  <2> DEFINE sl == list[lo].start
             si == list[i].start
             ni == list[i].num
             eh == End(list[hi])
  <2>1. sl \in Nat /\ si \in Nat /\ ni \in Nat /\ before \in Nat /\ after \in Nat
    BY Zenon, <1>4, <1>5, <1>6
  <2>2. sl + before = si /\ si + ni + after = eh
    BY Zenon, <1>5, <1>6
  <2> HIDE DEF sl, si, ni, eh
  <2>3. before + ni + after \in Nat /\ sl + (before + ni + after) = eh
    BY <2>1, <2>2
  <2> QED BY Zenon, <2>3 DEF sl, ni, eh
<1> HIDE DEF num
<1>8. /\ f \in Seg /\ f.start = list[lo].start /\ f.buffer = NoKey /\ IsFree(f)
      /\ End(f) = End(list[hi]) /\ ~IsHole(f)
  BY Zenon, <1>4, <1>7, FreeSegIs
<1>f. f \in Seg
  BY Zenon, <1>8
<1> HIDE DEF f
<1>9. IsList(new) /\ Len(new) = 1 /\ new[1] = f
  <2>1. <<f>> \in Seq(Seg) /\ Len(<<f>>) = 1
    BY <1>f
  <2>2. <<f>>[1] = f
    BY Zenon
  <2> QED BY Zenon, <2>1, <2>2 DEF IsList
<1> HIDE DEF new
<1>10. IsSplice(res, list, lo, hi, new)
  BY Zenon, <1>0, <1>2, <1>3, <1>9, SpliceShape
<1>11. Covers(new, list[lo].start, End(list[hi]))
  BY <1>8, <1>9 DEF Covers
<1>12. Tiles(res) /\ SlabSize(res) = SlabSize(list)
  BY Zenon, <1>0, <1>3, <1>10, <1>11, SpliceTiles
<1>13. Merged(new) /\ FreeHoldNothing(new) /\ NoHole(new) /\ Len(new) > 0
  BY <1>8, <1>9 DEF Merged, FreeHoldNothing, NoHole
<1>14. Carries(new, list[i].buffer)
  BY <1>8, <1>9 DEF Carries
<1>15. /\ lo > 1 => ~(IsFree(list[lo - 1]) /\ IsFree(new[1]))
       /\ hi < Len(list) => ~(IsFree(new[Len(new)]) /\ IsFree(list[hi + 1]))
  BY Zenon, <1>1 DEF MergeRange
<1>16. Merged(res)
  BY Zenon, <1>0, <1>3, <1>10, <1>13, <1>15, SpliceMerged
<1>17. FreeHoldNothing(res)
  BY Zenon, <1>0, <1>3, <1>10, <1>13, SpliceFreeHoldNothing
<1>18. Distinct(res)
  BY Zenon, <1>0, <1>3, <1>10, <1>14, SpliceDistinct
<1>19. NoHole(list) => NoHole(res)
  BY Zenon, <1>3, <1>10, <1>13, SpliceNoHole
<1>20. \A j \in lo .. hi : ~IsHole(list[j])
  <2> SUFFICES ASSUME NEW j \in lo .. hi PROVE ~IsHole(list[j])
    BY Zenon
  <2>1. j = i \/ IsFree(list[j])
    BY <1>3
  <2> QED BY Zenon, <2>1 DEF IsHole
<1>21. OneHole(list) => OneHole(res)
  BY Zenon, <1>3, <1>10, <1>13, <1>20, SpliceKeepsHole
<1>22. ASSUME NEW k \in Keys, NoKey # k
       PROVE  Has(res, k) <=> Has(list, k) /\ k # list[i].buffer
  <2>1. Has(res, k) <=> HasOutside(list, lo, hi, k) \/ k = new[1].buffer
    BY Zenon, <1>22, <1>3, <1>10, <1>14, SpliceHas
  <2>2. HasOutside(list, lo, hi, k) <=> Has(list, k) /\ k # list[i].buffer
    BY Zenon, <1>22, <1>0, <1>1, MergeKeeps
  <2> QED BY Zenon, <1>22, <2>1, <2>2, <1>8, <1>9
<1>23. GoodList(res)
  BY Zenon, <1>10, <1>12, <1>16, <1>17, <1>18 DEF GoodList, IsSplice
<1> QED BY Zenon, <1>12, <1>19, <1>21, <1>22, <1>23 DEF res

-----------------------------------------------------------------------------
\* reserveBuffer in place: the next free segment gives up the missing pages.
LEMMA GrowIsGood ==
    ASSUME NEW list, GoodList(list), NoHole(list), NEW i \in 1 .. Len(list),
           list[i].buffer # NoKey, NEW n \in Nat, CanGrow(list, i, n)
    PROVE  /\ GoodList(Grow(list, i, n))
           /\ NoHole(Grow(list, i, n))
           /\ SlabSize(Grow(list, i, n)) = SlabSize(list)
           /\ \A k \in Keys : NoKey # k => (Has(Grow(list, i, n), k) <=> Has(list, k))
<1> DEFINE x == list[i]
           y == list[i + 1]
           a == [x EXCEPT !.num = n]
           b == [y EXCEPT !.start = x.start + n, !.num = y.num - (n - x.num)]
           new == <<a, b>>
           res == Grow(list, i, n)
<1>0. /\ IsList(list) /\ Tiles(list) /\ Distinct(list)
      /\ FreeHoldNothing(list) /\ Merged(list)
  BY Zenon DEF GoodList
<1>1. i + 1 \in 1 .. Len(list) /\ IsFree(y) /\ y.num >= n - x.num
  BY DEF CanGrow
<1>2. x \in Seg /\ x.start \in Nat /\ x.num \in Nat /\ End(x) = x.start + x.num
  BY Zenon, <1>0, Element
<1>3. y \in Seg /\ y.start \in Nat /\ y.num \in Nat /\ End(y) = y.start + y.num
  BY Zenon, <1>0, <1>1, Element
<1>4. y.start = End(x)
  BY SMTT(30), <1>0, <1>1 DEF Tiles
<1>5. y.buffer = NoKey
  BY Zenon, <1>0, <1>1 DEF FreeHoldNothing
<1>6. x.buffer # NoKey /\ ~IsFree(x)
  BY Zenon, <1>0 DEF FreeHoldNothing
<1>7. res = Splice(list, i, i + 1, new)
  BY Zenon DEF Grow
<1>8. i + 1 < Len(list) => ~IsFree(list[i + 1 + 1])
  BY <1>0, <1>1 DEF Merged
<1> HIDE DEF x, y, res
<1>9. /\ a \in Seg /\ a.start = x.start /\ a.buffer = x.buffer
      /\ ~IsFree(a) /\ End(a) = x.start + n /\ ~IsHole(a)
  BY Zenon, <1>2, <1>6 DEF Seg, IsFree, End, IsHole
<1>10. y.num - (n - x.num) \in Nat /\ x.start + n \in Nat
       /\ x.start + n + (y.num - (n - x.num)) = End(y)
  <2> DEFINE sx == x.start
             nx == x.num
             ny == y.num
             ey == End(y)
  <2>1. /\ sx \in Nat /\ nx \in Nat /\ ny \in Nat /\ ny >= n - nx
        /\ ey = (sx + nx) + ny
    BY Zenon, <1>1, <1>2, <1>3, <1>4
  <2> HIDE DEF sx, nx, ny, ey
  <2>2. ny - (n - nx) \in Nat /\ sx + n \in Nat /\ sx + n + (ny - (n - nx)) = ey
    BY <2>1
  <2> QED BY Zenon, <2>2 DEF sx, nx, ny, ey
<1>11. /\ b \in Seg /\ b.start = x.start + n /\ b.buffer = NoKey
       /\ IsFree(b) /\ End(b) = End(y) /\ ~IsHole(b)
  <2> DEFINE s == x.start + n
             m == y.num - (n - x.num)
  <2>1. s \in Nat /\ m \in Nat /\ s + m = End(y)
    BY Zenon, <1>10
  <2> HIDE DEF s, m
  <2>2. [y EXCEPT !.start = s, !.num = m] \in Seg
    BY Zenon, <2>1, <1>3 DEF Seg
  <2>3. /\ [y EXCEPT !.start = s, !.num = m].start = s
        /\ [y EXCEPT !.start = s, !.num = m].num = m
        /\ [y EXCEPT !.start = s, !.num = m].buffer = y.buffer
        /\ [y EXCEPT !.start = s, !.num = m].status = y.status
    BY Zenon, <1>3 DEF Seg
  <2>4. b = [y EXCEPT !.start = s, !.num = m]
    BY Zenon DEF s, m
  <2> HIDE DEF b
  <2>5. b \in Seg /\ b.start = s /\ b.num = m /\ b.buffer = y.buffer /\ b.status = y.status
    BY Zenon, <2>2, <2>3, <2>4
  <2>6. IsFree(b) /\ ~IsHole(b)
    BY Zenon, <2>5, <1>1 DEF IsFree, IsHole
  <2>7. End(b) = End(y)
    BY Zenon, <2>1, <2>5 DEF End
  <2> QED BY Zenon, <2>5, <2>6, <2>7, <1>5 DEF s
<1>ab. a \in Seg /\ b \in Seg
  BY Zenon, <1>9, <1>11
<1> HIDE DEF a, b
<1>12. IsList(new) /\ Len(new) = 2 /\ new[1] = a /\ new[2] = b
  <2>1. <<a, b>> \in Seq(Seg) /\ Len(<<a, b>>) = 2
    BY <1>ab
  <2>2. <<a, b>>[1] = a /\ <<a, b>>[2] = b
    BY Zenon
  <2> QED BY Zenon, <2>1, <2>2 DEF IsList
<1> HIDE DEF new
<1>13. i + 1 \in i .. Len(list) /\ i \in i .. i + 1
  BY <1>1
<1>14. IsSplice(res, list, i, i + 1, new)
  BY Zenon, <1>0, <1>7, <1>12, <1>13, SpliceShape
<1>15. Covers(new, list[i].start, End(list[i + 1]))
  BY <1>9, <1>11, <1>12 DEF Covers, x, y
<1>16. Tiles(res) /\ SlabSize(res) = SlabSize(list)
  BY Zenon, <1>0, <1>13, <1>14, <1>15, SpliceTiles
<1>17. Merged(new) /\ FreeHoldNothing(new) /\ NoHole(new) /\ Len(new) > 0
  BY <1>9, <1>11, <1>12 DEF Merged, FreeHoldNothing, NoHole
<1>18. Carries(new, list[i].buffer)
  BY <1>9, <1>11, <1>12 DEF Carries, x
<1>19. /\ i > 1 => ~(IsFree(list[i - 1]) /\ IsFree(new[1]))
       /\ i + 1 < Len(list) => ~(IsFree(new[Len(new)]) /\ IsFree(list[i + 1 + 1]))
  BY Zenon, <1>8, <1>9, <1>12
<1>20. Merged(res)
  BY Zenon, <1>0, <1>13, <1>14, <1>17, <1>19, SpliceMerged
<1>21. FreeHoldNothing(res)
  BY Zenon, <1>0, <1>13, <1>14, <1>17, SpliceFreeHoldNothing
<1>22. Distinct(res)
  BY Zenon, <1>0, <1>13, <1>14, <1>18, SpliceDistinct
<1>23. NoHole(res)
  BY Zenon, <1>13, <1>14, <1>17, SpliceNoHole
<1>24. ASSUME NEW k \in Keys, NoKey # k PROVE Has(res, k) <=> Has(list, k)
  <2>1. Has(res, k) <=> HasOutside(list, i, i + 1, k) \/ k = new[1].buffer
    BY Zenon, <1>24, <1>13, <1>14, <1>18, SpliceHas
  <2>2. Has(list, k) => HasOutside(list, i, i + 1, k) \/ k = x.buffer
    <3> SUFFICES ASSUME NEW j \in 1 .. Len(list), list[j].buffer = k
                 PROVE  HasOutside(list, i, i + 1, k) \/ k = x.buffer
      BY Zenon DEF Has
    <3>1. CASE j = i
      BY Zenon, <3>1 DEF x
    <3>2. CASE j = i + 1
      BY Zenon, <3>2, <1>24, <1>5 DEF y
    <3>3. CASE j < i \/ j > i + 1
      BY Zenon, <3>3 DEF HasOutside
    <3> QED BY <3>1, <3>2, <3>3
  <2>3. HasOutside(list, i, i + 1, k) => Has(list, k)
    BY Zenon DEF HasOutside, Has
  <2>4. k = x.buffer => Has(list, k)
    BY Zenon DEF Has, x
  <2> QED BY Zenon, <2>1, <2>2, <2>3, <2>4, <1>9, <1>12
<1>25. GoodList(res)
  BY Zenon, <1>14, <1>16, <1>20, <1>21, <1>22 DEF GoodList, IsSplice
<1> QED BY Zenon, <1>16, <1>23, <1>24, <1>25 DEF res

-----------------------------------------------------------------------------
\* res has the segments of list, with other buffers or last_touched values
SameLayout(res, list) ==
    /\ IsList(res)
    /\ Len(res) = Len(list)
    /\ \A i \in 1 .. Len(list) : /\ res[i].start = list[i].start
                                 /\ End(res[i]) = End(list[i])
                                 /\ IsFree(res[i]) <=> IsFree(list[i])

LEMMA LayoutKept ==
    ASSUME NEW list, NEW res, SameLayout(res, list), Tiles(list), Merged(list)
    PROVE  Tiles(res) /\ Merged(res) /\ SlabSize(res) = SlabSize(list)
<1>1. Len(list) > 0 /\ Len(res) = Len(list)
  BY Zenon DEF SameLayout, Tiles
<1>2. res[1].start = 0
  BY <1>1 DEF SameLayout, Tiles
<1>3. ASSUME NEW i \in 1 .. Len(res) - 1
      PROVE  /\ res[i + 1].start = End(res[i])
             /\ ~(IsFree(res[i]) /\ IsFree(res[i + 1]))
  <2>1. i \in 1 .. Len(list) - 1 /\ i \in 1 .. Len(list) /\ i + 1 \in 1 .. Len(list)
    BY <1>1
  <2>2. /\ list[i + 1].start = End(list[i])
        /\ ~(IsFree(list[i]) /\ IsFree(list[i + 1]))
    BY Zenon, <2>1 DEF Tiles, Merged
  <2>3. /\ res[i + 1].start = list[i + 1].start /\ End(res[i]) = End(list[i])
        /\ IsFree(res[i]) <=> IsFree(list[i])
        /\ IsFree(res[i + 1]) <=> IsFree(list[i + 1])
    BY Zenon, <2>1 DEF SameLayout
  <2> QED BY Zenon, <2>2, <2>3
<1>4. SlabSize(res) = SlabSize(list)
  BY <1>1 DEF SlabSize, SameLayout
<1> QED BY Zenon, <1>1, <1>2, <1>3, <1>4 DEF Tiles, Merged

\* the list with k in its hole
Filled(list, k) ==
    [i \in 1 .. Len(list) |->
        IF list[i].status = "USED" /\ list[i].buffer = NoKey
        THEN [list[i] EXCEPT !.buffer = k]
        ELSE list[i]]

\* reserveBuffer enters the buffer into the segment it was given.
LEMMA FilledIsGood ==
    ASSUME NEW list, GoodList(list), OneHole(list), NEW k \in Keys, k # NoKey,
           ~Has(list, k)
    PROVE  /\ GoodList(Filled(list, k))
           /\ NoHole(Filled(list, k))
           /\ SlabSize(Filled(list, k)) = SlabSize(list)
           /\ \A q \in Keys : NoKey # q =>
                 (Has(Filled(list, k), q) <=> Has(list, q) \/ q = k)
<1> DEFINE res == Filled(list, k)
<1>0. /\ IsList(list) /\ Tiles(list) /\ Distinct(list)
      /\ FreeHoldNothing(list) /\ Merged(list)
  BY Zenon DEF GoodList
<1>1. PICK h \in 1 .. Len(list) : HoleAt(list, h)
  BY Zenon DEF OneHole
<1>2. ASSUME NEW i \in 1 .. Len(list), i # h
      PROVE  res[i] = list[i] /\ ~IsHole(list[i])
  <2>1. ~IsHole(list[i])
    BY Zenon, <1>1, <1>2 DEF HoleAt
  <2>2. ~(list[i].status = "USED" /\ list[i].buffer = NoKey)
    BY Zenon, <2>1 DEF IsHole, IsFree
  <2> QED BY Zenon, <2>1, <2>2 DEF Filled
<1>3. IsHole(list[h]) /\ list[h] \in Seg
  BY Zenon, <1>0, <1>1, Element DEF HoleAt
<1>4. list[h].status = "USED" /\ list[h].buffer = NoKey
  BY Zenon, <1>3 DEF IsHole, IsFree, Seg
<1>5. res[h] = [list[h] EXCEPT !.buffer = k]
  BY Zenon, <1>4 DEF Filled
<1>6. /\ res[h] \in Seg /\ res[h].buffer = k
      /\ res[h].start = list[h].start /\ res[h].num = list[h].num
      /\ res[h].status = list[h].status
  BY Zenon, <1>3, <1>5 DEF Seg
<1>7. IsList(res) /\ Len(res) = Len(list)
  <2>1. ASSUME NEW i \in 1 .. Len(list)
        PROVE  (IF list[i].status = "USED" /\ list[i].buffer = NoKey
                THEN [list[i] EXCEPT !.buffer = k] ELSE list[i]) \in Seg
    <3>1. list[i] \in Seg
      BY Zenon, <1>0, Element
    <3> QED BY Zenon, <3>1 DEF Seg
  <2> QED BY <2>1 DEF Filled, IsList
<1> HIDE DEF res
<1>8. SameLayout(res, list)
  <2>1. ASSUME NEW i \in 1 .. Len(list)
        PROVE  /\ res[i].start = list[i].start
               /\ End(res[i]) = End(list[i])
               /\ IsFree(res[i]) <=> IsFree(list[i])
    <3>1. CASE i # h
      BY Zenon, <3>1, <1>2
    <3>2. CASE i = h
      BY Zenon, <3>2, <1>6 DEF End, IsFree
    <3> QED BY Zenon, <3>1, <3>2
  <2> QED BY Zenon, <2>1, <1>7 DEF SameLayout
<1>9. Tiles(res) /\ Merged(res) /\ SlabSize(res) = SlabSize(list)
  BY Zenon, <1>0, <1>8, LayoutKept
<1>10. FreeHoldNothing(res)
  <2> SUFFICES ASSUME NEW i \in 1 .. Len(list), IsFree(res[i]) PROVE res[i].buffer = NoKey
    BY Zenon, <1>7 DEF FreeHoldNothing
  <2>1. i # h
    BY Zenon, <1>4, <1>6 DEF IsFree
  <2> QED BY Zenon, <2>1, <1>0, <1>2 DEF FreeHoldNothing
<1>11. NoHole(res)
  <2> SUFFICES ASSUME NEW i \in 1 .. Len(list) PROVE ~IsHole(res[i])
    BY Zenon, <1>7 DEF NoHole
  <2>1. CASE i = h
    BY Zenon, <2>1, <1>6 DEF IsHole
  <2> QED BY Zenon, <2>1, <1>2
<1>12. Distinct(res)
  <2> SUFFICES ASSUME NEW i \in 1 .. Len(list), NEW j \in 1 .. Len(list),
                      res[i].buffer = res[j].buffer, res[i].buffer # NoKey
               PROVE  i = j
    BY Zenon, <1>7 DEF Distinct
  <2>1. \A m \in 1 .. Len(list) : list[m].buffer # k
    BY Zenon DEF Has
  <2>2. CASE i # h /\ j # h
    BY Zenon, <2>2, <1>0, <1>2 DEF Distinct
  <2>3. CASE i = h \/ j = h
    BY Zenon, <2>1, <2>3, <1>2, <1>6
  <2> QED BY Zenon, <2>2, <2>3
<1>13. ASSUME NEW q \in Keys, NoKey # q
       PROVE  Has(res, q) <=> Has(list, q) \/ q = k
  <2>1. Has(res, q) <=> \E i \in 1 .. Len(list) : res[i].buffer = q
    BY Zenon, <1>7 DEF Has
  <2>2. Has(list, q) <=> \E i \in 1 .. Len(list) : list[i].buffer = q
    BY Zenon DEF Has
  <2> QED BY Zenon, <2>1, <2>2, <1>13, <1>2, <1>4, <1>6
<1>14. GoodList(res)
  BY Zenon, <1>7, <1>9, <1>10, <1>12 DEF GoodList
<1> QED BY Zenon, <1>9, <1>11, <1>13, <1>14 DEF res

\* the list with a new last_touched in segment i
Touched(list, i, e) == [list EXCEPT ![i].touched = e]

\* A hit on a buffer changes nothing but its last_touched.
LEMMA TouchedIsGood ==
    ASSUME NEW list, GoodList(list), NoHole(list), NEW t \in 1 .. Len(list),
           NEW e \in Nat
    PROVE  /\ GoodList(Touched(list, t, e))
           /\ NoHole(Touched(list, t, e))
           /\ SlabSize(Touched(list, t, e)) = SlabSize(list)
           /\ \A q \in Keys : NoKey # q => (Has(Touched(list, t, e), q) <=> Has(list, q))
<1> DEFINE res == Touched(list, t, e)
<1>0. /\ IsList(list) /\ Tiles(list) /\ Distinct(list)
      /\ FreeHoldNothing(list) /\ Merged(list)
  BY Zenon DEF GoodList
<1>1. list[t] \in Seg
  BY Zenon, <1>0, Element
<1>2. /\ [list[t] EXCEPT !.touched = e] \in Seg
      /\ [list[t] EXCEPT !.touched = e].start = list[t].start
      /\ [list[t] EXCEPT !.touched = e].num = list[t].num
      /\ [list[t] EXCEPT !.touched = e].status = list[t].status
      /\ [list[t] EXCEPT !.touched = e].buffer = list[t].buffer
  BY Zenon, <1>1 DEF Seg
<1>3. IsList(res) /\ Len(res) = Len(list)
  BY <1>0, <1>2 DEF IsList, Touched
<1>4. ASSUME NEW i \in 1 .. Len(list)
      PROVE  /\ res[i].start = list[i].start /\ res[i].num = list[i].num
             /\ res[i].status = list[i].status /\ res[i].buffer = list[i].buffer
  <2>1. CASE i = t
    <3>1. res[i] = [list[t] EXCEPT !.touched = e]
      BY <1>0, <2>1 DEF Touched, IsList
    <3> QED BY Zenon, <2>1, <3>1, <1>2
  <2>2. CASE i # t
    <3>1. res[i] = list[i]
      BY <1>0, <2>2 DEF Touched, IsList
    <3> QED BY Zenon, <3>1
  <2> QED BY Zenon, <2>1, <2>2
<1> HIDE DEF res
<1>5. ASSUME NEW i \in 1 .. Len(list)
      PROVE  End(res[i]) = End(list[i]) /\ (IsFree(res[i]) <=> IsFree(list[i]))
  BY Zenon, <1>4 DEF End, IsFree
<1>6. SameLayout(res, list)
  BY Zenon, <1>3, <1>4, <1>5 DEF SameLayout
<1>7. Tiles(res) /\ Merged(res) /\ SlabSize(res) = SlabSize(list)
  BY Zenon, <1>0, <1>6, LayoutKept
<1>8. FreeHoldNothing(res)
  BY Zenon, <1>0, <1>3, <1>4, <1>5 DEF FreeHoldNothing
<1>9. NoHole(res)
  BY Zenon, <1>3, <1>4, <1>5 DEF NoHole, IsHole
<1>10. Distinct(res)
  BY Zenon, <1>0, <1>3, <1>4 DEF Distinct
<1>11. ASSUME NEW q \in Keys, NoKey # q PROVE Has(res, q) <=> Has(list, q)
  BY Zenon, <1>3, <1>4 DEF Has
<1>12. GoodList(res)
  BY Zenon, <1>3, <1>7, <1>8, <1>10 DEF GoodList
<1> QED BY Zenon, <1>7, <1>9, <1>11, <1>12 DEF res

\* The one free segment that addSlab puts into a new slab.
LEMMA NewSlabIsGood ==
    ASSUME NEW num \in Nat
    PROVE  /\ GoodList(<<FreeSeg(0, num)>>)
           /\ NoHole(<<FreeSeg(0, num)>>)
           /\ SlabSize(<<FreeSeg(0, num)>>) = num
           /\ \A q \in Keys : NoKey # q => ~Has(<<FreeSeg(0, num)>>, q)
<1> DEFINE f == FreeSeg(0, num)
           new == <<f>>
<1>1. /\ f \in Seg /\ f.start = 0 /\ f.buffer = NoKey /\ IsFree(f)
      /\ End(f) = num /\ ~IsHole(f)
  BY FreeSegIs
<1>f. f \in Seg
  BY Zenon, <1>1
<1> HIDE DEF f
<1>2. IsList(new) /\ Len(new) = 1 /\ new[1] = f
  <2>1. <<f>> \in Seq(Seg) /\ Len(<<f>>) = 1
    BY <1>f
  <2>2. <<f>>[1] = f
    BY Zenon
  <2> QED BY Zenon, <2>1, <2>2 DEF IsList
<1> HIDE DEF new
<1>3. Tiles(new) /\ SlabSize(new) = num
  BY <1>1, <1>2 DEF Tiles, SlabSize
<1>4. Merged(new) /\ FreeHoldNothing(new) /\ NoHole(new) /\ Distinct(new)
  BY <1>1, <1>2 DEF Merged, FreeHoldNothing, NoHole, Distinct
<1>5. \A q \in Keys : NoKey # q => ~Has(new, q)
  BY <1>1, <1>2 DEF Has
<1>6. GoodList(new)
  BY Zenon, <1>2, <1>3, <1>4 DEF GoodList
<1> QED BY Zenon, <1>3, <1>4, <1>5, <1>6 DEF new, f
=============================================================================

--------------------------- MODULE SlabPoolProofs ---------------------------
(***************************************************************************)
(* The safety invariants of SlabPool, for every pool size, slab size, key  *)
(* set and request bound.                                                  *)
(*                                                                         *)
(* IInv is the inductive invariant: every slab list is good (it tiles its  *)
(* slab, holds each key at most once, keeps free runs merged), holds the   *)
(* keys that chunk_index_ sends to it, and has no segment without buffer.  *)
(* Between taking pages and entering the buffer (inside MoveTo) there is   *)
(* one such hole, which is why the lemmas follow the hole through Detach   *)
(* and Attach.                                                             *)
(***************************************************************************)
EXTENDS SlabListProofs, WellFoundedInduction

GoodSlab(list) == GoodList(list) /\ SlabSize(list) <= MaxSlabPages

IsPool(slabs) == slabs \in Seq(Seq(Seg))

GoodPool(slabs) ==
    /\ IsPool(slabs)
    /\ \A s \in 1 .. Len(slabs) : GoodSlab(slabs[s])

NoHoles(slabs) == \A s \in 1 .. Len(slabs) : NoHole(slabs[s])

HoleIn(slabs, s) ==
    /\ s \in 1 .. Len(slabs)
    /\ OneHole(slabs[s])
    /\ \A r \in 1 .. Len(slabs) : r # s => NoHole(slabs[r])

\* slab s holds exactly the keys that index sends to it
Placed(slabs, index) ==
    \A s \in 1 .. Len(slabs) : \A k \in Keys : Has(slabs[s], k) <=> index[k] = s

IndexRange(slabs, index) ==
    \A k \in Keys : index[k] \in Int /\ index[k] >= NotIndexed /\ index[k] <= Len(slabs)

\* res is slabs with list as its slab s
Updated(res, slabs, s, list) ==
    /\ IsPool(res)
    /\ Len(res) = Len(slabs)
    /\ res[s] = list
    /\ \A r \in 1 .. Len(slabs) : r # s => res[r] = slabs[r]

LEMMA KeyIsNoNull ==
    ASSUME NEW k \in Keys
    PROVE  k # NoKey /\ NoKey # k
BY Zenon, PoolAssumption

LEMMA UpdateSlab ==
    ASSUME NEW slabs, IsPool(slabs), NEW s \in 1 .. Len(slabs), NEW list, IsList(list)
    PROVE  Updated([slabs EXCEPT ![s] = list], slabs, s, list)
<1>1. [slabs EXCEPT ![s] = list] \in Seq(Seq(Seg))
  BY DEF IsPool, IsList
<1>2. Len([slabs EXCEPT ![s] = list]) = Len(slabs)
  BY DEF IsPool
<1>3. [slabs EXCEPT ![s] = list][s] = list
  BY DEF IsPool
<1>4. \A r \in 1 .. Len(slabs) : r # s => [slabs EXCEPT ![s] = list][r] = slabs[r]
  BY DEF IsPool
<1> QED BY Zenon, <1>1, <1>2, <1>3, <1>4 DEF Updated, IsPool

\* A good list in the place of another keeps the pool good.
LEMMA UpdatedIsGood ==
    ASSUME NEW slabs, GoodPool(slabs), NEW s \in 1 .. Len(slabs),
           NEW list, GoodSlab(list), NEW res, Updated(res, slabs, s, list)
    PROVE  GoodPool(res) /\ Len(res) = Len(slabs)
<1>1. IsPool(res) /\ Len(res) = Len(slabs)
  BY Zenon DEF Updated
<1>2. ASSUME NEW r \in 1 .. Len(slabs) PROVE GoodSlab(res[r])
  <2>1. CASE r = s
    BY Zenon, <2>1 DEF Updated
  <2>2. CASE r # s
    <3>1. res[r] = slabs[r]
      BY Zenon, <2>2 DEF Updated
    <3> QED BY Zenon, <3>1 DEF GoodPool
  <2> QED BY Zenon, <2>1, <2>2
<1> QED BY Zenon, <1>1, <1>2 DEF GoodPool

LEMMA PosOfIs ==
    ASSUME NEW list, NEW k, Has(list, k)
    PROVE  PosOf(list, k) \in 1 .. Len(list) /\ list[PosOf(list, k)].buffer = k
BY Zenon DEF PosOf, Has

-----------------------------------------------------------------------------
\* Detaching k removes it from its slab and changes nothing else.
LEMMA DetachIsGood ==
    ASSUME NEW slabs, GoodPool(slabs), NEW index, Placed(slabs, index),
           NEW k \in Keys, index[k] = chunk_index[k],
           chunk_index[k] \in Int, chunk_index[k] <= Len(slabs)
    PROVE  /\ GoodPool(Detach(slabs, k))
           /\ Len(Detach(slabs, k)) = Len(slabs)
           /\ NoHoles(slabs) => NoHoles(Detach(slabs, k))
           /\ \A s \in 1 .. Len(slabs) : HoleIn(slabs, s) => HoleIn(Detach(slabs, k), s)
           /\ \A s \in 1 .. Len(slabs) : \A q \in Keys :
                 Has(Detach(slabs, k)[s], q) <=> index[q] = s /\ q # k
<1> DEFINE c == chunk_index[k]
           list == slabs[c]
           i == PosOf(list, k)
           new == RemoveSegment(list, i)
           res == Detach(slabs, k)
<1>k. k # NoKey
  BY Zenon, KeyIsNoNull
<1>p. \A s \in 1 .. Len(slabs) : \A q \in Keys : Has(slabs[s], q) <=> index[q] = s
  BY Zenon DEF Placed
<1>1. CASE c > 0
  <2>1. c \in 1 .. Len(slabs)
    BY <1>1
  <2>2. Has(list, k)
    BY Zenon, <2>1, <1>p
  <2>3. i \in 1 .. Len(list) /\ list[i].buffer = k
    BY Zenon, <2>2, PosOfIs
  <2>4. GoodList(list) /\ SlabSize(list) <= MaxSlabPages /\ IsPool(slabs)
    BY Zenon, <2>1 DEF GoodPool, GoodSlab
  <2>5. res = [slabs EXCEPT ![c] = new]
    BY Zenon, <1>1 DEF Detach
  <2> HIDE DEF res, new, i
  <2>6. /\ GoodList(new) /\ SlabSize(new) = SlabSize(list)
        /\ NoHole(list) => NoHole(new)
        /\ OneHole(list) => OneHole(new)
        /\ \A q \in Keys : NoKey # q => (Has(new, q) <=> Has(list, q) /\ q # k)
    BY <1>k, <2>3, <2>4, RemoveIsGood DEF new
  <2> HIDE DEF list, c
  <2>7. GoodSlab(new) /\ IsList(new)
    BY Zenon, <2>4, <2>6 DEF GoodSlab, GoodList
  <2>8. Updated(res, slabs, c, new)
    BY Zenon, <2>1, <2>4, <2>5, <2>7, UpdateSlab
  <2>9. GoodPool(res) /\ Len(res) = Len(slabs)
    BY Zenon, <2>1, <2>7, <2>8, UpdatedIsGood
  <2>10. res[c] = new /\ \A r \in 1 .. Len(slabs) : r # c => res[r] = slabs[r]
    BY Zenon, <2>8 DEF Updated
  <2>11. NoHoles(slabs) => NoHoles(res)
    BY Zenon, <2>1, <2>6, <2>9, <2>10 DEF NoHoles, list
  <2>12. ASSUME NEW s \in 1 .. Len(slabs), HoleIn(slabs, s) PROVE HoleIn(res, s)
    <3>1. OneHole(slabs[s]) /\ \A r \in 1 .. Len(slabs) : r # s => NoHole(slabs[r])
      BY Zenon, <2>12 DEF HoleIn
    <3>2. OneHole(res[s])
      BY Zenon, <3>1, <2>6, <2>10 DEF list
    <3>3. ASSUME NEW r \in 1 .. Len(slabs), r # s PROVE NoHole(res[r])
      BY Zenon, <3>1, <3>3, <2>6, <2>10 DEF list
    <3> QED BY Zenon, <3>2, <3>3, <2>9 DEF HoleIn
  <2>13. ASSUME NEW s \in 1 .. Len(slabs), NEW q \in Keys
         PROVE  Has(res[s], q) <=> index[q] = s /\ q # k
    <3>1. NoKey # q
      BY Zenon, KeyIsNoNull
    <3>2. CASE s = c
      <4>1. Has(list, q) <=> index[q] = s
        BY Zenon, <3>2, <1>p DEF list
      <4> QED BY Zenon, <3>1, <3>2, <4>1, <2>6, <2>10
    <3>3. CASE s # c
      <4>1. Has(res[s], q) <=> index[q] = s
        BY Zenon, <3>3, <1>p, <2>10
      <4>2. index[k] # s
        BY Zenon, <3>3 DEF c
      <4> QED BY Zenon, <4>1, <4>2
    <3> QED BY Zenon, <3>2, <3>3
  <2> QED BY Zenon, <2>9, <2>11, <2>12, <2>13 DEF res
<1>2. CASE ~(c > 0)
  <2>1. Detach(slabs, k) = slabs
    BY Zenon, <1>2 DEF Detach
  <2>2. ASSUME NEW s \in 1 .. Len(slabs) PROVE index[k] # s
    BY <1>2
  <2>3. ASSUME NEW s \in 1 .. Len(slabs), NEW q \in Keys
        PROVE  Has(slabs[s], q) <=> index[q] = s /\ q # k
    BY Zenon, <2>2, <1>p
  <2> QED BY Zenon, <2>1, <2>3
<1> QED BY Zenon, <1>1, <1>2

\* Attaching k fills the hole of slab s with it.
LEMMA AttachIsGood ==
    ASSUME NEW slabs, GoodPool(slabs), NEW s, HoleIn(slabs, s), NEW k \in Keys,
           \A r \in 1 .. Len(slabs) : ~Has(slabs[r], k)
    PROVE  /\ GoodPool(Attach(slabs, s, k))
           /\ Len(Attach(slabs, s, k)) = Len(slabs)
           /\ NoHoles(Attach(slabs, s, k))
           /\ \A r \in 1 .. Len(slabs) : \A q \in Keys :
                 Has(Attach(slabs, s, k)[r], q)
                    <=> Has(slabs[r], q) \/ (q = k /\ r = s)
<1> DEFINE list == slabs[s]
           new == Filled(list, k)
           res == Attach(slabs, s, k)
<1>k. k # NoKey
  BY Zenon, KeyIsNoNull
<1>1. /\ s \in 1 .. Len(slabs) /\ OneHole(list)
      /\ \A r \in 1 .. Len(slabs) : r # s => NoHole(slabs[r])
  BY Zenon DEF HoleIn
<1>2. GoodList(list) /\ SlabSize(list) <= MaxSlabPages /\ IsPool(slabs)
  BY Zenon, <1>1 DEF GoodPool, GoodSlab
<1>3. res = [slabs EXCEPT ![s] = new]
  BY Zenon DEF Attach, Filled
<1>4. ~Has(list, k)
  BY Zenon, <1>1
<1> HIDE DEF res, new, list
<1>5. /\ GoodList(new) /\ NoHole(new) /\ SlabSize(new) = SlabSize(list)
      /\ \A q \in Keys : NoKey # q => (Has(new, q) <=> Has(list, q) \/ q = k)
  BY Zenon, <1>k, <1>1, <1>2, <1>4, FilledIsGood DEF new
<1>6. GoodSlab(new) /\ IsList(new)
  BY Zenon, <1>2, <1>5 DEF GoodSlab, GoodList
<1>7. Updated(res, slabs, s, new)
  BY Zenon, <1>1, <1>2, <1>3, <1>6, UpdateSlab
<1>8. GoodPool(res) /\ Len(res) = Len(slabs)
  BY Zenon, <1>1, <1>6, <1>7, UpdatedIsGood
<1>9. res[s] = new /\ \A r \in 1 .. Len(slabs) : r # s => res[r] = slabs[r]
  BY Zenon, <1>7 DEF Updated
<1>10. NoHoles(res)
  BY Zenon, <1>1, <1>5, <1>8, <1>9 DEF NoHoles
<1>11. ASSUME NEW r \in 1 .. Len(slabs), NEW q \in Keys
       PROVE  Has(res[r], q) <=> Has(slabs[r], q) \/ (q = k /\ r = s)
  <2>1. NoKey # q
    BY Zenon, KeyIsNoNull
  <2>2. CASE r = s
    BY Zenon, <2>1, <2>2, <1>5, <1>9 DEF list
  <2>3. CASE r # s
    BY Zenon, <2>3, <1>9
  <2> QED BY Zenon, <2>2, <2>3
<1> QED BY Zenon, <1>8, <1>10, <1>11 DEF res

-----------------------------------------------------------------------------
\* The part of the invariant that the operations on buffers have to keep.
CoreInv ==
    /\ GoodPool(slab_segments)
    /\ NoHoles(slab_segments)
    /\ Placed(slab_segments, chunk_index)
    /\ IndexRange(slab_segments, chunk_index)
    /\ chunk_index \in [Keys -> Int]
    /\ pins \in [Keys -> Nat]
    /\ creating \subseteq Keys
    /\ buffer_epoch \in Nat
    /\ unsized_segs = {k \in Keys : chunk_index[k] = Unsized}

LEMMA NextEpoch ==
    ASSUME NEW e \in Nat
    PROVE  (e + 1) % EpochMod \in Nat
BY PoolAssumption

\* deleteBuffer keeps the index and the segments in step.
LEMMA DeleteKeepsCore ==
    ASSUME CoreInv, NEW k \in Keys, Delete(k),
           creating' \subseteq Keys, buffer_epoch' \in Nat
    PROVE  CoreInv'
<1>1. /\ GoodPool(slab_segments) /\ NoHoles(slab_segments)
      /\ Placed(slab_segments, chunk_index)
      /\ chunk_index \in [Keys -> Int] /\ pins \in [Keys -> Nat]
  BY Zenon DEF CoreInv
<1>2. \A q \in Keys : /\ chunk_index[q] \in Int /\ chunk_index[q] >= NotIndexed
                      /\ chunk_index[q] <= Len(slab_segments)
  BY Zenon DEF CoreInv, IndexRange
<1>3. /\ slab_segments' = Detach(slab_segments, k)
      /\ unsized_segs' = unsized_segs \ {k}
      /\ chunk_index' = [chunk_index EXCEPT ![k] = NotIndexed]
      /\ pins' = [pins EXCEPT ![k] = 0]
  BY Zenon DEF Delete
<1>4. /\ GoodPool(slab_segments') /\ Len(slab_segments') = Len(slab_segments)
      /\ NoHoles(slab_segments')
      /\ \A s \in 1 .. Len(slab_segments) : \A q \in Keys :
            Has(slab_segments'[s], q) <=> chunk_index[q] = s /\ q # k
  BY <1>1, <1>2, <1>3, DetachIsGood
<1>5. \A q \in Keys : chunk_index'[q] = IF q = k THEN NotIndexed ELSE chunk_index[q]
  BY Zenon, <1>1, <1>3
<1>6. chunk_index' \in [Keys -> Int] /\ pins' \in [Keys -> Nat]
  BY <1>1, <1>3 DEF NotIndexed
<1>7. Placed(slab_segments', chunk_index')
  <2> SUFFICES ASSUME NEW s \in 1 .. Len(slab_segments), NEW q \in Keys
               PROVE  Has(slab_segments'[s], q) <=> chunk_index'[q] = s
    BY Zenon, <1>4 DEF Placed
  <2>1. NotIndexed # s
    BY DEF NotIndexed
  <2> QED BY Zenon, <2>1, <1>4, <1>5
<1>8. IndexRange(slab_segments', chunk_index')
  BY <1>2, <1>4, <1>5 DEF IndexRange, NotIndexed
<1>9. unsized_segs' = {q \in Keys : chunk_index'[q] = Unsized}
  <2>1. unsized_segs = {q \in Keys : chunk_index[q] = Unsized}
    BY Zenon DEF CoreInv
  <2>2. NotIndexed # Unsized
    BY DEF NotIndexed, Unsized
  <2> QED BY Zenon, <2>1, <2>2, <1>3, <1>5
<1> QED BY Zenon, <1>4, <1>6, <1>7, <1>8, <1>9 DEF CoreInv

\* The end of reserveBuffer does too, if the pages were taken (and the evicted
\* buffers removed) properly.
LEMMA MoveToKeepsCore ==
    ASSUME CoreInv, NEW k \in Keys, NEW slabs, NEW s, NEW gone, k \notin gone,
           \A q \in gone : q \in Keys /\ chunk_index[q] > 0,
           GoodPool(slabs), HoleIn(slabs, s), Len(slabs) >= Len(slab_segments),
           \A r \in 1 .. Len(slabs) : \A q \in Keys :
               Has(slabs[r], q) <=> chunk_index[q] = r /\ q \notin gone,
           MoveTo(k, slabs, s, gone)
    PROVE  CoreInv'
<1> DEFINE index == [q \in Keys |-> IF q \in gone THEN NotIndexed ELSE chunk_index[q]]
           mid == Detach(slabs, k)
<1>0. NotIndexed \in Int /\ \A r \in 1 .. Len(slabs) : NotIndexed # r
  BY DEF NotIndexed
<1>1. chunk_index \in [Keys -> Int] /\ pins \in [Keys -> Nat] /\ buffer_epoch \in Nat
  BY Zenon DEF CoreInv
<1>2. \A q \in Keys : /\ chunk_index[q] \in Int /\ chunk_index[q] >= NotIndexed
                      /\ chunk_index[q] <= Len(slabs)
  <2>1. \A q \in Keys : /\ chunk_index[q] \in Int /\ chunk_index[q] >= NotIndexed
                        /\ chunk_index[q] <= Len(slab_segments)
    BY Zenon DEF CoreInv, IndexRange
  <2> QED BY <2>1
<1>3. /\ slab_segments' = Attach(mid, s, k)
      /\ chunk_index' = [q \in Keys |-> IF q = k THEN s
                                        ELSE IF q \in gone THEN NotIndexed
                                        ELSE chunk_index[q]]
      /\ pins' = [q \in Keys |-> IF q \in gone THEN 0 ELSE pins[q]]
      /\ unsized_segs' = unsized_segs \ {k}
      /\ creating' = creating \ {k}
      /\ buffer_epoch' = (buffer_epoch + 1) % EpochMod
  BY Zenon DEF MoveTo
<1>4. index[k] = chunk_index[k]
  BY Zenon
<1>5. Placed(slabs, index)
  <2> SUFFICES ASSUME NEW r \in 1 .. Len(slabs), NEW q \in Keys
               PROVE  Has(slabs[r], q) <=> index[q] = r
    BY Zenon DEF Placed
  <2> QED BY Zenon, <1>0
<1>s. s \in 1 .. Len(slabs)
  BY Zenon DEF HoleIn
<1>i. \A r \in 1 .. Len(slabs) : \A q \in Keys :
          index[q] = r <=> chunk_index[q] = r /\ q \notin gone
  BY Zenon, <1>0
<1> HIDE DEF index, mid
<1>6. /\ GoodPool(mid) /\ Len(mid) = Len(slabs) /\ HoleIn(mid, s)
      /\ \A r \in 1 .. Len(slabs) : \A q \in Keys :
            Has(mid[r], q) <=> index[q] = r /\ q # k
  BY <1>2, <1>4, <1>5, <1>s, DetachIsGood DEF mid
<1>7. \A r \in 1 .. Len(mid) : ~Has(mid[r], k)
  BY Zenon, <1>6
<1>8. /\ GoodPool(slab_segments') /\ Len(slab_segments') = Len(slabs)
      /\ NoHoles(slab_segments')
      /\ \A r \in 1 .. Len(slabs) : \A q \in Keys :
            Has(slab_segments'[r], q) <=> Has(mid[r], q) \/ (q = k /\ r = s)
  BY <1>3, <1>6, <1>7, AttachIsGood
<1>9. \A q \in Keys : chunk_index'[q] = IF q = k THEN s
                                        ELSE IF q \in gone THEN NotIndexed
                                        ELSE chunk_index[q]
  BY Zenon, <1>3
<1>10. chunk_index' \in [Keys -> Int]
  BY <1>0, <1>1, <1>3, <1>s
<1>11. pins' \in [Keys -> Nat]
  BY Zenon, <1>1, <1>3
<1>12. Placed(slab_segments', chunk_index')
  <2> SUFFICES ASSUME NEW r \in 1 .. Len(slabs), NEW q \in Keys
               PROVE  Has(slab_segments'[r], q) <=> chunk_index'[q] = r
    BY Zenon, <1>8 DEF Placed
  <2>1. Has(slab_segments'[r], q) <=> (index[q] = r /\ q # k) \/ (q = k /\ r = s)
    BY Zenon, <1>6, <1>8
  <2>2. index[q] = r <=> chunk_index[q] = r /\ q \notin gone
    BY Zenon, <1>i
  <2>3. CASE q = k
    BY Zenon, <2>1, <2>3, <1>9
  <2>4. CASE q # k
    BY <2>1, <2>2, <2>4, <1>0, <1>9
  <2> QED BY Zenon, <2>3, <2>4
<1>13. IndexRange(slab_segments', chunk_index')
  <2> SUFFICES ASSUME NEW q \in Keys
               PROVE  /\ chunk_index'[q] \in Int /\ chunk_index'[q] >= NotIndexed
                      /\ chunk_index'[q] <= Len(slabs)
    BY Zenon, <1>8 DEF IndexRange
  <2>1. CASE q = k
    BY <2>1, <1>9, <1>s DEF NotIndexed
  <2>2. CASE q # k /\ q \in gone
    BY <2>2, <1>9 DEF NotIndexed
  <2>3. CASE q # k /\ q \notin gone
    BY Zenon, <2>3, <1>2, <1>9
  <2> QED BY Zenon, <2>1, <2>2, <2>3
<1>14. creating' \subseteq Keys /\ buffer_epoch' \in Nat
  BY Zenon, <1>1, <1>3, NextEpoch DEF CoreInv
<1>15. unsized_segs' = {q \in Keys : chunk_index'[q] = Unsized}
  <2>1. unsized_segs = {q \in Keys : chunk_index[q] = Unsized}
    BY Zenon DEF CoreInv
  <2>2. s # Unsized /\ NotIndexed # Unsized
    BY <1>s DEF NotIndexed, Unsized
  <2>3. \A q \in Keys : q \in gone => chunk_index[q] # Unsized
    BY DEF Unsized
  <2> QED BY Zenon, <2>1, <2>2, <2>3, <1>3, <1>9
<1> QED BY Zenon, <1>8, <1>10, <1>11, <1>12, <1>13, <1>14, <1>15 DEF CoreInv

-----------------------------------------------------------------------------
LEMMA LeastNat ==
    ASSUME NEW T, T \subseteq Nat, T # {}
    PROVE  \E x \in T : \A y \in T : x <= y
<1> DEFINE R == OpToRel(<, Nat)
<1>1. IsWellFoundedOn(R, Nat)
  BY NatLessThanWellFounded, Zenon
<1>2. \A x \in Nat, y \in Nat : x < y => <<x, y>> \in R
  BY Zenon DEF OpToRel
<1> HIDE DEF R
<1>3. PICK x \in T : \A y \in T : ~(<<y, x>> \in R)
  BY Zenon, <1>1, WFMin
<1>4. ASSUME NEW y \in T PROVE x <= y
  <2>1. x \in Nat /\ y \in Nat
    BY Zenon
  <2>2. ~(y < x)
    BY Zenon, <2>1, <1>2, <1>3
  <2> QED BY <2>1, <2>2
<1> QED BY Zenon, <1>4

LEMMA FirstFitIs ==
    ASSUME NEW list, NEW n, Fits(list, n) # {}
    PROVE  /\ FirstFit(list, n) \in 1 .. Len(list)
           /\ IsFree(list[FirstFit(list, n)])
           /\ list[FirstFit(list, n)].num >= n
<1>1. Fits(list, n) \subseteq Nat
  BY DEF Fits
<1>2. \E i \in Fits(list, n) : \A j \in Fits(list, n) : i <= j
  BY Zenon, <1>1, LeastNat
<1>3. FirstFit(list, n) \in Fits(list, n)
  BY Zenon, <1>2 DEF FirstFit
<1> QED BY Zenon, <1>3 DEF Fits

LEMMA FirstSlabIs ==
    ASSUME NEW n, FitsSomewhere(n)
    PROVE  /\ FirstSlab(n) \in 1 .. Len(slab_segments)
           /\ Fits(slab_segments[FirstSlab(n)], n) # {}
<1> DEFINE T == {s \in 1 .. Len(slab_segments) : Fits(slab_segments[s], n) # {}}
<1>1. T \subseteq Nat /\ T # {}
  BY SMTT(30) DEF FitsSomewhere
<1>2. PICK s \in T : \A r \in T : s <= r
  BY Zenon, <1>1, LeastNat
<1>3. ASSUME NEW r \in 1 .. s - 1 PROVE Fits(slab_segments[r], n) = {}
  <2>1. r \in 1 .. Len(slab_segments) /\ ~(s <= r)
    OBVIOUS
  <2> QED BY Zenon, <2>1, <1>2
<1>4. \E x \in 1 .. Len(slab_segments) :
          /\ Fits(slab_segments[x], n) # {}
          /\ \A r \in 1 .. x - 1 : Fits(slab_segments[r], n) = {}
  BY Zenon, <1>3
<1> QED BY Zenon, <1>4 DEF FirstSlab

\* Taking a free segment: findFreeBufferInSlab.
LEMMA TakeFreeIsGood ==
    ASSUME NEW list, GoodList(list), NoHole(list), NEW i \in 1 .. Len(list),
           IsFree(list[i]), NEW n \in Nat, list[i].num >= n, buffer_epoch \in Nat
    PROVE  /\ GoodList(TakeFree(list, i, n))
           /\ OneHole(TakeFree(list, i, n))
           /\ SlabSize(TakeFree(list, i, n)) = SlabSize(list)
           /\ \A k \in Keys : Has(TakeFree(list, i, n), k) <=> Has(list, k)
<1> DEFINE res == Taken(list, i, i, n, buffer_epoch)
<1>0. IsList(list) /\ FreeHoldNothing(list) /\ Merged(list)
  BY Zenon DEF GoodList
<1>1. /\ list[i].start \in Nat /\ list[i].num \in Nat
      /\ End(list[i]) = list[i].start + list[i].num
  BY Zenon, <1>0, Element
<1>2. /\ End(list[i]) - list[i].start - n = list[i].num - n
      /\ n <= End(list[i]) - list[i].start
  <2> DEFINE si == list[i].start
             ni == list[i].num
             ei == End(list[i])
  <2>1. si \in Nat /\ ni \in Nat /\ ei = si + ni /\ ni >= n
    BY Zenon, <1>1
  <2> HIDE DEF si, ni, ei
  <2>2. ei - si - n = ni - n /\ n <= ei - si
    BY <2>1
  <2> QED BY Zenon, <2>2 DEF si, ni, ei
<1>3. TakeFree(list, i, n) = res
  BY Zenon, <1>2 DEF TakeFree, Taken
<1>4. i < Len(list) => ~IsFree(list[i + 1])
  BY <1>0 DEF Merged
<1>5. i \in i .. Len(list)
  OBVIOUS
<1>6. /\ GoodList(res) /\ OneHole(res) /\ SlabSize(res) = SlabSize(list)
      /\ \A k \in Keys : NoKey # k => (Has(res, k) <=> HasOutside(list, i, i, k))
  BY Zenon, <1>2, <1>4, <1>5, TakenIsGood
<1> HIDE DEF res
<1>7. ASSUME NEW k \in Keys PROVE Has(res, k) <=> Has(list, k)
  <2>1. NoKey # k
    BY Zenon, KeyIsNoNull
  <2>2. Has(res, k) <=> HasOutside(list, i, i, k)
    BY Zenon, <2>1, <1>6
  <2>3. list[i].buffer # k
    BY Zenon, <2>1, <1>0 DEF FreeHoldNothing
  <2>4. HasOutside(list, i, i, k) <=> Has(list, k)
    BY <2>3 DEF HasOutside, Has
  <2> QED BY Zenon, <2>2, <2>4
<1> QED BY Zenon, <1>3, <1>6, <1>7

-----------------------------------------------------------------------------
\* the buffers of the used segments lo..hi
Removed(list, lo, hi) == {list[m].buffer : m \in {i \in lo .. hi : ~IsFree(list[i])}}

\* evict: the pages of the window become the new segment and at most one free
\* segment; exactly the buffers of the window disappear.
LEMMA EvictIsGood ==
    ASSUME NEW list, GoodList(list), NoHole(list),
           NEW lo \in 1 .. Len(list), NEW hi \in lo .. Len(list), NEW n \in Nat,
           n <= End(list[hi]) - list[lo].start, buffer_epoch \in Nat
    PROVE  /\ GoodList(EvictWindow(list, lo, hi, n))
           /\ OneHole(EvictWindow(list, lo, hi, n))
           /\ SlabSize(EvictWindow(list, lo, hi, n)) = SlabSize(list)
           /\ \A k \in Keys : Has(EvictWindow(list, lo, hi, n), k)
                                 <=> Has(list, k) /\ k \notin Removed(list, lo, hi)
<1> DEFINE excess == End(list[hi]) - list[lo].start - n
           merge == excess > 0 /\ hi < Len(list) /\ IsFree(list[hi + 1])
           last == IF merge THEN hi + 1 ELSE hi
           res == Taken(list, lo, last, n, buffer_epoch)
<1>0. IsList(list) /\ Tiles(list) /\ Distinct(list) /\ FreeHoldNothing(list) /\ Merged(list)
  BY Zenon DEF GoodList
<1>1. EvictWindow(list, lo, hi, n) = res
  BY Zenon DEF EvictWindow, Taken
<1>2. list[lo].start \in Nat /\ End(list[hi]) \in Nat
  BY <1>0, Element
<1>3. /\ last \in lo .. Len(list) /\ last \in 1 .. Len(list)
      /\ last = hi \/ (last = hi + 1 /\ IsFree(list[last]))
  <2> HIDE DEF excess
  <2> QED OBVIOUS
<1>4. n <= End(list[last]) - list[lo].start
  <2>1. CASE ~merge
    BY Zenon, <2>1
  <2>2. CASE merge
    <3>1. last = hi + 1 /\ hi \in 1 .. Len(list) - 1 /\ hi + 1 \in 1 .. Len(list)
      BY <2>2
    <3>2. list[hi + 1].start = End(list[hi])
      BY Zenon, <3>1, <1>0 DEF Tiles
    <3>3. /\ End(list[hi + 1]) = list[hi + 1].start + list[hi + 1].num
          /\ list[hi + 1].num \in Nat /\ End(list[hi + 1]) \in Nat
      BY Zenon, <3>1, <1>0, Element
    <3>4. End(list[hi + 1]) >= End(list[hi])
      BY <3>2, <3>3, <1>2
    <3>5. n <= End(list[hi + 1]) - list[lo].start
      BY SMTT(30), <3>3, <3>4, <1>2
    <3> QED BY Zenon, <3>1, <3>5
  <2> QED BY Zenon, <2>1, <2>2
<1>5. last < Len(list) /\ n < End(list[last]) - list[lo].start
         => ~IsFree(list[last + 1])
  <2>1. CASE ~merge
    <3>1. last = hi
      BY Zenon, <2>1
    <3>2. hi < Len(list) /\ excess > 0 => ~IsFree(list[hi + 1])
      BY Zenon, <2>1
    <3>3. n < End(list[hi]) - list[lo].start => excess > 0
      BY <1>2
    <3> HIDE DEF excess, merge, last
    <3> QED BY Zenon, <3>1, <3>2, <3>3
  <2>2. CASE merge
    <3>1. last = hi + 1 /\ IsFree(list[last])
      BY Zenon, <2>2
    <3> HIDE DEF last
    <3> QED BY <3>1, <1>0, <1>3 DEF Merged
  <2> QED BY Zenon, <2>1, <2>2
<1> HIDE DEF last
<1>6. /\ GoodList(res) /\ OneHole(res) /\ SlabSize(res) = SlabSize(list)
      /\ \A k \in Keys : NoKey # k => (Has(res, k) <=> HasOutside(list, lo, last, k))
  BY Zenon, <1>3, <1>4, <1>5, TakenIsGood
<1> HIDE DEF res
<1>7. ASSUME NEW k \in Keys
      PROVE  Has(res, k) <=> Has(list, k) /\ k \notin Removed(list, lo, hi)
  <2>0. NoKey # k
    BY Zenon, KeyIsNoNull
  <2>1. Has(res, k) <=> HasOutside(list, lo, last, k)
    BY Zenon, <2>0, <1>6
  <2>2. ASSUME HasOutside(list, lo, last, k)
        PROVE  Has(list, k) /\ k \notin Removed(list, lo, hi)
    <3>1. PICK m \in 1 .. Len(list) : (m < lo \/ m > last) /\ list[m].buffer = k
      BY Zenon, <2>2 DEF HasOutside
    <3>2. ASSUME NEW j \in lo .. hi, list[j].buffer = k PROVE FALSE
      <4>1. j \in 1 .. Len(list) /\ j # m
        BY <3>1, <1>3
      <4> QED BY Zenon, <2>0, <3>1, <3>2, <4>1, <1>0 DEF Distinct
    <3>3. k \notin Removed(list, lo, hi)
      BY Zenon, <3>2 DEF Removed
    <3> QED BY Zenon, <3>1, <3>3 DEF Has
  <2>3. ASSUME Has(list, k), k \notin Removed(list, lo, hi)
        PROVE  HasOutside(list, lo, last, k)
    <3>1. PICK m \in 1 .. Len(list) : list[m].buffer = k
      BY Zenon, <2>3 DEF Has
    <3>2. ~IsFree(list[m])
      BY Zenon, <2>0, <3>1, <1>0 DEF FreeHoldNothing
    <3>3. m \notin lo .. hi
      BY Zenon, <2>3, <3>1, <3>2 DEF Removed
    <3>4. m < lo \/ m > last
      BY <3>2, <3>3, <1>3
    <3> QED BY Zenon, <3>1, <3>4 DEF HasOutside
  <2> QED BY Zenon, <2>1, <2>2, <2>3
<1> QED BY Zenon, <1>1, <1>6, <1>7

-----------------------------------------------------------------------------
LimitInv ==
    /\ num_pages_allocated \in Nat /\ num_pages_allocated <= MaxPoolPages
    /\ current_max_slab_page_size \in Nat /\ current_max_slab_page_size <= MaxSlabPages
    /\ allocations_capped \in BOOLEAN

TaskInv ==
    /\ busy \in {"idle", "reserve", "prefix", "clear"}
    /\ req \in [key : Keys \cup {NoKey}, pages : Nat]
    /\ sweep \subseteq Keys
    /\ walk \in [slab : Nat \ {0}, seg : Nat \ {0}, pinned : BOOLEAN]

\* The buffer a search works for is indexed and pinned by the searching thread.
ReqInv ==
    busy = "reserve" => req.key \in Keys /\ Indexed(req.key) /\ pins[req.key] > 0

IInv == CoreInv /\ LimitInv /\ TaskInv /\ ReqInv

coreVars == <<slab_segments, unsized_segs, chunk_index, pins, creating, buffer_epoch>>

LEMMA SameCore ==
    ASSUME CoreInv, UNCHANGED coreVars
    PROVE  CoreInv'
BY Zenon DEF CoreInv, coreVars, GoodPool, NoHoles, Placed, IndexRange, Unsized

LEMMA SameLimits ==
    ASSUME LimitInv, UNCHANGED poolVars
    PROVE  LimitInv'
BY Zenon DEF LimitInv, poolVars

LEMMA SameTask ==
    ASSUME TaskInv, UNCHANGED taskVars
    PROVE  TaskInv'
BY Zenon DEF TaskInv, taskVars

LEMMA InitInv == Init => IInv
<1> SUFFICES ASSUME Init PROVE IInv
  BY Zenon
<1>1. /\ slab_segments = <<>> /\ unsized_segs = {} /\ creating = {} /\ buffer_epoch = 0
      /\ chunk_index = [k \in Keys |-> NotIndexed] /\ pins = [k \in Keys |-> 0]
  BY Zenon DEF Init
<1>2. slab_segments \in Seq(Seq(Seg)) /\ Len(slab_segments) = 0
  BY <1>1
<1>3. \A k \in Keys : chunk_index[k] = NotIndexed
  BY Zenon, <1>1
<1>4. GoodPool(slab_segments) /\ NoHoles(slab_segments)
      /\ Placed(slab_segments, chunk_index)
  BY <1>2 DEF GoodPool, IsPool, NoHoles, Placed
<1>5. IndexRange(slab_segments, chunk_index)
  BY <1>2, <1>3 DEF IndexRange, NotIndexed
<1>6. chunk_index \in [Keys -> Int] /\ pins \in [Keys -> Nat]
  BY <1>1 DEF NotIndexed
<1>7. unsized_segs = {k \in Keys : chunk_index[k] = Unsized}
  BY <1>1, <1>3 DEF NotIndexed, Unsized
<1>8. CoreInv
  BY Zenon, <1>1, <1>4, <1>5, <1>6, <1>7 DEF CoreInv
<1>9. LimitInv
  <2>1. /\ num_pages_allocated = 0 /\ current_max_slab_page_size = MaxSlabPages
        /\ allocations_capped = FALSE
    BY Zenon DEF Init
  <2>2. allocations_capped \in BOOLEAN
    BY <2>1, Zenon
  <2>3. /\ num_pages_allocated \in Nat /\ num_pages_allocated <= MaxPoolPages
        /\ current_max_slab_page_size \in Nat
        /\ current_max_slab_page_size <= MaxSlabPages
    BY <2>1, PoolAssumption
  <2> QED BY Zenon, <2>2, <2>3 DEF LimitInv
<1>10. TaskInv /\ ReqInv
  BY DEF Init, TaskInv, ReqInv, NoReq, NoWalk
<1> QED BY Zenon, <1>8, <1>9, <1>10 DEF IInv

LEMMA InsertInv ==
    ASSUME IInv, NEW k \in Keys, InsertUnsized(k), creating' \subseteq Keys
    PROVE  IInv'
<1>1. CoreInv /\ LimitInv /\ TaskInv /\ ReqInv
  BY Zenon DEF IInv
<1>2. /\ unsized_segs' = unsized_segs \cup {k}
      /\ chunk_index' = [chunk_index EXCEPT ![k] = Unsized]
      /\ pins' = [pins EXCEPT ![k] = 1]
      /\ slab_segments' = slab_segments /\ buffer_epoch' = buffer_epoch
      /\ UNCHANGED poolVars /\ UNCHANGED taskVars
  BY Zenon DEF InsertUnsized, Indexed
<1>3. /\ chunk_index \in [Keys -> Int] /\ pins \in [Keys -> Nat]
      /\ GoodPool(slab_segments) /\ NoHoles(slab_segments) /\ buffer_epoch \in Nat
  BY Zenon, <1>1 DEF CoreInv
<1>4. chunk_index[k] = NotIndexed
  BY Zenon DEF InsertUnsized, Indexed
<1>5. \A q \in Keys : chunk_index'[q] = IF q = k THEN Unsized ELSE chunk_index[q]
  BY Zenon, <1>2, <1>3
<1>6. chunk_index' \in [Keys -> Int] /\ pins' \in [Keys -> Nat]
  BY <1>2, <1>3 DEF Unsized
<1>7. Placed(slab_segments, chunk_index')
  <2> SUFFICES ASSUME NEW s \in 1 .. Len(slab_segments), NEW q \in Keys
               PROVE  Has(slab_segments[s], q) <=> chunk_index'[q] = s
    BY Zenon DEF Placed
  <2>1. Has(slab_segments[s], q) <=> chunk_index[q] = s
    BY Zenon, <1>1 DEF CoreInv, Placed
  <2>2. Unsized # s /\ NotIndexed # s
    BY DEF Unsized, NotIndexed
  <2> QED BY Zenon, <2>1, <2>2, <1>4, <1>5
<1>8. IndexRange(slab_segments, chunk_index')
  <2>1. \A q \in Keys : /\ chunk_index[q] \in Int /\ chunk_index[q] >= NotIndexed
                        /\ chunk_index[q] <= Len(slab_segments)
    BY Zenon, <1>1 DEF CoreInv, IndexRange
  <2> QED BY <2>1, <1>5 DEF IndexRange, NotIndexed, Unsized
<1>9. unsized_segs' = {q \in Keys : chunk_index'[q] = Unsized}
  <2>1. unsized_segs = {q \in Keys : chunk_index[q] = Unsized}
    BY Zenon, <1>1 DEF CoreInv
  <2> QED BY Zenon, <2>1, <1>2, <1>5
<1>10. CoreInv'
  BY Zenon, <1>2, <1>3, <1>6, <1>7, <1>8, <1>9 DEF CoreInv
<1>11. LimitInv' /\ TaskInv'
  BY Zenon, <1>1, <1>2, SameLimits, SameTask
<1>12. ReqInv'
  <2> SUFFICES ASSUME busy = "reserve"
               PROVE  req.key \in Keys /\ chunk_index'[req.key] # NotIndexed
                      /\ pins'[req.key] > 0
    BY Zenon, <1>2 DEF ReqInv, Indexed, taskVars
  <2>1. req.key \in Keys /\ chunk_index[req.key] # NotIndexed /\ pins[req.key] > 0
    BY Zenon, <1>1 DEF ReqInv, Indexed
  <2>2. req.key # k
    BY Zenon, <2>1, <1>4
  <2> QED BY Zenon, <2>1, <2>2, <1>2, <1>3, <1>5
<1> QED BY Zenon, <1>10, <1>11, <1>12 DEF IInv

-----------------------------------------------------------------------------
\* Replacing a slab list by one with the same keys.
LEMMA ReplacedKeepsCore ==
    ASSUME CoreInv, NEW s \in 1 .. Len(slab_segments), NEW list,
           GoodList(list), NoHole(list), SlabSize(list) = SlabSize(slab_segments[s]),
           \A q \in Keys : NoKey # q => (Has(list, q) <=> Has(slab_segments[s], q)),
           slab_segments' = [slab_segments EXCEPT ![s] = list],
           UNCHANGED <<unsized_segs, chunk_index, creating>>,
           pins' \in [Keys -> Nat], buffer_epoch' \in Nat
    PROVE  CoreInv'
<1>1. /\ GoodPool(slab_segments) /\ NoHoles(slab_segments)
      /\ Placed(slab_segments, chunk_index) /\ IndexRange(slab_segments, chunk_index)
      /\ chunk_index \in [Keys -> Int] /\ creating \subseteq Keys
      /\ unsized_segs = {k \in Keys : chunk_index[k] = Unsized}
  BY Zenon DEF CoreInv
<1>2. GoodSlab(slab_segments[s]) /\ IsPool(slab_segments)
  BY Zenon, <1>1 DEF GoodPool
<1>3. GoodSlab(list) /\ IsList(list)
  BY Zenon, <1>2 DEF GoodSlab, GoodList
<1>4. Updated(slab_segments', slab_segments, s, list)
  BY Zenon, <1>2, <1>3, UpdateSlab
<1>5. GoodPool(slab_segments') /\ Len(slab_segments') = Len(slab_segments)
  BY Zenon, <1>1, <1>3, <1>4, UpdatedIsGood
<1>6. /\ slab_segments'[s] = list
      /\ \A r \in 1 .. Len(slab_segments) : r # s => slab_segments'[r] = slab_segments[r]
  BY Zenon, <1>4 DEF Updated
<1>7. NoHoles(slab_segments')
  BY Zenon, <1>1, <1>5, <1>6 DEF NoHoles
<1>8. Placed(slab_segments', chunk_index)
  <2> SUFFICES ASSUME NEW r \in 1 .. Len(slab_segments), NEW q \in Keys
               PROVE  Has(slab_segments'[r], q) <=> chunk_index[q] = r
    BY Zenon, <1>5 DEF Placed
  <2>1. Has(slab_segments[r], q) <=> chunk_index[q] = r
    BY Zenon, <1>1 DEF Placed
  <2>2. Has(slab_segments'[r], q) <=> Has(slab_segments[r], q)
    <3>1. NoKey # q
      BY Zenon, KeyIsNoNull
    <3> QED BY Zenon, <3>1, <1>6
  <2> QED BY Zenon, <2>1, <2>2
<1>9. IndexRange(slab_segments', chunk_index)
  BY Zenon, <1>1, <1>5 DEF IndexRange
<1> QED BY Zenon, <1>1, <1>5, <1>7, <1>8, <1>9 DEF CoreInv, Unsized

\* Where the buffer of an indexed, sized key is.
LEMMA SlabOfKey ==
    ASSUME CoreInv, NEW k \in Keys, chunk_index[k] > 0
    PROVE  LET list == slab_segments[chunk_index[k]]
           IN  /\ chunk_index[k] \in 1 .. Len(slab_segments)
               /\ GoodList(list) /\ NoHole(list)
               /\ PosOf(list, k) \in 1 .. Len(list)
               /\ list[PosOf(list, k)].buffer = k
<1> DEFINE c == chunk_index[k]
           list == slab_segments[c]
<1>1. c \in 1 .. Len(slab_segments)
  BY DEF CoreInv, IndexRange
<1>2. Has(list, k)
  BY Zenon, <1>1 DEF CoreInv, Placed
<1>3. GoodList(list) /\ NoHole(list)
  BY Zenon, <1>1 DEF CoreInv, GoodPool, GoodSlab, NoHoles
<1>4. PosOf(list, k) \in 1 .. Len(list) /\ list[PosOf(list, k)].buffer = k
  BY Zenon, <1>2, PosOfIs
<1> QED BY Zenon, <1>1, <1>3, <1>4

LEMMA PinInv ==
    ASSUME IInv, NEW k \in Keys, PinBuffer(k)
    PROVE  IInv'
<1> DEFINE c == chunk_index[k]
           list == slab_segments[c]
           p == PosOf(list, k)
           new == Touched(list, p, buffer_epoch)
<1>1. CoreInv /\ LimitInv /\ TaskInv
  BY Zenon DEF IInv
<1>2. /\ busy = "idle" /\ pins' = [pins EXCEPT ![k] = pins[k] + 1]
      /\ buffer_epoch' = (buffer_epoch + 1) % EpochMod
      /\ UNCHANGED <<unsized_segs, chunk_index, creating>>
      /\ UNCHANGED poolVars /\ UNCHANGED taskVars
      /\ c > 0 => slab_segments' = [slab_segments EXCEPT ![c] = new]
      /\ ~(c > 0) => slab_segments' = slab_segments
  BY Zenon DEF PinBuffer, Touched
<1>3. pins' \in [Keys -> Nat] /\ buffer_epoch' \in Nat /\ buffer_epoch \in Nat
  <2>1. pins \in [Keys -> Nat] /\ buffer_epoch \in Nat
    BY Zenon, <1>1 DEF CoreInv
  <2> QED BY <2>1, <1>2, NextEpoch
<1>4. CoreInv'
  <2>1. CASE c > 0
    <3>1. c \in 1 .. Len(slab_segments) /\ GoodList(list) /\ NoHole(list)
          /\ p \in 1 .. Len(list)
      BY Zenon, <1>1, <2>1, SlabOfKey
    <3> HIDE DEF p, new
    <3>2. /\ GoodList(new) /\ NoHole(new) /\ SlabSize(new) = SlabSize(list)
          /\ \A q \in Keys : NoKey # q => (Has(new, q) <=> Has(list, q))
      BY Zenon, <3>1, <1>3, TouchedIsGood DEF new
    <3> HIDE DEF c
    <3> QED BY Zenon, <2>1, <3>1, <3>2, <1>1, <1>2, <1>3, ReplacedKeepsCore
  <2>2. CASE ~(c > 0)
    <3>1. slab_segments' = slab_segments
      BY Zenon, <2>2, <1>2
    <3> QED BY Zenon, <3>1, <1>1, <1>2, <1>3
            DEF CoreInv, GoodPool, NoHoles, Placed, IndexRange, Unsized
  <2> QED BY Zenon, <2>1, <2>2
<1>5. LimitInv' /\ TaskInv'
  BY Zenon, <1>1, <1>2, SameLimits, SameTask
<1>6. ReqInv'
  BY Zenon, <1>2 DEF ReqInv, taskVars
<1> QED BY Zenon, <1>4, <1>5, <1>6 DEF IInv

LEMMA UnpinInv ==
    ASSUME IInv, NEW k \in Keys, UnpinBuffer(k)
    PROVE  IInv'
<1>1. CoreInv /\ LimitInv /\ TaskInv /\ ReqInv
  BY Zenon DEF IInv
<1>2. /\ pins[k] > IF req.key = k THEN 1 ELSE 0
      /\ pins' = [pins EXCEPT ![k] = pins[k] - 1]
      /\ UNCHANGED <<slab_segments, unsized_segs, chunk_index, creating, buffer_epoch>>
      /\ UNCHANGED poolVars /\ UNCHANGED taskVars
  BY Zenon DEF UnpinBuffer
<1>3. pins \in [Keys -> Nat]
  BY Zenon, <1>1 DEF CoreInv
<1>4. pins' \in [Keys -> Nat]
  <2>1. pins[k] \in Nat /\ pins[k] > 0
    BY <1>2, <1>3
  <2>2. pins[k] - 1 \in Nat
    BY <2>1
  <2> QED BY Zenon, <2>2, <1>2, <1>3
<1>5. CoreInv'
  BY Zenon, <1>1, <1>2, <1>4 DEF CoreInv, GoodPool, NoHoles, Placed, IndexRange, Unsized
<1>6. LimitInv' /\ TaskInv'
  BY Zenon, <1>1, <1>2, SameLimits, SameTask
<1>7. ReqInv'
  <2> SUFFICES ASSUME busy = "reserve"
               PROVE  req.key \in Keys /\ Indexed(req.key) /\ pins'[req.key] > 0
    BY Zenon, <1>2 DEF ReqInv, Indexed, taskVars
  <2>1. req.key \in Keys /\ Indexed(req.key) /\ pins[req.key] > 0
    BY Zenon, <1>1 DEF ReqInv
  <2>2. CASE req.key = k
    <3>1. pins[k] \in Nat /\ pins[k] > 1 /\ pins'[k] = pins[k] - 1
      BY Zenon, <2>2, <1>2, <1>3
    <3> QED BY <2>1, <2>2, <3>1
  <2>3. CASE req.key # k
    BY Zenon, <2>1, <2>3, <1>2, <1>3
  <2> QED BY Zenon, <2>2, <2>3
<1> QED BY Zenon, <1>5, <1>6, <1>7 DEF IInv

LEMMA FreeInv ==
    ASSUME IInv, NEW k \in Keys, Free(k)
    PROVE  IInv'
<1>1. CoreInv /\ LimitInv /\ TaskInv
  BY Zenon DEF IInv
<1>2. /\ busy = "idle" /\ Delete(k) /\ UNCHANGED <<creating, buffer_epoch>>
      /\ UNCHANGED poolVars /\ UNCHANGED taskVars
  BY Zenon DEF Free
<1>3. creating' \subseteq Keys /\ buffer_epoch' \in Nat
  BY Zenon, <1>1, <1>2 DEF CoreInv
<1>4. CoreInv'
  BY Zenon, <1>1, <1>2, <1>3, DeleteKeepsCore
<1>5. LimitInv' /\ TaskInv'
  BY Zenon, <1>1, <1>2, SameLimits, SameTask
<1>6. ReqInv'
  BY Zenon, <1>2 DEF ReqInv, taskVars
<1> QED BY Zenon, <1>4, <1>5, <1>6 DEF IInv

-----------------------------------------------------------------------------
LEMMA ReserveInPlaceInv ==
    ASSUME IInv, NEW k \in Keys, NEW n \in 1 .. MaxRequest, ReserveInPlace(k, n)
    PROVE  IInv'
<1> DEFINE c == chunk_index[k]
           list == slab_segments[c]
           p == PosOf(list, k)
           new == Grow(list, p, n)
<1>1. CoreInv /\ LimitInv /\ TaskInv
  BY Zenon DEF IInv
<1>2. /\ busy = "idle" /\ c > 0 /\ CanGrow(list, p, n)
      /\ slab_segments' = [slab_segments EXCEPT ![c] = new]
      /\ UNCHANGED <<unsized_segs, chunk_index, pins, creating, buffer_epoch>>
      /\ UNCHANGED poolVars /\ UNCHANGED taskVars
  BY Zenon DEF ReserveInPlace, Reserves, GrowsInPlace
<1>3. /\ c \in 1 .. Len(slab_segments) /\ GoodList(list) /\ NoHole(list)
      /\ p \in 1 .. Len(list) /\ list[p].buffer = k
  BY Zenon, <1>1, <1>2, SlabOfKey
<1>4. k # NoKey /\ n \in Nat
  BY SMTT(30), KeyIsNoNull
<1> HIDE DEF p, new
<1>5. /\ GoodList(new) /\ NoHole(new) /\ SlabSize(new) = SlabSize(list)
      /\ \A q \in Keys : NoKey # q => (Has(new, q) <=> Has(list, q))
  BY Zenon, <1>2, <1>3, <1>4, GrowIsGood DEF new
<1>6. pins' \in [Keys -> Nat] /\ buffer_epoch' \in Nat
  BY Zenon, <1>1, <1>2 DEF CoreInv
<1>7. CoreInv'
  <2> HIDE DEF c
  <2> QED BY Zenon, <1>1, <1>2, <1>3, <1>5, <1>6, ReplacedKeepsCore
<1>8. LimitInv' /\ TaskInv'
  BY Zenon, <1>1, <1>2, SameLimits, SameTask
<1>9. ReqInv'
  BY Zenon, <1>2 DEF ReqInv, taskVars
<1> QED BY Zenon, <1>7, <1>8, <1>9 DEF IInv

LEMMA FailKeepsCore ==
    ASSUME CoreInv, NEW k \in Keys, Fail(k)
    PROVE  CoreInv'
<1>1. creating' \subseteq Keys /\ buffer_epoch' \in Nat
  BY Zenon DEF CoreInv, Fail
<1>2. CASE k \in creating
  BY Zenon, <1>1, <1>2, DeleteKeepsCore DEF Fail
<1>3. CASE k \notin creating
  <2>1. UNCHANGED <<slab_segments, unsized_segs, chunk_index, pins>>
    BY Zenon, <1>3 DEF Fail
  <2> QED BY Zenon, <1>1, <2>1 DEF CoreInv, GoodPool, NoHoles, Placed, IndexRange, Unsized
<1> QED BY Zenon, <1>2, <1>3

LEMMA ReserveTooBigInv ==
    ASSUME IInv, NEW k \in Keys, NEW n \in 1 .. MaxRequest, ReserveTooBig(k, n)
    PROVE  IInv'
<1>1. CoreInv /\ LimitInv /\ TaskInv
  BY Zenon DEF IInv
<1>2. busy = "idle" /\ Fail(k) /\ UNCHANGED poolVars /\ UNCHANGED taskVars
  BY Zenon DEF ReserveTooBig, Reserves
<1>3. CoreInv'
  BY Zenon, <1>1, <1>2, FailKeepsCore
<1>4. LimitInv' /\ TaskInv'
  BY Zenon, <1>1, <1>2, SameLimits, SameTask
<1>5. ReqInv'
  BY Zenon, <1>2 DEF ReqInv, taskVars
<1> QED BY Zenon, <1>3, <1>4, <1>5 DEF IInv

LEMMA ReserveInFreeInv ==
    ASSUME IInv, NEW k \in Keys, NEW n \in 1 .. MaxRequest, ReserveInFree(k, n)
    PROVE  IInv'
<1> DEFINE s == FirstSlab(n)
           list == slab_segments[s]
           i == FirstFit(list, n)
           new == TakeFree(list, i, n)
           slabs == [slab_segments EXCEPT ![s] = new]
<1>1. CoreInv /\ LimitInv /\ TaskInv
  BY Zenon DEF IInv
<1>2. /\ busy = "idle" /\ FitsSomewhere(n) /\ MoveTo(k, slabs, s, {})
      /\ UNCHANGED poolVars /\ UNCHANGED taskVars
  BY Zenon DEF ReserveInFree, Reserves
<1>3. s \in 1 .. Len(slab_segments) /\ Fits(list, n) # {}
  BY Zenon, <1>2, FirstSlabIs
<1>4. i \in 1 .. Len(list) /\ IsFree(list[i]) /\ list[i].num >= n
  BY Zenon, <1>3, FirstFitIs
<1>5. /\ GoodPool(slab_segments) /\ NoHoles(slab_segments) /\ buffer_epoch \in Nat
      /\ Placed(slab_segments, chunk_index)
  BY Zenon, <1>1 DEF CoreInv
<1>6. /\ GoodList(list) /\ NoHole(list) /\ SlabSize(list) <= MaxSlabPages
      /\ IsPool(slab_segments)
  BY Zenon, <1>3, <1>5 DEF GoodPool, GoodSlab, NoHoles
<1> HIDE DEF s, i, new, slabs
<1>7. /\ GoodList(new) /\ OneHole(new) /\ SlabSize(new) = SlabSize(list)
      /\ \A q \in Keys : Has(new, q) <=> Has(list, q)
  <2>1. n \in Nat /\ buffer_epoch \in Nat
    BY <1>5
  <2>2. GoodList(list) /\ NoHole(list)
    BY Zenon, <1>6
  <2> HIDE DEF list
  <2> QED BY Zenon, <1>4, <2>1, <2>2, TakeFreeIsGood DEF new
<1>8. GoodSlab(new) /\ IsList(new)
  BY Zenon, <1>6, <1>7 DEF GoodSlab, GoodList
<1>9. Updated(slabs, slab_segments, s, new)
  BY Zenon, <1>3, <1>6, <1>8, UpdateSlab DEF slabs
<1>10. GoodPool(slabs) /\ Len(slabs) = Len(slab_segments)
  BY Zenon, <1>3, <1>5, <1>8, <1>9, UpdatedIsGood
<1>11. slabs[s] = new /\ \A r \in 1 .. Len(slab_segments) : r # s => slabs[r] = slab_segments[r]
  BY Zenon, <1>9 DEF Updated
<1>12. HoleIn(slabs, s)
  BY Zenon, <1>3, <1>5, <1>7, <1>10, <1>11 DEF HoleIn, NoHoles
<1>13. \A r \in 1 .. Len(slabs) : \A q \in Keys :
           Has(slabs[r], q) <=> chunk_index[q] = r /\ q \notin {}
  <2> SUFFICES ASSUME NEW r \in 1 .. Len(slab_segments), NEW q \in Keys
               PROVE  Has(slabs[r], q) <=> chunk_index[q] = r
    BY Zenon, <1>10
  <2>1. Has(slab_segments[r], q) <=> chunk_index[q] = r
    BY Zenon, <1>5 DEF Placed
  <2>2. CASE r = s
    BY Zenon, <2>1, <2>2, <1>7, <1>11
  <2>3. CASE r # s
    BY Zenon, <2>1, <2>3, <1>11
  <2> QED BY Zenon, <2>2, <2>3
<1>14. CoreInv'
  BY <1>1, <1>2, <1>10, <1>12, <1>13, MoveToKeepsCore
<1>15. LimitInv' /\ TaskInv'
  BY Zenon, <1>1, <1>2, SameLimits, SameTask
<1>16. ReqInv'
  BY Zenon, <1>2 DEF ReqInv, taskVars
<1> QED BY Zenon, <1>14, <1>15, <1>16 DEF IInv

LEMMA ReserveSearchesInv ==
    ASSUME IInv, NEW k \in Keys, NEW n \in 1 .. MaxRequest, ReserveSearches(k, n)
    PROVE  IInv'
<1>1. CoreInv /\ LimitInv /\ TaskInv
  BY Zenon DEF IInv
<1>2. /\ Indexed(k) /\ pins[k] > 0 /\ busy' = "reserve"
      /\ req' = [key |-> k, pages |-> n]
      /\ UNCHANGED coreVars /\ UNCHANGED poolVars /\ UNCHANGED <<sweep, walk>>
  BY Zenon DEF ReserveSearches, Reserves, coreVars
<1>3. CoreInv' /\ LimitInv'
  BY Zenon, <1>1, <1>2, SameCore, SameLimits
<1>4. TaskInv'
  BY <1>1, <1>2 DEF TaskInv
<1>5. ReqInv'
  BY Zenon, <1>2 DEF ReqInv, Indexed, coreVars
<1> QED BY Zenon, <1>3, <1>4, <1>5 DEF IInv

-----------------------------------------------------------------------------
LEMMA AppendSlab ==
    ASSUME NEW slabs, IsPool(slabs), NEW list, IsList(list)
    PROVE  /\ IsPool(Append(slabs, list))
           /\ Len(Append(slabs, list)) = Len(slabs) + 1
           /\ Append(slabs, list)[Len(slabs) + 1] = list
           /\ \A r \in 1 .. Len(slabs) : Append(slabs, list)[r] = slabs[r]
BY DEF IsPool, IsList

\* The slab size asked for fits into the pool and under the slab limit.
LEMMA SlabPagesFit ==
    ASSUME LimitInv
    PROVE  /\ SlabPages \in Nat /\ SlabPages <= MaxSlabPages
           /\ MayAddSlabs => num_pages_allocated + SlabPages <= MaxPoolPages
<1>1. /\ num_pages_allocated \in Nat /\ num_pages_allocated <= MaxPoolPages
      /\ current_max_slab_page_size \in Nat
      /\ current_max_slab_page_size <= MaxSlabPages
  BY Zenon DEF LimitInv
<1>2. MaxPoolPages \in Nat /\ MaxSlabPages \in Nat
  BY Zenon, PoolAssumption
<1>3. CASE MayAddSlabs /\ PagesLeft < current_max_slab_page_size
  <2>1. SlabPages = MaxPoolPages - num_pages_allocated
    BY Zenon, <1>3 DEF SlabPages, PagesLeft
  <2>2. SlabPages < current_max_slab_page_size
    BY Zenon, <1>3, <2>1 DEF PagesLeft
  <2> QED BY <2>1, <2>2, <1>1, <1>2
<1>4. CASE ~(MayAddSlabs /\ PagesLeft < current_max_slab_page_size)
  <2>1. SlabPages = current_max_slab_page_size
    BY Zenon, <1>4 DEF SlabPages
  <2>2. MayAddSlabs => MaxPoolPages - num_pages_allocated >= current_max_slab_page_size
    BY <1>1, <1>2, <1>4 DEF PagesLeft
  <2> QED BY <2>1, <2>2, <1>1, <1>2
<1> QED BY Zenon, <1>3, <1>4

LEMMA SearchDoneTask ==
    ASSUME TaskInv, SearchDone
    PROVE  TaskInv' /\ ReqInv'
<1>1. busy' = "idle" /\ req' = NoReq /\ UNCHANGED <<sweep, walk>>
  BY Zenon DEF SearchDone
<1>2. TaskInv'
  BY Zenon, <1>1 DEF TaskInv, NoReq
<1>3. ReqInv'
  BY Zenon, <1>1 DEF ReqInv
<1> QED BY Zenon, <1>2, <1>3

LEMMA AddSlabInv ==
    ASSUME IInv, AddSlab
    PROVE  IInv'
<1> DEFINE first == <<FreeSeg(0, SlabPages)>>
           new == TakeFree(first, 1, req.pages)
           slabs == Append(slab_segments, new)
           s == Len(slab_segments) + 1
           k == req.key
<1>1. CoreInv /\ LimitInv /\ TaskInv
  BY Zenon DEF IInv
<1>2. /\ MoveTo(k, slabs, s, {})
      /\ num_pages_allocated' = num_pages_allocated + SlabPages
      /\ current_max_slab_page_size' = SlabPages
      /\ SearchDone /\ allocations_capped' = allocations_capped
      /\ MayAddSlabs /\ req.pages <= SlabPages
  BY Zenon DEF AddSlab, TriesSlab
<1>3. k \in Keys /\ req.pages \in Nat
  <2>1. busy = "reserve"
    BY Zenon DEF AddSlab, TriesSlab
  <2>2. k \in Keys
    BY Zenon, <2>1 DEF IInv, ReqInv
  <2> QED BY Zenon, <2>2, <1>1 DEF TaskInv
<1>4. /\ SlabPages \in Nat /\ SlabPages <= MaxSlabPages
      /\ num_pages_allocated + SlabPages <= MaxPoolPages
  BY Zenon, <1>1, <1>2, SlabPagesFit
<1>5. /\ GoodList(first) /\ NoHole(first) /\ SlabSize(first) = SlabPages
      /\ \A q \in Keys : NoKey # q => ~Has(first, q)
  BY Zenon, <1>4, NewSlabIsGood
<1>6. 1 \in 1 .. Len(first) /\ IsFree(first[1]) /\ first[1].num = SlabPages
  BY DEF FreeSeg, IsFree
<1>7. /\ GoodPool(slab_segments) /\ NoHoles(slab_segments) /\ buffer_epoch \in Nat
      /\ Placed(slab_segments, chunk_index) /\ IndexRange(slab_segments, chunk_index)
  BY Zenon, <1>1 DEF CoreInv
<1> HIDE DEF first, new, slabs, k
<1>8. /\ GoodList(new) /\ OneHole(new) /\ SlabSize(new) = SlabPages
      /\ \A q \in Keys : Has(new, q) <=> Has(first, q)
  BY <1>2, <1>3, <1>4, <1>5, <1>6, <1>7, TakeFreeIsGood DEF new
<1>9. GoodSlab(new) /\ IsList(new) /\ IsPool(slab_segments)
  BY Zenon, <1>4, <1>7, <1>8 DEF GoodSlab, GoodList, GoodPool
<1>10. /\ IsPool(slabs) /\ Len(slabs) = Len(slab_segments) + 1 /\ slabs[s] = new
       /\ \A r \in 1 .. Len(slab_segments) : slabs[r] = slab_segments[r]
  BY <1>9, AppendSlab DEF slabs
<1>11. \A r \in 1 .. Len(slabs) : r = s \/ r \in 1 .. Len(slab_segments)
  BY <1>10
<1>12. GoodPool(slabs)
  BY Zenon, <1>7, <1>9, <1>10, <1>11 DEF GoodPool
<1>13. s \in 1 .. Len(slabs)
  BY <1>10
<1> HIDE DEF s
<1>14. HoleIn(slabs, s)
  BY Zenon, <1>7, <1>8, <1>10, <1>11, <1>13 DEF HoleIn, NoHoles
<1>15. \A r \in 1 .. Len(slabs) : \A q \in Keys :
           Has(slabs[r], q) <=> chunk_index[q] = r /\ q \notin {}
  <2> SUFFICES ASSUME NEW r \in 1 .. Len(slabs), NEW q \in Keys
               PROVE  Has(slabs[r], q) <=> chunk_index[q] = r
    BY Zenon
  <2>1. CASE r = s
    <3>1. ~Has(new, q)
      BY Zenon, <1>5, <1>8, KeyIsNoNull
    <3>2. chunk_index[q] \in Int /\ chunk_index[q] <= Len(slab_segments)
      BY Zenon, <1>7 DEF IndexRange
    <3>3. chunk_index[q] # r
      BY <2>1, <3>2 DEF s
    <3> QED BY Zenon, <2>1, <3>1, <3>3, <1>10
  <2>2. CASE r \in 1 .. Len(slab_segments)
    BY Zenon, <2>2, <1>7, <1>10 DEF Placed
  <2> QED BY Zenon, <2>1, <2>2, <1>11
<1>16. Len(slabs) >= Len(slab_segments)
  BY <1>10
<1>17. CoreInv'
  BY <1>1, <1>2, <1>3, <1>12, <1>14, <1>15, <1>16, MoveToKeepsCore
<1>18. LimitInv'
  BY <1>1, <1>2, <1>4 DEF LimitInv
<1>19. TaskInv' /\ ReqInv'
  BY Zenon, <1>1, <1>2, SearchDoneTask
<1> QED BY Zenon, <1>17, <1>18, <1>19 DEF IInv

LEMMA AddSlabFailsInv ==
    ASSUME IInv, AddSlabFails
    PROVE  IInv'
<1> DEFINE half == SlabPages \div 2
           exact == req.pages > half /\ SlabPages # req.pages
<1>1. CoreInv /\ LimitInv /\ TaskInv /\ ReqInv
  BY Zenon DEF IInv
<1>2. /\ current_max_slab_page_size' = IF exact THEN req.pages ELSE half
      /\ allocations_capped' = (~exact /\ half < MinSlabPages)
      /\ UNCHANGED coreVars /\ UNCHANGED taskVars
      /\ num_pages_allocated' = num_pages_allocated /\ req.pages <= SlabPages
  BY Zenon DEF AddSlabFails, TriesSlab, coreVars
<1>3. SlabPages \in Nat /\ SlabPages <= MaxSlabPages
  BY Zenon, <1>1, SlabPagesFit
<1>4. req.pages \in Nat
  BY Zenon, <1>1 DEF TaskInv
<1>5. MaxSlabPages \in Nat
  BY Zenon, PoolAssumption
<1>6. half \in Nat /\ half <= SlabPages
  BY <1>3
<1>7. allocations_capped' \in BOOLEAN
  BY <1>2, Zenon
<1>8. current_max_slab_page_size' \in Nat /\ current_max_slab_page_size' <= MaxSlabPages
  <2> HIDE DEF half, exact
  <2> QED BY <1>2, <1>3, <1>4, <1>5, <1>6
<1>9. LimitInv'
  BY Zenon, <1>1, <1>2, <1>7, <1>8 DEF LimitInv
<1>10. CoreInv' /\ TaskInv'
  BY Zenon, <1>1, <1>2, SameCore, SameTask
<1>11. ReqInv'
  BY Zenon, <1>1, <1>2 DEF ReqInv, Indexed, coreVars, taskVars
<1> QED BY Zenon, <1>9, <1>10, <1>11 DEF IInv

-----------------------------------------------------------------------------
LEMMA WindowIs ==
    ASSUME NEW n, NEW w \in Windows(n)
    PROVE  /\ w.slab \in 1 .. Len(slab_segments)
           /\ w.lo \in 1 .. Len(slab_segments[w.slab])
           /\ w.hi \in 1 .. Len(slab_segments[w.slab])
           /\ w.lo <= w.hi
           /\ IsWindow(slab_segments[w.slab], w.lo, w.hi, n)
BY DEF Windows

\* The buffers of a window are in its slab, and none of them is pinned.
LEMMA VictimsAre ==
    ASSUME CoreInv, NEW n, NEW w \in Windows(n), NEW q \in Victims(w)
    PROVE  q \in Keys /\ chunk_index[q] = w.slab /\ ~(pins[q] > 0)
<1> DEFINE list == slab_segments[w.slab]
<1>1. /\ w.slab \in 1 .. Len(slab_segments) /\ w.lo \in 1 .. Len(list)
      /\ w.hi \in 1 .. Len(list) /\ IsWindow(list, w.lo, w.hi, n)
  BY Zenon, WindowIs
<1>2. PICK m \in w.lo .. w.hi : ~IsFree(list[m]) /\ q = list[m].buffer
  BY Zenon DEF Victims
<1>3. m \in 1 .. Len(list)
  BY <1>1
<1>4. GoodList(list) /\ NoHole(list) /\ Placed(slab_segments, chunk_index)
  BY Zenon, <1>1 DEF CoreInv, GoodPool, GoodSlab, NoHoles
<1> HIDE DEF list
<1>5. list[m] \in Seg /\ list[m].buffer \in Keys \cup {NoKey}
  BY Zenon, <1>3, <1>4, Element DEF GoodList
<1>6. q # NoKey
  BY Zenon, <1>2, <1>3, <1>4 DEF NoHole, IsHole
<1>7. q \in Keys /\ Has(list, q)
  BY Zenon, <1>2, <1>3, <1>5, <1>6 DEF Has
<1>8. chunk_index[q] = w.slab
  BY Zenon, <1>1, <1>4, <1>7 DEF Placed, list
<1>9. list[m].status = "USED"
  BY Zenon, <1>2, <1>5 DEF Seg, IsFree
<1>10. ~IsPinned(list[m])
  BY Zenon, <1>1 DEF IsWindow
<1>11. ~(pins[q] > 0)
  BY Zenon, <1>2, <1>9, <1>10 DEF IsPinned
<1> QED BY Zenon, <1>7, <1>8, <1>11

LEMMA EvictInv ==
    ASSUME IInv, Evict
    PROVE  IInv'
<1> DEFINE n == req.pages
           k == req.key
<1>1. CoreInv /\ LimitInv /\ TaskInv /\ ReqInv
  BY Zenon DEF IInv
<1>2. PICK w \in Windows(n) :
         MoveTo(k, [slab_segments EXCEPT ![w.slab] =
                      EvictWindow(slab_segments[w.slab], w.lo, w.hi, n)],
                w.slab, Victims(w))
  BY Zenon DEF Evict
<1>3. /\ busy = "reserve" /\ current_max_slab_page_size' = SlabPages /\ SearchDone
      /\ UNCHANGED <<num_pages_allocated, allocations_capped>>
  BY Zenon DEF Evict, GivesUpSlabs
<1>4. k \in Keys /\ pins[k] > 0 /\ n \in Nat
  BY Zenon, <1>1, <1>3 DEF ReqInv, TaskInv
<1> DEFINE s == w.slab
           list == slab_segments[s]
           new == EvictWindow(list, w.lo, w.hi, n)
           slabs == [slab_segments EXCEPT ![s] = new]
           gone == Victims(w)
<1>5. /\ s \in 1 .. Len(slab_segments) /\ w.lo \in 1 .. Len(list)
      /\ w.hi \in w.lo .. Len(list) /\ IsWindow(list, w.lo, w.hi, n)
  BY WindowIs
<1>6. /\ GoodPool(slab_segments) /\ NoHoles(slab_segments) /\ buffer_epoch \in Nat
      /\ Placed(slab_segments, chunk_index)
  BY Zenon, <1>1 DEF CoreInv
<1>7. /\ GoodList(list) /\ NoHole(list) /\ SlabSize(list) <= MaxSlabPages
      /\ IsPool(slab_segments)
  BY Zenon, <1>5, <1>6 DEF GoodPool, GoodSlab, NoHoles
<1>8. n <= End(list[w.hi]) - list[w.lo].start
  <2>1. End(list[w.hi]) - list[w.lo].start >= n
    BY Zenon, <1>5 DEF IsWindow
  <2>2. End(list[w.hi]) \in Nat /\ list[w.lo].start \in Nat
    BY SMTT(30), <1>5, <1>7, Element DEF GoodList
  <2> QED BY Zenon, <2>1, <2>2, <1>4
<1>9. gone = Removed(list, w.lo, w.hi)
  BY Zenon DEF Victims, Removed
<1>10. \A q \in gone : q \in Keys /\ chunk_index[q] = s /\ ~(pins[q] > 0)
  BY Zenon, <1>1, VictimsAre
<1>m. MoveTo(k, slabs, s, gone)
  BY Zenon, <1>2
<1> HIDE DEF n, k, s, list, new, slabs, gone
<1>11. /\ GoodList(new) /\ OneHole(new) /\ SlabSize(new) = SlabSize(list)
       /\ \A q \in Keys : Has(new, q) <=> Has(list, q) /\ q \notin gone
  BY Zenon, <1>4, <1>5, <1>6, <1>7, <1>8, <1>9, EvictIsGood DEF new
<1>12. GoodSlab(new) /\ IsList(new)
  BY Zenon, <1>7, <1>11 DEF GoodSlab, GoodList
<1>13. Updated(slabs, slab_segments, s, new)
  BY Zenon, <1>5, <1>7, <1>12, UpdateSlab DEF slabs
<1>14. GoodPool(slabs) /\ Len(slabs) = Len(slab_segments)
  BY Zenon, <1>5, <1>6, <1>12, <1>13, UpdatedIsGood
<1>15. slabs[s] = new /\ \A r \in 1 .. Len(slab_segments) : r # s => slabs[r] = slab_segments[r]
  BY Zenon, <1>13 DEF Updated
<1>16. HoleIn(slabs, s)
  BY Zenon, <1>5, <1>6, <1>11, <1>14, <1>15 DEF HoleIn, NoHoles
<1>17. \A r \in 1 .. Len(slabs) : \A q \in Keys :
           Has(slabs[r], q) <=> chunk_index[q] = r /\ q \notin gone
  <2> SUFFICES ASSUME NEW r \in 1 .. Len(slab_segments), NEW q \in Keys
               PROVE  Has(slabs[r], q) <=> chunk_index[q] = r /\ q \notin gone
    BY Zenon, <1>14
  <2>1. Has(slab_segments[r], q) <=> chunk_index[q] = r
    BY Zenon, <1>6 DEF Placed
  <2>2. CASE r = s
    BY Zenon, <2>1, <2>2, <1>11, <1>15 DEF list
  <2>3. CASE r # s
    BY Zenon, <2>1, <2>3, <1>10, <1>15
  <2> QED BY Zenon, <2>2, <2>3
<1>18. k \notin gone /\ \A q \in gone : q \in Keys /\ chunk_index[q] > 0
  BY <1>4, <1>5, <1>10
<1>19. Len(slabs) >= Len(slab_segments)
  BY SMTT(30), <1>14
<1>20. CoreInv'
  BY Zenon, <1>1, <1>4, <1>14, <1>16, <1>17, <1>18, <1>19, <1>m, MoveToKeepsCore
<1>21. LimitInv'
  <2>1. SlabPages \in Nat /\ SlabPages <= MaxSlabPages
    BY Zenon, <1>1, SlabPagesFit
  <2> QED BY Zenon, <2>1, <1>1, <1>3 DEF LimitInv
<1>22. TaskInv' /\ ReqInv'
  BY Zenon, <1>1, <1>3, SearchDoneTask
<1> QED BY Zenon, <1>20, <1>21, <1>22 DEF IInv

LEMMA OutOfMemoryInv ==
    ASSUME IInv, OutOfMemory
    PROVE  IInv'
<1>1. CoreInv /\ LimitInv /\ TaskInv /\ ReqInv
  BY Zenon DEF IInv
<1>2. /\ busy = "reserve" /\ Fail(req.key) /\ current_max_slab_page_size' = SlabPages
      /\ SearchDone /\ UNCHANGED <<num_pages_allocated, allocations_capped>>
  BY Zenon DEF OutOfMemory, GivesUpSlabs
<1>3. req.key \in Keys
  BY Zenon, <1>1, <1>2 DEF ReqInv
<1>4. CoreInv'
  BY Zenon, <1>1, <1>2, <1>3, FailKeepsCore
<1>5. LimitInv'
  <2>1. SlabPages \in Nat /\ SlabPages <= MaxSlabPages
    BY Zenon, <1>1, SlabPagesFit
  <2> QED BY Zenon, <2>1, <1>1, <1>2 DEF LimitInv
<1>6. TaskInv' /\ ReqInv'
  BY Zenon, <1>1, <1>2, SearchDoneTask
<1> QED BY Zenon, <1>4, <1>5, <1>6 DEF IInv

-----------------------------------------------------------------------------
LEMMA PrefixBeginInv ==
    ASSUME IInv, NEW prefix \in SUBSET ChunkKeys, PrefixBegin(prefix)
    PROVE  IInv'
<1>1. CoreInv /\ LimitInv /\ TaskInv
  BY Zenon DEF IInv
<1>2. /\ busy' = "prefix" /\ sweep' = {k \in prefix : Indexed(k)}
      /\ UNCHANGED coreVars /\ UNCHANGED poolVars /\ UNCHANGED <<req, walk>>
  BY Zenon DEF PrefixBegin, coreVars
<1>3. sweep' \subseteq Keys
  BY Zenon, <1>2 DEF Keys
<1>4. TaskInv'
  BY Zenon, <1>1, <1>2, <1>3 DEF TaskInv
<1>5. CoreInv' /\ LimitInv'
  BY Zenon, <1>1, <1>2, SameCore, SameLimits
<1>6. ReqInv'
  BY Zenon, <1>2 DEF ReqInv
<1> QED BY Zenon, <1>4, <1>5, <1>6 DEF IInv

LEMMA PrefixStepInv ==
    ASSUME IInv, NEW k \in Keys, PrefixStep(k)
    PROVE  IInv'
<1>1. CoreInv /\ LimitInv /\ TaskInv
  BY Zenon DEF IInv
<1>2. /\ busy = "prefix" /\ sweep' = sweep \ {k} /\ UNCHANGED <<busy, req, walk>>
      /\ UNCHANGED <<creating, buffer_epoch>> /\ UNCHANGED poolVars
      /\ \/ UNCHANGED <<slab_segments, unsized_segs, chunk_index, pins>>
         \/ Delete(k)
  BY Zenon DEF PrefixStep
<1>3. TaskInv'
  BY Zenon, <1>1, <1>2 DEF TaskInv
<1>4. CoreInv'
  <2>1. CASE UNCHANGED <<slab_segments, unsized_segs, chunk_index, pins>>
    BY Zenon, <2>1, <1>1, <1>2, SameCore DEF coreVars
  <2>2. CASE Delete(k)
    <3>1. creating' \subseteq Keys /\ buffer_epoch' \in Nat
      BY Zenon, <1>1, <1>2 DEF CoreInv
    <3> QED BY Zenon, <2>2, <3>1, <1>1, DeleteKeepsCore
  <2> QED BY Zenon, <2>1, <2>2, <1>2
<1>5. LimitInv' /\ ReqInv'
  BY Zenon, <1>1, <1>2, SameLimits DEF ReqInv
<1> QED BY Zenon, <1>3, <1>4, <1>5 DEF IInv

LEMMA PrefixEndInv ==
    ASSUME IInv, PrefixEnd
    PROVE  IInv'
<1>1. CoreInv /\ LimitInv /\ TaskInv
  BY Zenon DEF IInv
<1>2. /\ busy' = "idle" /\ UNCHANGED <<req, sweep, walk>>
      /\ UNCHANGED coreVars /\ UNCHANGED poolVars
  BY Zenon DEF PrefixEnd, coreVars
<1>3. TaskInv' /\ ReqInv'
  BY Zenon, <1>1, <1>2 DEF TaskInv, ReqInv
<1>4. CoreInv' /\ LimitInv'
  BY Zenon, <1>1, <1>2, SameCore, SameLimits
<1> QED BY Zenon, <1>3, <1>4 DEF IInv

LEMMA ClearBeginInv ==
    ASSUME IInv, ClearBegin
    PROVE  IInv'
<1>1. CoreInv /\ LimitInv /\ TaskInv
  BY Zenon DEF IInv
<1>2. /\ busy' = "clear" /\ UNCHANGED <<req, sweep, walk>>
      /\ UNCHANGED coreVars /\ UNCHANGED poolVars
  BY Zenon DEF ClearBegin, coreVars
<1>3. TaskInv' /\ ReqInv'
  BY Zenon, <1>1, <1>2 DEF TaskInv, ReqInv
<1>4. CoreInv' /\ LimitInv'
  BY Zenon, <1>1, <1>2, SameCore, SameLimits
<1> QED BY Zenon, <1>3, <1>4 DEF IInv

LEMMA WalkMoves ==
    ASSUME NEW a \in Nat \ {0}, NEW b \in Nat \ {0}, NEW p \in BOOLEAN
    PROVE  [slab |-> a, seg |-> b, pinned |-> p] \in
                [slab : Nat \ {0}, seg : Nat \ {0}, pinned : BOOLEAN]
BY Zenon, Zenon

LEMMA ClearVisitInv ==
    ASSUME IInv, ClearVisit
    PROVE  IInv'
<1> DEFINE list == slab_segments[walk.slab]
           seg == list[walk.seg]
           W == [slab : Nat \ {0}, seg : Nat \ {0}, pinned : BOOLEAN]
<1>1. CoreInv /\ LimitInv /\ TaskInv
  BY Zenon DEF IInv
<1>2. /\ busy = "clear" /\ walk.slab <= Len(slab_segments) /\ walk.seg <= Len(list)
      /\ UNCHANGED <<creating, buffer_epoch>> /\ UNCHANGED poolVars
      /\ UNCHANGED <<busy, req, sweep>>
  BY Zenon DEF ClearVisit
<1>3. walk \in W
  BY Zenon, <1>1 DEF TaskInv
<1>4. walk.slab \in Nat \ {0} /\ walk.seg \in Nat \ {0}
  BY Zenon, <1>3
<1>5. walk.pinned \in BOOLEAN
  BY <1>3, Zenon
<1>6. GoodPool(slab_segments) /\ NoHoles(slab_segments) /\ IsPool(slab_segments)
  BY Zenon, <1>1 DEF CoreInv, GoodPool
<1>7. Len(slab_segments) \in Nat
  BY <1>6 DEF IsPool
<1>8. walk.slab \in 1 .. Len(slab_segments)
  BY <1>2, <1>4, <1>7
<1>9. GoodList(list) /\ NoHole(list) /\ IsList(list)
  BY Zenon, <1>6, <1>8 DEF GoodPool, GoodSlab, NoHoles, GoodList
<1>10. Len(list) \in Nat
  BY <1>9 DEF IsList
<1>11. walk.seg \in 1 .. Len(list)
  BY <1>2, <1>4, <1>10
<1>12. CASE IsFree(seg) \/ IsPinned(seg)
  <2>1. /\ walk' = [walk EXCEPT !.seg = @ + 1, !.pinned = @ \/ IsPinned(seg)]
        /\ UNCHANGED <<slab_segments, unsized_segs, chunk_index, pins>>
    BY Zenon, <1>12 DEF ClearVisit
  <2>2. CoreInv'
    BY Zenon, <2>1, <1>1, <1>2, SameCore DEF coreVars
  <2>3. (walk.pinned \/ IsPinned(seg)) \in BOOLEAN
    BY Zenon, Zenon
  <2>4. walk.seg + 1 \in Nat \ {0}
    BY <1>4
  <2>5. walk' = [slab |-> walk.slab, seg |-> walk.seg + 1,
                 pinned |-> walk.pinned \/ IsPinned(seg)]
    BY Zenon, <2>1, <1>3
  <2>6. walk' \in W
    BY <2>3, <2>4, <2>5, <1>4, WalkMoves, Zenon
  <2>7. TaskInv'
    BY Zenon, <2>6, <1>1, <1>2 DEF TaskInv
  <2>8. LimitInv' /\ ReqInv'
    BY Zenon, <1>1, <1>2, SameLimits DEF ReqInv
  <2> QED BY Zenon, <2>2, <2>7, <2>8 DEF IInv
<1>13. CASE ~(IsFree(seg) \/ IsPinned(seg))
  <2>1. Delete(seg.buffer) /\ walk' = [walk EXCEPT !.seg = MergeLo(list, walk.seg) + 1]
    BY Zenon, <1>13 DEF ClearVisit
  <2>2. seg \in Seg /\ seg.buffer \in Keys \cup {NoKey}
    BY Zenon, <1>9, <1>11, Element
  <2>3. seg.buffer # NoKey
    <3>1. seg.status = "USED"
      BY Zenon, <1>13, <2>2 DEF IsFree, Seg
    <3> QED BY Zenon, <3>1, <1>9, <1>11, <1>13 DEF NoHole, IsHole, IsFree
  <2>4. seg.buffer \in Keys
    BY Zenon, <2>2, <2>3
  <2>5. creating' \subseteq Keys /\ buffer_epoch' \in Nat
    BY Zenon, <1>1, <1>2 DEF CoreInv
  <2>6. CoreInv'
    BY Zenon, <2>1, <2>4, <2>5, <1>1, DeleteKeepsCore
  <2>7. MergeLo(list, walk.seg) + 1 \in Nat \ {0}
    <3> HIDE DEF list
    <3> QED BY <1>4 DEF MergeLo
  <2>8. walk' = [slab |-> walk.slab, seg |-> MergeLo(list, walk.seg) + 1,
                 pinned |-> walk.pinned]
    BY Zenon, <2>1, <1>3
  <2>9. walk' \in W
    BY <2>7, <2>8, <1>4, <1>5, WalkMoves, Zenon
  <2>10. TaskInv'
    BY Zenon, <2>9, <1>1, <1>2 DEF TaskInv
  <2>11. LimitInv' /\ ReqInv'
    BY Zenon, <1>1, <1>2, SameLimits DEF ReqInv
  <2> QED BY Zenon, <2>6, <2>10, <2>11 DEF IInv
<1> QED BY Zenon, <1>12, <1>13


LEMMA ClearNextSlabInv ==
    ASSUME IInv, ClearNextSlab
    PROVE  IInv'
<1> DEFINE W == [slab : Nat \ {0}, seg : Nat \ {0}, pinned : BOOLEAN]
<1>1. CoreInv /\ LimitInv /\ TaskInv
  BY Zenon DEF IInv
<1>2. /\ busy = "clear" /\ walk' = [walk EXCEPT !.slab = walk.slab + 1, !.seg = 1]
      /\ UNCHANGED coreVars /\ UNCHANGED poolVars /\ UNCHANGED <<busy, req, sweep>>
  BY Zenon DEF ClearNextSlab, coreVars
<1>3. walk \in W
  BY Zenon, <1>1 DEF TaskInv
<1>4. walk.slab + 1 \in Nat \ {0} /\ 1 \in Nat \ {0}
  BY <1>3
<1>5. walk.pinned \in BOOLEAN
  BY <1>3, Zenon
<1>6. walk' = [slab |-> walk.slab + 1, seg |-> 1, pinned |-> walk.pinned]
  BY Zenon, <1>2, <1>3
<1>7. walk' \in W
  BY <1>4, <1>5, <1>6, WalkMoves, Zenon
<1>8. TaskInv' /\ ReqInv'
  BY Zenon, <1>1, <1>2, <1>7 DEF TaskInv, ReqInv
<1>9. CoreInv' /\ LimitInv'
  BY Zenon, <1>1, <1>2, SameCore, SameLimits
<1> QED BY Zenon, <1>8, <1>9 DEF IInv

LEMMA ClearEndInv ==
    ASSUME IInv, ClearEnd
    PROVE  IInv'
<1>1. CoreInv /\ LimitInv /\ TaskInv
  BY Zenon DEF IInv
<1>2. busy' = "idle" /\ walk' = NoWalk /\ UNCHANGED <<creating, req, sweep>>
  BY Zenon DEF ClearEnd
<1>3. TaskInv' /\ ReqInv'
  <2>1. NoWalk \in [slab : Nat \ {0}, seg : Nat \ {0}, pinned : BOOLEAN]
    BY WalkMoves, FALSE \in BOOLEAN, 1 \in Nat \ {0} DEF NoWalk
  <2> QED BY Zenon, <2>1, <1>1, <1>2 DEF TaskInv, ReqInv
<1>4. CASE walk.pinned
  <2>1. UNCHANGED coreVars /\ UNCHANGED poolVars
    BY Zenon, <1>2, <1>4 DEF ClearEnd, coreVars
  <2>2. CoreInv' /\ LimitInv'
    BY Zenon, <2>1, <1>1, SameCore, SameLimits
  <2> QED BY Zenon, <2>2, <1>3 DEF IInv
<1>5. CASE ~walk.pinned
  <2>1. /\ slab_segments' = <<>> /\ unsized_segs' = {} /\ buffer_epoch' = 0
        /\ chunk_index' = [k \in Keys |-> NotIndexed] /\ pins' = [k \in Keys |-> 0]
        /\ num_pages_allocated' = 0 /\ current_max_slab_page_size' = MaxSlabPages
        /\ allocations_capped' = FALSE
    BY Zenon, <1>5 DEF ClearEnd
  <2>2. slab_segments' \in Seq(Seq(Seg)) /\ Len(slab_segments') = 0
    BY <2>1
  <2>3. \A k \in Keys : chunk_index'[k] = NotIndexed
    BY Zenon, <2>1
  <2>4. GoodPool(slab_segments') /\ NoHoles(slab_segments')
        /\ Placed(slab_segments', chunk_index')
    BY <2>2 DEF GoodPool, IsPool, NoHoles, Placed
  <2>5. IndexRange(slab_segments', chunk_index')
    BY <2>2, <2>3 DEF IndexRange, NotIndexed
  <2>6. chunk_index' \in [Keys -> Int] /\ pins' \in [Keys -> Nat]
    BY <2>1 DEF NotIndexed
  <2>7. unsized_segs' = {k \in Keys : chunk_index'[k] = Unsized}
    BY <2>1, <2>3 DEF NotIndexed, Unsized
  <2>8. creating' \subseteq Keys
    BY Zenon, <1>1, <1>2 DEF CoreInv
  <2>9. CoreInv'
    BY Zenon, <2>1, <2>4, <2>5, <2>6, <2>7, <2>8 DEF CoreInv
  <2>10. LimitInv'
    <3>1. allocations_capped' \in BOOLEAN
      BY <2>1, Zenon
    <3>2. /\ num_pages_allocated' \in Nat /\ num_pages_allocated' <= MaxPoolPages
          /\ current_max_slab_page_size' \in Nat
          /\ current_max_slab_page_size' <= MaxSlabPages
      BY <2>1, PoolAssumption
    <3> QED BY Zenon, <3>1, <3>2 DEF LimitInv
  <2> QED BY Zenon, <2>9, <2>10, <1>3 DEF IInv
<1> QED BY Zenon, <1>4, <1>5

LEMMA NextInv ==
    ASSUME IInv, [Next]_vars
    PROVE  IInv'
<1>1. CASE UNCHANGED vars
  <2>1. UNCHANGED coreVars /\ UNCHANGED poolVars /\ UNCHANGED taskVars
    BY Zenon, <1>1 DEF vars, coreVars, poolVars, taskVars
  <2>2. CoreInv' /\ LimitInv' /\ TaskInv'
    BY Zenon, <2>1, SameCore, SameLimits, SameTask DEF IInv
  <2>3. ReqInv'
    BY Zenon, <2>1 DEF ReqInv, IInv, coreVars, taskVars, Indexed
  <2> QED BY Zenon, <2>2, <2>3 DEF IInv
<1>2. ASSUME NEW k \in Keys, NEW sized \in BOOLEAN, CreateBuffer(k, sized)
      PROVE  IInv'
  <2>1. InsertUnsized(k) /\ creating' \subseteq Keys
    BY Zenon, <1>2 DEF CreateBuffer, IInv, CoreInv
  <2> QED BY Zenon, <2>1, InsertInv
<1>3. ASSUME NEW k \in Keys, CreateZeroCopyBuffer(k)
      PROVE  IInv'
  <2>1. InsertUnsized(k) /\ creating' \subseteq Keys
    BY Zenon, <1>3 DEF CreateZeroCopyBuffer, IInv, CoreInv
  <2> QED BY Zenon, <2>1, InsertInv
<1>4. ASSUME NEW k \in Keys, PinBuffer(k) \/ UnpinBuffer(k) \/ Free(k) \/ PrefixStep(k)
      PROVE  IInv'
  BY Zenon, <1>4, PinInv, UnpinInv, FreeInv, PrefixStepInv
<1>5. ASSUME NEW k \in Keys, NEW n \in 1 .. MaxRequest,
             \/ ReserveInPlace(k, n) \/ ReserveTooBig(k, n)
             \/ ReserveInFree(k, n) \/ ReserveSearches(k, n)
      PROVE  IInv'
  BY Zenon, <1>5, ReserveInPlaceInv, ReserveTooBigInv, ReserveInFreeInv, ReserveSearchesInv
<1>6. CASE AddSlab \/ AddSlabFails \/ Evict \/ OutOfMemory
  BY Zenon, <1>6, AddSlabInv, AddSlabFailsInv, EvictInv, OutOfMemoryInv
<1>7. ASSUME NEW prefix \in SUBSET ChunkKeys, PrefixBegin(prefix)
      PROVE  IInv'
  BY Zenon, <1>7, PrefixBeginInv
<1>8. CASE PrefixEnd \/ ClearBegin \/ ClearVisit \/ ClearNextSlab \/ ClearEnd
  BY Zenon, <1>8, PrefixEndInv, ClearBeginInv, ClearVisitInv, ClearNextSlabInv, ClearEndInv
<1> QED BY Zenon, <1>1, <1>2, <1>3, <1>4, <1>5, <1>6, <1>7, <1>8 DEF Next

-----------------------------------------------------------------------------
\* The inductive invariant: every operation of BufferMgr on slabs, segments and
\* chunk_index_ leaves the lists tiled, merged, without a segment that has no
\* buffer, and in agreement with the index; the pool within its limits; and the
\* buffer that findFreeBuffer works for pinned.
THEOREM Inductive == Spec => []IInv
<1>1. Init => IInv
  BY Zenon, InitInv
<1>2. IInv /\ [Next]_vars => IInv'
  BY Zenon, NextInv
<1> QED BY <1>1, <1>2, PTL DEF Spec


\* Every variable of the allocator keeps its type, for any number of keys, any
\* slab sizes and any pool size.
THEOREM TypeCorrect == Spec => []TypeOK
<1>1. IInv => TypeOK
  <2> SUFFICES ASSUME IInv PROVE TypeOK
    BY Zenon
  <2>1. CoreInv /\ LimitInv /\ TaskInv
    BY Zenon DEF IInv
  <2>2. slab_segments \in Seq(Seq(Seg))
    BY Zenon, <2>1 DEF CoreInv, GoodPool, IsPool
  <2>3. unsized_segs \subseteq Keys
    BY Zenon, <2>1 DEF CoreInv
  <2> QED BY Zenon, <2>1, <2>2, <2>3 DEF TypeOK, CoreInv, LimitInv, TaskInv
<1> QED BY <1>1, Inductive, PTL

\* The page arithmetic of removeSegment, reserveBuffer, findFreeBufferInSlab and
\* evict loses no page and gives none out twice, whatever the sizes are.
THEOREM SlabsTiled == Spec => []SegmentsTileSlabs
<1>1. IInv => SegmentsTileSlabs
  BY Zenon DEF IInv, CoreInv, GoodPool, GoodSlab, GoodList, SegmentsTileSlabs
<1> QED BY <1>1, Inductive, PTL

\* findFreeBuffer never allocates beyond the pool, nor a slab beyond the limit.
THEOREM LimitsHold == Spec => []PoolWithinLimits
<1>1. IInv => PoolWithinLimits
  BY Zenon DEF IInv, CoreInv, LimitInv, GoodPool, GoodSlab, PoolWithinLimits
<1> QED BY <1>1, Inductive, PTL

\* removeSegment and evict leave no two free segments next to each other.
THEOREM FreeRunsStayMerged == Spec => []FreeRunsMerged
<1>1. IInv => FreeRunsMerged
  BY Zenon DEF IInv, CoreInv, GoodPool, GoodSlab, GoodList, Merged, FreeRunsMerged
<1> QED BY <1>1, Inductive, PTL

\* chunk_index_ finds for each key its one live segment, and every used segment
\* is found through it.
THEOREM IndexCorrect == Spec => []IndexMatchesSegments
<1>1. IInv => IndexMatchesSegments
  <2> SUFFICES ASSUME IInv PROVE IndexMatchesSegments
    BY Zenon
  <2>1. /\ GoodPool(slab_segments) /\ NoHoles(slab_segments)
        /\ Placed(slab_segments, chunk_index) /\ IndexRange(slab_segments, chunk_index)
        /\ unsized_segs = {k \in Keys : chunk_index[k] = Unsized}
    BY Zenon DEF IInv, CoreInv
  <2>2. ASSUME NEW s \in 1 .. Len(slab_segments), NEW i \in 1 .. Len(slab_segments[s])
        PROVE  LET seg == slab_segments[s][i]
               IN  IF IsFree(seg) THEN seg.buffer = NoKey
                   ELSE seg.buffer \in Keys /\ chunk_index[seg.buffer] = s
    <3> DEFINE list == slab_segments[s]
               seg == list[i]
    <3>1. GoodList(list) /\ NoHole(list)
      BY Zenon, <2>1 DEF GoodPool, GoodSlab, NoHoles
    <3>2. CASE IsFree(seg)
      BY Zenon, <3>1, <3>2 DEF GoodList, FreeHoldNothing
    <3>3. CASE ~IsFree(seg)
      <4>1. seg.buffer \in Keys \cup {NoKey}
        BY Zenon, <3>1, Element DEF GoodList
      <4>2. seg.buffer # NoKey
        BY Zenon, <3>1, <3>3 DEF NoHole, IsHole
      <4>3. seg.buffer \in Keys /\ Has(list, seg.buffer)
        BY Zenon, <4>1, <4>2 DEF Has
      <4>4. chunk_index[seg.buffer] = s
        BY Zenon, <4>3, <2>1 DEF Placed
      <4> QED BY Zenon, <4>3, <4>4, <3>3
    <3> QED BY Zenon, <3>2, <3>3
  <2>3. ASSUME NEW k \in Keys, chunk_index[k] > 0
        PROVE  /\ chunk_index[k] <= Len(slab_segments)
               /\ LET list == slab_segments[chunk_index[k]]
                  IN  \E i \in 1 .. Len(list) :
                         /\ list[i].buffer = k
                         /\ \A j \in 1 .. Len(list) : list[j].buffer = k => j = i
    <3> DEFINE c == chunk_index[k]
               list == slab_segments[c]
    <3>1. c <= Len(slab_segments) /\ c \in Int
      BY Zenon, <2>1 DEF IndexRange
    <3>2. c \in 1 .. Len(slab_segments)
      BY <3>1, <2>1, <2>3 DEF GoodPool, IsPool
    <3>3. GoodList(list) /\ Has(list, k)
      BY Zenon, <3>2, <2>1 DEF GoodPool, GoodSlab, Placed
    <3>4. k # NoKey
      BY Zenon, KeyIsNoNull
    <3>5. PICK i \in 1 .. Len(list) : list[i].buffer = k
      BY Zenon, <3>3 DEF Has
    <3>6. \A j \in 1 .. Len(list) : list[j].buffer = k => j = i
      BY Zenon, <3>3, <3>4, <3>5 DEF GoodList, Distinct
    <3> QED BY Zenon, <3>1, <3>5, <3>6
  <2> QED BY Zenon, <2>1, <2>2, <2>3 DEF IndexMatchesSegments
<1> QED BY <1>1, Inductive, PTL
=============================================================================

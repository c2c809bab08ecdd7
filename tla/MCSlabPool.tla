----------------------------- MODULE MCSlabPool -----------------------------
(* SlabPool for TLC: how many pages the slabs add up to, which the constants *)
(* of the configurations bound.                                              *)
EXTENDS SlabPool, SequencesExt

\* num_pages_allocated_ is the number of pages of all slabs: a failed addSlab
\* must not count, and clearing must not forget to reset it.
AllocatedIsSum ==
    num_pages_allocated =
        FoldLeft(LAMBDA sum, list : sum + SlabSize(list), 0, slab_segments)
=============================================================================

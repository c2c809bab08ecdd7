------------------------ MODULE MCHashtableRecycler -------------------------
(* HashtableRecycler for TLC, with hash tables of three sizes.               *)
EXTENDS HashtableRecycler

CONSTANTS s1, s2, s3, s4    \* keys; two of the tables have the same size

MCItemSize == (s1 :> 1) @@ (s2 :> 2) @@ (s3 :> 2) @@ (s4 :> 3)
=============================================================================

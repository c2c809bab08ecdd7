------------------------- MODULE MCStringDictionary -------------------------
(* StringDictionary for TLC: hashes that collide in full, that collide in    *)
(* small tables only, and a run of buckets that wraps around.                *)
EXTENDS StringDictionary, TLC

CONSTANTS str_a, str_b, str_c, str_d

\* str_a and str_b have the same hash; str_c follows in the last bucket of every table.
Hashes == str_a :> 7 @@ str_b :> 7 @@ str_c :> 15 @@ str_d :> 0

ThreadSymmetry == Permutations(Threads)
=============================================================================

---------------------------- MODULE MCArrowTable ----------------------------
(* ArrowTable for TLC: a few rows of each type.                              *)
EXTENDS ArrowTable, TLC

CONSTANT null

\* Numbers; arrays to pad and to cut; strings and lists of several lengths.
SomeRows ==
    [int |-> {null, 1, 2},
     fixed |-> {null, <<2, 3, 4>>},
     text |-> {null, <<2, 3>>},
     array |-> {<<>>, <<2, 3>>}]

QuerySymmetry == Permutations(Queries)
=============================================================================

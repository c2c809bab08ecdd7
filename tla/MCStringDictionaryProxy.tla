---------------------- MODULE MCStringDictionaryProxy -----------------------
(* StringDictionaryProxy for TLC. *)
EXTENDS StringDictionaryProxy, TLC

ToAndFro == {<<"intersection", 1, 2>>, <<"union", 2, 1>>, <<"append", 1, 2>>}

Symmetric == Permutations(Strings) \cup Permutations(Threads)
=============================================================================

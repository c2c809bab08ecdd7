----------------------------- MODULE Dictionary -----------------------------
(***************************************************************************)
(* What a string dictionary promises to those who store its ids in columns *)
(* and query results: a string keeps the id it was given, two strings      *)
(* never share one and no string has two, and ids are handed out densely   *)
(* from 0 upwards.                                                         *)
(***************************************************************************)
EXTENDS Integers, Sequences, SequencesExt

CONSTANT Strings

VARIABLES
    strs,  \* the strings in the order of their ids: strs[i + 1] has id i
    ids    \* the id a lookup of each string answers, -1 for a string unknown

IdIn(s, list) ==
    IF Contains(list, s) THEN (CHOOSE i \in 1 .. Len(list) : list[i] = s) - 1 ELSE -1

IdsOf(list) == [s \in Strings |-> IdIn(s, list)]

Init ==
    /\ strs = <<>>
    /\ ids = IdsOf(strs)

\* One or several strings become known.
Add ==
    /\ IsStrictPrefix(strs, strs')
    /\ ToSet(strs') \subseteq Strings
    /\ IsInjective(strs')
    /\ ids' = IdsOf(strs')

Spec == Init /\ [][Add]_<<strs, ids>>
=============================================================================

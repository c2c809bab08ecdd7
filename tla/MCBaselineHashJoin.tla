------------------------- MODULE MCBaselineHashJoin -------------------------
(* BaselineHashJoin for TLC: keys that share a component, that share a slot  *)
(* and whose probes wrap around the table.                                   *)
EXTENDS BaselineHashJoin

Pair == {<<0, 0>>, <<0, 1>>, <<1, 0>>}
\* The largest value but one is write_pending.
WithPending == Pair \cup {<<2, 0>>}

\* Three keys start in the last slot of every table, one in the first.
HashPending == [k \in WithPending |-> IF k = <<1, 0>> THEN 0 ELSE 119]
=============================================================================

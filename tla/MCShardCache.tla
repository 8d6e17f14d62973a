---------------------------- MODULE MCShardCache ----------------------------
(* BlockReader over ShardCache for TLC: two shards of two nodes; all keys   *)
(* but k4 share one.                                                        *)
EXTENDS BlockReader, TLC
CONSTANTS c1, c2, k1, k2, k3, k4

MCClients == {c1, c2}
MCKeys    == {k1, k2, k3, k4}
MCHash    == [k \in MCKeys |-> IF k = k4 THEN 1 ELSE 0]

Symmetry == Permutations(MCClients) \cup Permutations(MCKeys \ {k4})
=============================================================================

---------------------------- MODULE MCDataBlock -----------------------------
(* DataBlock for TLC: keys that are prefixes of others, share prefixes with *)
(* others, or share nothing.                                                *)
EXTENDS DataBlock, TLC

MCKeys == {<<1>>, <<1, 1>>, <<1, 1, 2>>, <<1, 2>>, <<2>>, <<3>>}
=============================================================================

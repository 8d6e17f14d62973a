------------------------- MODULE MCSkipListRelaxed -------------------------
(* SkipListRelaxed for TLC: two keys, towers of at most two, one reader.    *)
EXTENDS SkipListRelaxed, TLC
=============================================================================

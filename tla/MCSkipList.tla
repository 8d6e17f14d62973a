----------------------------- MODULE MCSkipList -----------------------------
(* SkipList for TLC: three keys, towers of up to three levels, a reader.    *)
EXTENDS SkipList, TLC
=============================================================================

----------------------------- MODULE MCManifest -----------------------------
(* Manifest for TLC: two tables on levels 0 and 1, three changes, two       *)
(* rewrites and one crash.                                                  *)
EXTENDS Manifest, TLC
=============================================================================

------------------------------- MODULE MCTable ------------------------------
(* Table for TLC: bytes of three bits, of which 4 to 7 are negative as      *)
(* chars; keys that share prefixes and keys with room between them; hashes  *)
(* of six bits, arrays of one to four bytes of four bits.                   *)
EXTENDS Table, TLC

MCKeys == {<<1>>, <<1, 1>>, <<1, 3>>, <<4, 7>>, <<6>>, <<7>>}
MCHash == <<1>> :> 7 @@ <<1, 1>> :> 37 @@ <<1, 3>> :> 18
          @@ <<4, 7>> :> 51 @@ <<6>> :> 28 @@ <<7>> :> 62

\* No table before, or one.
MCFresh  == {{}}
MCShared == {{}, {<<1>>}}
=============================================================================

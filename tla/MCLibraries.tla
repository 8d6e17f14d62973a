----------------------------- MODULE MCLibraries -----------------------------
(***************************************************************************)
(* The leaf libraries for TLC: memory (FreeListAlloc, Arena), the logger   *)
(* (LogAppender), and the encodings (CodecStream, ManifestCodec, Crc32,    *)
(* BlockChecksum).  They share no state; a behaviour is one of a single    *)
(* library, and the others stay in their initial states.                   *)
(***************************************************************************)
EXTENDS FreeListAlloc, Arena, LogAppender, CodecStream, ManifestCodec, BlockChecksum, TLC

VARIABLE library

free_list_vars == vars
leaf_vars == <<free_list_vars, arena_vars, vars_of_log, codec_vars, manifest_vars,
               crc_vars, block_vars, library>>

LibrariesInit ==
    /\ Init /\ ArenaInit /\ LogInit /\ CodecInit /\ ManifestInit /\ CrcInit /\ BlockInit
    /\ library \in {"free list", "arena", "log", "codec", "manifest", "crc", "block"}
    /\ library # "log" => rotate_size = Min(RotateSizes)

FreeListStep == Next /\ UNCHANGED <<arena_vars, vars_of_log, codec_vars, manifest_vars, crc_vars, block_vars>>
ArenaStep    == ArenaNext /\ UNCHANGED <<free_list_vars, vars_of_log, codec_vars, manifest_vars, crc_vars, block_vars>>
LogStep      == LogNext /\ UNCHANGED <<free_list_vars, arena_vars, codec_vars, manifest_vars, crc_vars, block_vars>>
CodecStep    == CodecNext /\ UNCHANGED <<free_list_vars, arena_vars, vars_of_log, manifest_vars, crc_vars, block_vars>>
ManifestStep == ManifestNext /\ UNCHANGED <<free_list_vars, arena_vars, vars_of_log, codec_vars, crc_vars, block_vars>>
CrcStep      == CrcNext /\ UNCHANGED <<free_list_vars, arena_vars, vars_of_log, codec_vars, manifest_vars, block_vars>>
BlockStep    == BlockNext /\ UNCHANGED <<free_list_vars, arena_vars, vars_of_log, codec_vars, manifest_vars, crc_vars>>

LibrariesNext ==
    /\ UNCHANGED library
    /\ \/ library = "free list" /\ FreeListStep
       \/ library = "arena"     /\ ArenaStep
       \/ library = "log"       /\ LogStep
       \/ library = "codec"     /\ CodecStep
       \/ library = "manifest"  /\ ManifestStep
       \/ library = "crc"       /\ CrcStep
       \/ library = "block"     /\ BlockStep

\* A thread in Append goes on whenever it can.
LibrariesSpec ==
    /\ LibrariesInit /\ [][LibrariesNext]_leaf_vars
    /\ \A t \in Threads : WF_vars_of_log(library = "log" /\ ThreadStep(t))

\* The types of the two libraries that keep a state of more than one part.
LibrariesTypeOK == TypeOK /\ LogTypeOK

-----------------------------------------------------------------------------
(* Values                                                                  *)

\* On both sides of every boundary between lengths, from this number of bytes
\* on, and at the width.
Edges(bytes, width) ==
    LET lengths == bytes .. (width - 1) \div 7 IN
    {{}, {0}, Below(width)} \cup {{7 * n} : n \in lengths} \cup {Below(7 * n) : n \in lengths}

MCValues32 == Edges(1, 32)
MCValues64 == Edges(4, 64)
\* The last one has a length of two bytes.
MCSlices   == {<<>>, <<{7}>>, <<{0}, {1, 7}>>, [i \in 1 .. 128 |-> {i % 8}]}
MCTableIds == {{0}, {7}}
MCLevels   == {{7}}

MCBlocks == {<<>>, <<{}>>, <<{0, 2, 7}, {1}, {3, 4}>>, [i \in 1 .. 18 |-> {i % 8, (i * i) % 8}]}
MCDamage == {{bit} : bit \in Below(8)} \cup {Below(n) : n \in 2 .. 8} \cup {{0, 7}}

\* The check value of CRC-32C: that of the digits 1 to 9 is 16#e3069283#.
ASSUME CheckValue ==
    Extend({}, [i \in 1 .. 9 |-> {4, 5} \cup Word[i]], 1)
        = {0, 1, 7, 9, 12, 15, 17, 18, 24, 25, 29, 30, 31}
=============================================================================

---------------------------- MODULE BlockChecksum ----------------------------
(***************************************************************************)
(* The trailer of a block of a table file: TableBuilder::WriteBytesBlock   *)
(* (src/src/table/table_builder.cpp) puts a byte for the compression and   *)
(* the masked checksum of the data and that byte behind the data, and      *)
(* Table::ReadBlock (src/src/table/table.cpp) checks it, on a buffer of    *)
(* its own that begins at another address.                                 *)
(***************************************************************************)
EXTENDS Crc32

CONSTANTS BlockTypes,   \* the bytes for a compression
          Blocks,       \* the data that are written
          DamageMasks   \* how a byte may change

ASSUME BlocksAssumption ==
    /\ BlockTypes \subseteq SUBSET Below(8)
    /\ \A data \in Blocks : data \in Seq(SUBSET Below(8))
    /\ DamageMasks \subseteq SUBSET Below(8) /\ {} \notin DamageMasks

VARIABLES stored,  \* the bytes of the block on disk
          damaged  \* whether a byte is no longer what was written
block_vars == <<stored, damaged>>

\* Of the data of the block that is stored, as the handle of the block has it.
Length == Len(stored) - 5

\* The char array trailer begins at address 0.
Trailer(data, type, address) ==
    <<type>> \o EncodeFixed32(Mask(Extend(Extend({}, data, address), <<type>>, 0)))

BlockInit == stored = <<>> /\ damaged = FALSE

WriteBytesBlock ==
    /\ stored = <<>>
    /\ \E data \in Blocks, type \in BlockTypes, address \in 0 .. 3 :
          stored' = data \o Trailer(data, type, address)
    /\ UNCHANGED damaged

\* External: one byte on disk changes.
Damage ==
    /\ stored # <<>> /\ ~ damaged
    /\ \E i \in 1 .. Len(stored), mask \in DamageMasks :
          stored' = [stored EXCEPT ![i] = Xor(@, mask)]
    /\ damaged' = TRUE

BlockNext == WriteBytesBlock \/ Damage

BlockSpec == BlockInit /\ [][BlockNext]_block_vars

\* Mutant: the mismatch is logged and reading goes on.
OnlyLogs(address) == "kSuccess"

\* ReadBlock into a buffer at the given address.
ReadBlock(address) ==
    IF Unmask(DecodeFixed32(SubSeq(stored, Length + 2, Length + 5)))
        = Extend({}, SubSeq(stored, 1, Length + 1), address)
    THEN "kSuccess" ELSE "kInvalidObject"

-----------------------------------------------------------------------------
(* Properties *)

\* What was written is accepted, wherever the buffers of writer and reader
\* begin: the writer's checksum in two parts is the reader's in one, and
\* survives the mask and the four bytes it is stored in.
WrittenBlockIsRead ==
    stored # <<>> /\ ~ damaged => \A address \in 0 .. 3 : ReadBlock(address) = "kSuccess"

\* A change of any one byte, of the data, the type or the checksum, is noticed.
DamageIsNoticed ==
    damaged => \A address \in 0 .. 3 : ReadBlock(address) = "kInvalidObject"

\* ReadBlock tells a block that is as it was written from one that is not.
ChecksumDecides == WrittenBlockIsRead /\ DamageIsNoticed
=============================================================================

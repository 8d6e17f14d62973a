------------------------------- MODULE Table --------------------------------
(***************************************************************************)
(* A table that is built (TableBuilder) and then opened with the same      *)
(* Options: Table::Open (src/src/table/table.cpp) reads the footer, the    *)
(* index block, the meta block and the filter, each with its trailer.      *)
(*                                                                         *)
(* Only a table without a failing write is opened.  What Open does with    *)
(* damaged bytes is left out: it ignores what ReadBlock returns.  The      *)
(* index block it builds on a local string is read by nobody.              *)
(***************************************************************************)
EXTENDS TableBuilder

VARIABLES
    opened,      \* "no", or the status Open returned
    index_data,  \* what Open read of the index block
    bf           \* bf_

reader_vars == <<opened, index_data, bf>>
table_vars  == <<vars, reader_vars>>

TableInit ==
    /\ Init
    /\ opened = "no"
    /\ index_data = <<>>
    /\ bf = <<>>

-----------------------------------------------------------------------------
\* FileReader::Read: pread into a string of the size that is asked for.
Read(offset, n) == [i \in 1 .. n |-> file[offset + i].item]

\* The block and its trailer.
ReadBlock(where) == Read(where.offset, where.length + 1)

\* bf_ is cut to the length of the block.
ReadFilter(where) == SubSeq(ReadBlock(where), 1, where.length)

\* Footer::DecodeFrom takes the bytes for a footer: its magic number is there.
DecodeFrom(item) == item.of = "footer"

\* OffsetBuilder::Decode
Decode(entry) == [offset |-> entry.where.offset, length |-> entry.where.length]

\* The place the meta block, without its restart array and trailer, gives under
\* the name of the policy.
ReadMeta(footer) == Decode(ReadBlock(footer.meta)[1])

Open ==
    /\ Closed /\ opened = "no"
    /\ LET footer == Read(Len(file) - 1, 1)[1] IN
       /\ DecodeFrom(footer)
       /\ index_data' = ReadBlock(footer.index)
       /\ bf' = IF filter THEN ReadFilter(ReadMeta(footer)) ELSE <<>>
    /\ opened' = "success"
    /\ UNCHANGED vars

TableNext ==
    \/ Next /\ UNCHANGED reader_vars
    \/ Open

TableSpec == TableInit /\ [][TableNext]_table_vars

\* A call of Add or Finish runs to its end, on a thread of its own; write(2)
\* returns, and is not interrupted forever.
FairSpec ==
    TableSpec /\ WF_table_vars((BuilderStep \/ FileSteps) /\ UNCHANGED reader_vars)

-----------------------------------------------------------------------------
(* Properties *)

ReaderTypeOK ==
    /\ TypeOK
    /\ opened \in {"no", "success"}
    /\ opened = "no" => index_data = <<>> /\ bf = <<>>

\* Through offsets, two levels of buffering, the footer and the meta block, Open
\* comes to the index the builder made, whole, and to the filter of the policy
\* and nothing behind it; and nothing follows the footer.
OpenFindsBlocks ==
    /\ Closed => Last(file).item = Footer
    /\ opened = "success" =>
           /\ index_data = index \o <<Restarts, Trailer>>
           /\ filter => bf = FilterBlock(policy)

\* The array CreateFilter made for this table, wherever it is in the policy's
\* data, may match every key of the table; and so may the filter read back, if
\* the array is alone in it.
OwnArrayMatches ==
    LET own == WholeBytes(Modulus(Cardinality(datas))) IN
    opened = "success" /\ filter =>
        \A k \in datas :
            /\ MayMatchAt(k, policy, Len(policy) - own, 0)
            /\ Len(policy) = own => MayMatch(k, bf[1].bits, bf[1].hash_num)

\* "Several filters may share one bloomfilter_data_" (the comment at
\* src/src/filter/bloomfilter.cpp:42): the filter a table comes with may match
\* every key of the table.
NoFalseNegatives ==
    opened = "success" /\ filter =>
        \A k \in datas : bf # <<>> /\ MayMatch(k, bf[1].bits, bf[1].hash_num)
=============================================================================

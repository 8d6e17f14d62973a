---------------------------- MODULE TableBuilder ----------------------------
(***************************************************************************)
(* TableBuilder (src/src/table/table_builder.cpp) on a FileWriter: Add     *)
(* gathers entries into data blocks, every full block goes to the file     *)
(* with a trailer, and Finish writes the last data block, the filter       *)
(* block, its meta block, the index block and the footer.  Control returns *)
(* to the builder only when the FileWriter call it made has returned.      *)
(*                                                                         *)
(* The unit of size is an item: an entry of a block, the restart array a   *)
(* block ends with, a trailer, the filter, the footer.  A key is a         *)
(* sequence of bytes, because FindShortest cuts and increments keys.       *)
(***************************************************************************)
EXTENDS FileWriter, ByteComparator, BloomFilter, FiniteSets

CONSTANTS Keys,        \* the keys a caller may add
          BlockSize,   \* options_.block_size
          EarlierTables \* the key sets of tables built before with these Options

ASSUME KeysAssumption == Keys \subseteq Strings /\ Keys \subseteq DOMAIN HashOf
ASSUME BlockSizeAssumption == BlockSize \in Nat
ASSUME EarlierTablesAssumption ==
    \A keys \in EarlierTables : keys \subseteq Keys /\ IsFiniteSet(keys)

VARIABLES
    filter,        \* whether the options have a filter policy
    policy,        \* its bloomfilter_data_
    datas,         \* filter_block_builder_.datas_
    block,         \* the keys in data_block_builder_
    index,         \* the entries of index_block_builder_
    pre_key,       \* pre_block_last_key_
    at,            \* where the last block of each kind is: offset and length
    block_offset,  \* block_offset_
    entry_count,   \* entry_count_
    need_index,    \* need_create_index_block_
    status,        \* status_ = Status::kSuccess
    pc,            \* "ready" between calls, "done" after Finish
    writing,       \* the kind of the block WriteBytesBlock is writing
    finishing      \* whether Finish was called

filter_vars  == <<filter, policy, datas>>
other_vars   == <<filter_vars, block, index, pre_key, at, block_offset,
                  entry_count, need_index, status, writing, finishing>>
builder_vars == <<other_vars, pc>>
vars == <<file_vars, builder_vars>>

Kinds == {"data", "filter", "meta", "index"}

Init ==
    /\ FileInit
    /\ filter \in BOOLEAN
    /\ \E keys \in EarlierTables :
           policy = IF filter /\ keys # {} THEN CreateFilter(<<>>, keys) ELSE <<>>
    /\ datas = {}
    /\ block = <<>>
    /\ index = <<>>
    /\ pre_key = <<>>
    /\ at = [kind \in Kinds |-> [offset |-> 0, length |-> 0]]
    /\ block_offset = 0
    /\ entry_count = 0
    /\ need_index = FALSE
    /\ status = TRUE
    /\ pc = "ready"
    /\ writing = "data"
    /\ finishing = FALSE

-----------------------------------------------------------------------------
(* The blocks *)

Entry(k)   == [of |-> "entry", key |-> k]
Restarts   == [of |-> "restarts"]
Trailer    == [of |-> "trailer"]
IndexEntry(k, where) == [of |-> "index", key |-> k, where |-> where]
MetaEntry(where)     == [of |-> "meta", where |-> where]
\* Mutant: the two places are swapped.
FooterSwapped == [of |-> "footer", meta |-> at["index"], index |-> at["meta"]]

Footer == [of |-> "footer", meta |-> at["meta"], index |-> at["index"]]

\* DataBlockBuilder::CurrentSize: the restart array counts, so never 0.
CurrentSize(entries) == Len(entries) + 1

\* DataBlockBuilder::Finish and Data
DataOf(entries) == [i \in 1 .. Len(entries) |-> Entry(entries[i])] \o <<Restarts>>

\* WriteBytesBlock up to the Append of the data.  Compression copies the data.
WriteBytesBlock(kind, items) ==
    /\ at' = [at EXCEPT ![kind] = [offset |-> block_offset, length |-> Len(items)]]
    /\ writing' = kind
    /\ pc' = "trailer"
    /\ AppendBytes(items)

\* The result of the first Append is overwritten by that of the second.
AppendTrailer ==
    /\ pc = "trailer"
    /\ AppendBytes(<<Trailer>>)
    /\ pc' = "written"
    /\ UNCHANGED other_vars

\* Mutant: the trailer is not counted.
OffsetWithoutTrailer(kind) == block_offset + at[kind].length

OffsetAfter(kind) == block_offset + at[kind].length + 1

\* The end of WriteBytesBlock, and Flush after a data block.
BlockWritten ==
    /\ pc = "written" /\ call = "none"
    /\ status' = result
    /\ block_offset' = IF result THEN OffsetAfter(writing) ELSE block_offset
    /\ IF writing = "data" /\ result
       THEN need_index' = TRUE /\ FlushBuffer /\ pc' = "flush"
       ELSE /\ pc' = IF finishing THEN writing ELSE "ready"
            /\ UNCHANGED <<need_index, file_vars>>
    /\ UNCHANGED <<filter_vars, block, index, pre_key, at, entry_count, writing, finishing>>

\* Mutant: Finish goes back to waiting for a call.
FlushedToReady ==
    /\ pc = "flush" /\ call = "none"
    /\ status' = result
    /\ pc' = "ready"
    /\ UNCHANGED <<file_vars, filter_vars, block, index, pre_key, at, block_offset,
                   entry_count, need_index, writing, finishing>>

Flushed ==
    /\ pc = "flush" /\ call = "none"
    /\ status' = result
    /\ pc' = IF finishing THEN "data" ELSE "ready"
    /\ UNCHANGED <<file_vars, filter_vars, block, index, pre_key, at, block_offset,
                   entry_count, need_index, writing, finishing>>

-----------------------------------------------------------------------------
(* Add *)

\* The first key after a full block gives that block its index entry, under
\* a key between its last key and this one.
IndexBefore(k) ==
    IF need_index
    THEN Append(index, IndexEntry(FindShortest(pre_key, k), at["data"]))
    ELSE index

\* Keys come in increasing order.
Add(k) ==
    /\ pc = "ready"
    /\ Less(pre_key, k)
    /\ index' = IndexBefore(k)
    /\ need_index' = FALSE
    /\ pre_key' = k
    /\ entry_count' = entry_count + 1
    /\ IF CurrentSize(Append(block, k)) >= BlockSize
       THEN /\ WriteBytesBlock("data", DataOf(Append(block, k)))
            /\ block' = <<>>
       ELSE /\ block' = Append(block, k)
            /\ UNCHANGED <<file_vars, at, pc, writing>>
    /\ datas' = IF filter THEN datas \cup {k} ELSE datas
    /\ UNCHANGED <<filter, policy, block_offset, status, finishing>>

-----------------------------------------------------------------------------
(* Finish *)

\* The last data block is written whatever it holds; after a failure Finish
\* returns at once and leaves the file open.
Finish ==
    /\ pc = "ready" /\ ~ finishing
    /\ finishing' = TRUE
    /\ IF status
       THEN WriteBytesBlock("data", DataOf(block)) /\ block' = <<>>
       ELSE pc' = "done" /\ UNCHANGED <<file_vars, at, writing, block>>
    /\ UNCHANGED <<filter_vars, index, pre_key, block_offset, entry_count, need_index, status>>

\* FilterBlockBuilder::Finish: all of the policy's data and the number of hash
\* functions, or an empty block without keys.
FilterBlock(data) ==
    IF datas = {} THEN <<>> ELSE <<[of |-> "filter", bits |-> data, hash_num |-> HashNum]>>

FinishFilter ==
    /\ pc = "data" /\ filter
    /\ LET data == IF datas = {} THEN policy ELSE CreateFilter(policy, datas) IN
       /\ policy' = data
       /\ WriteBytesBlock("filter", FilterBlock(data))
    /\ UNCHANGED <<filter, datas, block, index, pre_key, block_offset, entry_count,
                   need_index, status, finishing>>

FinishMeta ==
    /\ pc = "filter"
    /\ WriteBytesBlock("meta", <<MetaEntry(at["filter"]), Restarts>>)
    /\ UNCHANGED <<filter_vars, block, index, pre_key, block_offset, entry_count,
                   need_index, status, finishing>>

\* The last block is indexed under its last key as it is; DataBlockBuilder::Add
\* takes no empty key.
LastIndex ==
    IF need_index /\ pre_key # <<>>
    THEN Append(index, IndexEntry(pre_key, at["data"]))
    ELSE index

FinishIndex ==
    /\ pc = IF filter THEN "meta" ELSE "data"
    /\ index' = LastIndex
    /\ need_index' = FALSE
    /\ WriteBytesBlock("index", Append(LastIndex, Restarts))
    /\ UNCHANGED <<filter_vars, block, pre_key, block_offset, entry_count, status, finishing>>

FinishFooter ==
    /\ pc = "index"
    /\ AppendBytes(<<Footer>>)
    /\ block_offset' = block_offset + 1
    /\ pc' = "close"
    /\ UNCHANGED <<filter_vars, block, index, pre_key, at, entry_count, need_index,
                   status, writing, finishing>>

FinishClose ==
    /\ pc = "close"
    /\ Close
    /\ pc' = "done"
    /\ UNCHANGED other_vars

-----------------------------------------------------------------------------
FileSteps == FileStep /\ UNCHANGED builder_vars

BuilderStep ==
    \/ AppendTrailer \/ BlockWritten \/ Flushed
    \/ FinishFilter \/ FinishMeta \/ FinishIndex \/ FinishFooter \/ FinishClose

Next ==
    \/ \E k \in Keys : Add(k)
    \/ Finish
    \/ BuilderStep
    \/ FileSteps

Spec == Init /\ [][Next]_vars

-----------------------------------------------------------------------------
(* Properties *)

TypeOK ==
    /\ FileTypeOK
    /\ {filter, need_index, status, finishing} \subseteq BOOLEAN
    /\ datas \subseteq Keys
    /\ \A i \in DOMAIN policy : policy[i] \in BOOLEAN
    /\ \A i \in 1 .. Len(block) : block[i] \in Keys
    /\ pre_key \in Keys \cup {<<>>}
    /\ at \in [Kinds -> [offset : Nat, length : Nat]]
    /\ pc \in {"ready", "trailer", "written", "flush", "close", "done"} \cup Kinds
    /\ writing \in Kinds
    /\ CurrentSize(block) < BlockSize \/ block = <<>>

\* A place of the stream with a trailer behind it.
HoldsBlock(where) ==
    /\ where.offset + where.length < Len(Stream)
    /\ Stream[where.offset + where.length + 1].item = Trailer

\* Entries, and one restart array at their end.
HoldsEntries(where) ==
    /\ where.length > 0
    /\ \A i \in 1 .. where.length - 1 : Stream[where.offset + i].item.of = "entry"
    /\ Stream[where.offset + where.length].item = Restarts

KeysAt(where) ==
    {Stream[i].item.key :
        i \in {j \in where.offset + 1 .. where.offset + where.length :
                  Stream[j].item.of = "entry"}}

\* While no write fails, the offsets the builder counts are the ones the bytes
\* end up at, whatever is still in the buffer when they are recorded: every
\* index entry delimits one data block, with its restart array and trailer.
OffsetsMatchFile ==
    failures = 0 =>
        /\ pc \in {"ready", "data", "filter", "meta", "index"} =>
               block_offset = Len(Stream)
        /\ \A i \in 1 .. Len(index) :
               HoldsBlock(index[i].where) /\ HoldsEntries(index[i].where)

Closed == pc = "done" /\ ~ is_open /\ failures = 0

\* The block a lookup of k searches: that of the first index entry not less.
LookedUp(k) ==
    {index[i].where : i \in {j \in 1 .. Len(index) :
        /\ ~ Less(index[j].key, k)
        /\ j = 1 \/ Less(index[j - 1].key, k)}}

Added == {file[i].item.key : i \in {j \in 1 .. Len(file) : file[j].item.of = "entry"}}

\* A table finished without a failing write has every key, and a lookup through
\* the shortened keys of the index leads to the block that holds it,
\* never to another one that holds keys.  That the block may be an empty one,
\* which Finish wrote after a full last block, is left to LastBlockIsIndexed.
LookupFinds ==
    Closed =>
        /\ Cardinality(Added) = entry_count
        /\ \A k \in Added :
               \E where \in LookedUp(k) : k \in KeysAt(where) \/ KeysAt(where) = {}

\* "What the index saves is the offset of the current key in its block and the
\* size of that block" (src/src/table/table_builder.cpp:134-136): the entry of
\* the last key names the block that holds it.
LastBlockIsIndexed ==
    Closed /\ entry_count > 0 => pre_key \in KeysAt(index[Len(index)].where)

\* A Finish that was called returns, whatever the writes do.
FinishReturns == finishing ~> pc = "done"
=============================================================================

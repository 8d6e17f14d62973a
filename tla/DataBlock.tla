----------------------------- MODULE DataBlock ------------------------------
(***************************************************************************)
(* A block of a table: DataBlockBuilder (src/src/table/block_builder.cpp)  *)
(* writes sorted entries with shared key prefixes and restart points,      *)
(* DataBlock::Iter (src/src/table/data_block.cpp) moves over them.  A step *)
(* is one round of a loop of the iterator.                                 *)
(*                                                                         *)
(* An offset counts entries instead of bytes, which keeps their order; the *)
(* value of an entry is named by its key.  The varint lengths of an entry  *)
(* are left out.                                                           *)
(***************************************************************************)
EXTENDS ByteComparator, SequencesExt, FiniteSetsExt

CONSTANTS Keys,      \* the keys that may be added or looked up
          Intervals  \* the values of options_->block_restart_interval

ASSUME KeysAssumption == Keys \subseteq Strings
ASSUME IntervalsAssumption == Intervals \subseteq Nat \ {0}

VARIABLES
    interval,  \* options_->block_restart_interval
    entries,   \* buffer_: for each entry what it stores of its key, its value
    restarts,  \* restarts_, and in the finished block the restart array
    counter,   \* restart_pointer_counter_
    pre_key,   \* pre_key_
    it,        \* the iterator: current_, restart_index_, key_, value_, offset_, status_
    op,        \* the operation in progress and its argument
    pc,        \* "build", "ready", or the loop of the operation
    original,  \* local variable of Prev
    left, right,  \* local variables of Seek
    origin     \* the key the iterator was on at the call (for the properties)

block_vars == <<interval, entries, restarts, counter, pre_key>>
local_vars == <<original, left, right>>
vars == <<block_vars, it, op, pc, local_vars, origin>>

NoOp == [op |-> "none", target |-> <<>>]

Init ==
    /\ interval \in Intervals
    /\ entries = <<>>
    /\ restarts = <<0>>
    /\ counter = 0
    /\ pre_key = <<>>
    /\ it = [current |-> 0, restart_index |-> 0, key |-> <<>>, value |-> <<>>,
             offset |-> 0, status |-> "success"]
    /\ op = NoOp
    /\ pc = "build"
    /\ original = 0 /\ left = 0 /\ right = 0
    /\ origin = <<>>

-----------------------------------------------------------------------------
(* DataBlockBuilder *)

EntryOf(k, shared) ==
    [shared |-> shared, rest |-> SubSeq(k, shared + 1, Len(k)), value |-> k]

\* Mutant: the key of a restart point is compressed as well.
AddRestartShared(k) ==
    /\ counter >= interval
    /\ restarts' = Append(restarts, Len(entries))
    /\ entries' = Append(entries, EntryOf(k, CommonLen(pre_key, k)))
    /\ counter' = 1

\* A restart point stores its key whole.
AddRestart(k) ==
    /\ counter >= interval
    /\ restarts' = Append(restarts, Len(entries))
    /\ entries' = Append(entries, EntryOf(k, 0))
    /\ counter' = 1

\* Mutant: one entry too many before a restart.
AddSharedOnceMore(k) ==
    /\ counter <= interval
    /\ entries' = Append(entries, EntryOf(k, CommonLen(pre_key, k)))
    /\ counter' = counter + 1
    /\ UNCHANGED restarts

AddShared(k) ==
    /\ counter < interval
    /\ entries' = Append(entries, EntryOf(k, CommonLen(pre_key, k)))
    /\ counter' = counter + 1
    /\ UNCHANGED restarts

\* Keys come in increasing order.
Add(k) ==
    /\ pc = "build"
    /\ Less(pre_key, k)
    /\ AddRestart(k) \/ AddShared(k)
    /\ pre_key' = k
    /\ UNCHANGED <<interval, it, op, pc, local_vars, origin>>

\* NewIterator on a block that holds its own number of restart
\* points, at least one: on no entry, behind all of them.
NewIterator ==
    [current |-> Len(entries), restart_index |-> Len(restarts), key |-> <<>>,
     value |-> <<>>, offset |-> 0, status |-> "success"]

\* DataBlockBuilder::Finish appends the restart array and its length, which the
\* constructor of DataBlock finds; an iterator on the block.
Finish ==
    /\ pc = "build"
    /\ pc' = "ready"
    /\ it' = NewIterator
    /\ UNCHANGED <<block_vars, op, local_vars, origin>>

-----------------------------------------------------------------------------
(* DataBlock::Iter *)

End      == Len(entries)    \* restarts_: where the restart array starts
Valid    == it.current < End
Point(i) == restarts[i + 1] \* GetRestartPoint
Points   == 0 .. Len(restarts) - 1

Invalid == [it EXCEPT !.current = End, !.restart_index = Len(restarts)]

Corruption == [Invalid EXCEPT !.status = "interrupt", !.key = <<>>, !.value = <<>>]

\* SeekToRestartPoint
AtRestart(i) ==
    [it EXCEPT !.key = <<>>, !.value = <<>>, !.restart_index = i, !.offset = Point(i)]

\* Mutant: restart_index_ is not moved.
RestartIndexStays(current) == it.restart_index

\* The loop that moves restart_index_ up; a point equal to current_ is left for
\* the next entry.
RestartIndexAt(current) ==
    Max({it.restart_index} \cup
        {i \in Points : /\ i > it.restart_index
                        /\ \A j \in it.restart_index + 1 .. i : Point(j) < current})

\* The entry at an offset. That the bytes may end before it does is left out.
DecodeEntry(offset) == entries[offset + 1]

ParseEntry ==
    LET e == DecodeEntry(it.offset) IN
    [it EXCEPT !.current = it.offset,
               !.restart_index = RestartIndexAt(it.offset),
               !.key = SubSeq(@, 1, e.shared) \o e.rest,
               !.value = e.value,
               !.offset = @ + 1]

\* ParseNextKey: it returned true iff the iterator is valid afterwards.
ParseNextKey ==
    IF it.offset >= End THEN Invalid
    ELSE IF Len(it.key) < DecodeEntry(it.offset).shared THEN Corruption
    ELSE ParseEntry

-----------------------------------------------------------------------------
(* The operations *)

Call(name, target) ==
    /\ pc = "ready"
    /\ op' = [op |-> name, target |-> target]
    /\ pc' = name
    /\ origin' = IF Valid THEN it.key ELSE <<>>
    /\ UNCHANGED <<block_vars, it, local_vars>>

Return ==
    /\ pc' = "ready"
    /\ op' = NoOp

SeekToFirst ==
    /\ pc = "first"
    /\ it' = AtRestart(0)
    /\ pc' = "parse"
    /\ UNCHANGED <<block_vars, op, local_vars, origin>>

SeekToLast ==
    /\ pc = "last"
    /\ it' = AtRestart(Len(restarts) - 1)
    /\ pc' = "parse"
    /\ UNCHANGED <<block_vars, op, local_vars, origin>>

NextStep ==
    /\ pc = "next"
    /\ pc' = "parse"
    /\ UNCHANGED <<block_vars, it, op, local_vars, origin>>

\* Mutant: the restart point of the current entry itself is taken.
PointsUpTo(offset) == {i \in 0 .. it.restart_index : Point(i) <= offset}

PointsBefore(offset) == {i \in 0 .. it.restart_index : Point(i) < offset}

\* Back to the last restart point before the current entry, if there is one.
PrevRestart ==
    /\ pc = "prev"
    /\ original' = it.current
    /\ IF PointsBefore(it.current) = {}
       THEN it' = Invalid /\ Return
       ELSE /\ it' = AtRestart(Max(PointsBefore(it.current)))
            /\ pc' = "parse"
            /\ UNCHANGED op
    /\ UNCHANGED <<block_vars, left, right, origin>>

SeekStart ==
    /\ pc = "seek"
    /\ left' = 0
    /\ right' = Len(restarts) - 1
    /\ pc' = "search"
    /\ UNCHANGED <<block_vars, it, op, original, origin>>

\* Compare(mid_key, target) < 0.  strcmp reads past the end of mid_key into the
\* bytes of the block that follow it: when mid_key is a proper prefix of target
\* they decide.
SearchGoesRight(mid_key) ==
    IF IsStrictPrefix(mid_key, op.target) THEN BOOLEAN ELSE {Less(mid_key, op.target)}

\* Mutant: the middle is rounded down.
MidRoundedDown == (left + right) \div 2

Mid == (left + right + 1) \div 2

SearchStep ==
    /\ pc = "search" /\ left < right
    /\ LET mid_entry == DecodeEntry(Point(Mid)) IN
       IF mid_entry.shared # 0
       THEN it' = Corruption /\ Return /\ UNCHANGED <<left, right>>
       ELSE /\ \E goes_right \in SearchGoesRight(mid_entry.rest) :
                  IF goes_right THEN left' = Mid /\ UNCHANGED right
                                ELSE right' = Mid - 1 /\ UNCHANGED left
            /\ UNCHANGED <<it, op, pc>>
    /\ UNCHANGED <<block_vars, original, origin>>

SearchDone ==
    /\ pc = "search" /\ left >= right
    /\ it' = AtRestart(left)
    /\ pc' = "parse"
    /\ UNCHANGED <<block_vars, op, local_vars, origin>>

\* Whether the loop of the operation goes on after the entry it parsed.
GoesOn(parsed) ==
    /\ parsed.current < End
    /\ CASE op.op = "seek" -> Less(parsed.key, op.target)
         [] op.op = "last" -> parsed.offset < End
         [] op.op = "prev" -> parsed.offset < original
         [] OTHER          -> FALSE

Parse ==
    /\ pc = "parse"
    /\ it' = ParseNextKey
    /\ IF GoesOn(ParseNextKey) THEN UNCHANGED <<pc, op>> ELSE Return
    /\ UNCHANGED <<block_vars, local_vars, origin>>

-----------------------------------------------------------------------------
IterStep ==
    \/ SeekToFirst \/ SeekToLast \/ NextStep \/ PrevRestart
    \/ SeekStart \/ SearchStep \/ SearchDone
    \/ Parse

Next ==
    \/ \E k \in Keys : Add(k) \/ Call("seek", k)
    \/ Finish
    \/ Call("first", <<>>) \/ Call("last", <<>>)
    \/ Valid /\ (Call("next", <<>>) \/ Call("prev", <<>>))
    \/ IterStep

\* A call runs to its end on the thread that made it.
Spec == Init /\ [][Next]_vars /\ WF_vars(IterStep)

-----------------------------------------------------------------------------
(* Properties *)

\* Beside the types: no restart index an assert of GetRestartPoint refuses.
TypeOK ==
    /\ \A i \in 1 .. Len(entries) :
           /\ entries[i].value \in Keys
           /\ entries[i].shared \in 0 .. Len(entries[i].value)
    /\ \A i \in Points : Point(i) \in 0 .. End
    /\ counter \in 0 .. interval
    /\ pre_key \in Keys \cup {<<>>}
    /\ it.current \in 0 .. End /\ it.offset \in 0 .. End
    /\ pc # "build" /\ Valid => it.restart_index \in Points
    /\ pc \in {"build", "ready", "first", "last", "next", "prev", "seek", "search", "parse"}
    /\ left \in Points /\ right \in Points

\* restart_index_ follows the current entry across restart points, forwards,
\* backwards and after a search: Prev starts from it.
RestartIndexFollows ==
    pc = "ready" /\ Valid =>
        /\ Point(it.restart_index) <= it.current
        /\ \A i \in Points : i > it.restart_index => Point(i) >= it.current

\* Whatever the mix of operations, key_ is rebuilt from shared prefixes to the
\* key that was added with the value shown, and no block the builder wrote is
\* taken for a corrupted one.
RebuildsWhatWasAdded ==
    /\ it.status = "success"
    /\ pc = "ready" /\ Valid => it.key = it.value

\* The keys of the block, and the key shown: during an operation, the one before.
AddedKeys == {entries[i].value : i \in 1 .. Len(entries)}
Shown     == IF op # NoOp THEN origin ELSE IF pc # "build" /\ Valid THEN it.key ELSE <<>>

\* The iterator is a cursor over the keys that were added, in order: through
\* prefix compression, restart points, the backward scan of Prev, and a binary
\* search whose comparisons read past the keys.
Cursor == INSTANCE SortedCursor WITH keys <- AddedKeys, request <- op, shown <- Shown
IsSortedCursor == Cursor!Spec

\* Every operation returns: the loops of Seek, Prev and SeekToLast end.
OperationReturns == op # NoOp ~> op = NoOp
=============================================================================

---------------------------- MODULE SortedCursor ----------------------------
(***************************************************************************)
(* What an Iterator (src/src/db/iterator.h) over a block promises: a       *)
(* cursor over a set of keys in key order, moved by one request at a time. *)
(***************************************************************************)
EXTENDS ByteComparator

CONSTANT Keys

VARIABLES keys,    \* the keys of the block
          shown,   \* key(), or <<>> when the iterator is not Valid
          request  \* the operation in progress: its name and its argument

vars == <<keys, shown, request>>

None == [op |-> "none", target |-> <<>>]

\* The least and the greatest key of a set, <<>> when there is none.
Least(S)    == IF S = {} THEN <<>> ELSE CHOOSE k \in S : \A j \in S : ~ Less(j, k)
Greatest(S) == IF S = {} THEN <<>> ELSE CHOOSE k \in S : \A j \in S : ~ Less(k, j)

Reached ==
    CASE request.op = "first" -> Least(keys)
      [] request.op = "last"  -> Greatest(keys)
      [] request.op = "next"  -> Least({k \in keys : Less(shown, k)})
      [] request.op = "prev"  -> Greatest({k \in keys : Less(k, shown)})
      [] request.op = "seek"  -> Least({k \in keys : ~ Less(k, request.target)})

Init ==
    /\ keys = {}
    /\ shown = <<>>
    /\ request = None

Add(k) ==
    /\ request = None
    /\ shown = <<>>
    /\ keys' = keys \cup {k}
    /\ UNCHANGED <<shown, request>>

Request(op, target) ==
    /\ request = None
    /\ op \in {"next", "prev"} => shown # <<>>
    /\ request' = [op |-> op, target |-> target]
    /\ UNCHANGED <<keys, shown>>

Return ==
    /\ request # None
    /\ shown' = Reached
    /\ request' = None
    /\ UNCHANGED keys

Next ==
    \/ \E k \in Keys : Add(k) \/ Request("seek", k)
    \/ \E op \in {"first", "last", "next", "prev"} : Request(op, <<>>)
    \/ Return

Spec == Init /\ [][Next]_vars
=============================================================================

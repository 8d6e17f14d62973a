---------------------------- MODULE RecencyCache ----------------------------
(***************************************************************************)
(* What ShardCache (src/src/cache/cache.h) promises about which keys it    *)
(* keeps: every shard holds at most Capacity keys, ordered by how recently *)
(* they were inserted or got; only the least recently used key of a full   *)
(* shard ever makes room for another.                                      *)
(***************************************************************************)
EXTENDS Naturals, Sequences, SequencesExt

CONSTANTS Keys, Hash, NumShards, Capacity

Shards     == 0 .. NumShards - 1
ShardOf(k) == Hash[k] % NumShards

VARIABLES order,  \* per shard: its keys, the most recently used first
          last    \* the key of the last operation

vars == <<order, last>>

KeysOf(q)      == {q[i] : i \in 1 .. Len(q)}
Position(q, k) == CHOOSE i \in 1 .. Len(q) : q[i] = k

\* A shard has a key once.
Without(q, k) == IF k \in KeysOf(q) THEN RemoveAt(q, Position(q, k)) ELSE q
Recent(q, k)  == <<k>> \o Without(q, k)

Init ==
    /\ order = [s \in Shards |-> <<>>]
    /\ last \in Keys

Insert(k) ==
    LET s == ShardOf(k)
        q == order[s]
        hit == k \in KeysOf(q)
        room == IF ~ hit /\ Len(q) = Capacity THEN SubSeq(q, 1, Len(q) - 1) ELSE q
    IN  /\ order' = [order EXCEPT ![s] = Recent(room, k)]
        /\ last' = k

Get(k) ==
    LET s == ShardOf(k)
        hit == k \in KeysOf(order[s])
    IN  /\ order' = IF hit THEN [order EXCEPT ![s] = Recent(@, k)] ELSE order
        /\ last' = k

Erase(k) ==
    /\ order' = [order EXCEPT ![ShardOf(k)] = Without(@, k)]
    /\ last' = k

Next == \E k \in Keys : Insert(k) \/ Get(k) \/ Erase(k)

Spec == Init /\ [][Next]_vars
=============================================================================

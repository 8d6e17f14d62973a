----------------------------- MODULE ShardCache -----------------------------
(***************************************************************************)
(* ShardCache (src/src/cache/cache.h) over LruCachePolicy<K, V, MutexLock> *)
(* (src/src/cache/lru.h).  Every operation of a shard runs under the       *)
(* shard's mutex and is one step; Prune locks the shards one after the     *)
(* other.  Clients keep the CacheNode pointers Get returned outside the    *)
(* lock, until they Release them.                                          *)
(*                                                                         *)
(* A std::list iterator is the list element it points to: elements have    *)
(* identities of their own, so that an iterator can go stale.  ttl and     *)
(* last_access_time are written and never read, and are left out.          *)
(***************************************************************************)
EXTENDS Naturals, Sequences, FiniteSets, SequencesExt, Functions

CONSTANTS Keys,
          Hash,       \* std::hash of every key
          Clients,
          NumShards,  \* kShardNum
          Capacity,   \* of each shard
          MaxNodes,   \* bound on the number of Insert calls
          RefModulus  \* 2^32, the range of CacheNode::refs

ASSUME HashAssumption == Hash \in [Keys -> Nat]
ASSUME NumShardsAssumption == NumShards \in Nat \ {0}
ASSUME CapacityAssumption == Capacity \in Nat \ {0}
ASSUME MaxNodesAssumption == MaxNodes \in Nat
ASSUME RefModulusAssumption == RefModulus \in Nat \ {0, 1}

Shards     == 0 .. NumShards - 1
ShardOf(k) == Hash[k] % NumShards      \* std::hash<KeyType>{}(key) % kShardNum
Elems      == 1 .. Capacity + 1
Nodes      == 1 .. MaxNodes
Null       == 0

\* m[k] = v of a std::unordered_map
With(m, k, v) == [x \in DOMAIN m \cup {k} |-> IF x = k THEN v ELSE m[x]]

VARIABLES
    nodes,       \* per shard: nodes_, a list of elements that hold CacheNodes
    index,       \* per shard: index_, from keys to list elements
    wait_erase,  \* per shard: wait_erase_, from keys to CacheNodes
    heap,        \* the CacheNodes allocated so far, in the order of allocation
    freed,       \* those of them that were deleted
    held,        \* per client: the node it got and did not release, or Null
    pruned,      \* per client: the shards its Prune has visited, 0 outside Prune
    last         \* the key of the last operation (for EvictsLeastRecent)

vars == <<nodes, index, wait_erase, heap, freed, held, pruned, last>>

Init ==
    /\ nodes = [s \in Shards |-> <<>>]
    /\ index = [s \in Shards |-> <<>>]
    /\ wait_erase = [s \in Shards |-> <<>>]
    /\ heap = <<>>
    /\ freed = {}
    /\ held = [c \in Clients |-> Null]
    /\ pruned = [c \in Clients |-> 0]
    /\ last \in Keys

-----------------------------------------------------------------------------
(* Reference counts.  A store is what they change: [heap, wait, freed].    *)

Store(s) == [heap |-> heap, wait |-> wait_erase[s], freed |-> freed]

SetStore(s, st) ==
    /\ heap' = st.heap
    /\ wait_erase' = [wait_erase EXCEPT ![s] = st.wait]
    /\ freed' = st.freed

Ref(st, n) == [st EXCEPT !.heap[n].refs = (@ + 1) % RefModulus]

\* One reference fewer; the last one runs destructor_ and deletes the node.
Drop(st, n) ==
    LET refs == (st.heap[n].refs + RefModulus - 1) % RefModulus IN
    IF refs # 0
    THEN [st EXCEPT !.heap[n].refs = refs]
    ELSE [heap  |-> [st.heap EXCEPT ![n].refs = 0],
          wait  |-> Restrict(st.wait, DOMAIN st.wait \ {st.heap[n].key}),
          freed |-> st.freed \cup {n}]

\* Mutant: the guard of Unref is the other way round.
UnrefNode(st, n) == IF n # Null THEN Drop(st, n) ELSE st

\* if (!node) { ... }: the count of a node is never taken down.
Unref(st, n) == IF n = Null THEN Drop(st, n) ELSE st

MoveToEraseContainer(st, n) ==
    LET k == st.heap[n].key IN
    IF k \in DOMAIN st.wait THEN st ELSE [st EXCEPT !.wait = With(@, k, n)]

FinishErase(st, n) ==
    Unref(MoveToEraseContainer([st EXCEPT !.heap[n].in_cache = FALSE], n), n)

-----------------------------------------------------------------------------
(* The list and the index of one shard.                                    *)

ElemsOf(q) == {q[i].elem : i \in 1 .. Len(q)}

FreshElem(q) == CHOOSE e \in Elems : e \notin ElemsOf(q)

\* *(index_[k])
Position(s, k) == CHOOSE i \in 1 .. Len(nodes[s]) : nodes[s][i].elem = index[s][k]
NodeAt(s, k)   == nodes[s][Position(s, k)].node

PushFront(q, e, n) == <<[elem |-> e, node |-> n]>> \o q

\* Mutant: a full shard is noticed one node too late.
OverFull(s) == Len(nodes[s]) > Capacity

Full(s) == Len(nodes[s]) = Capacity

\* Mutant: the node with the new value stays where the old one was.
LeaveInPlace(q, p) == q

\* nodes_.splice(nodes_.begin(), nodes_, index_[key]): the element is kept.
SpliceToFront(q, p) == <<q[p]>> \o RemoveAt(q, p)

\* Mutant: the index keeps the iterator of the erased element.
KeepIterator(s, k, e) == index

\* index_[node->key] = nodes_.begin() after erase and push_front.
Reindex(s, k, e) == [index EXCEPT ![s][k] = e]

-----------------------------------------------------------------------------
(* The operations.                                                         *)

\* The CacheNode every Insert builds before it looks the key up; its value is
\* the number of the Insert call.
NewNode(k) == [key |-> k, value |-> Len(heap) + 1, refs |-> 1, in_cache |-> TRUE]

\* The key is not cached: a full shard evicts its last node first.
InsertMiss(k) ==
    LET s     == ShardOf(k)
        n     == Len(heap) + 1
        tail  == nodes[s][Len(nodes[s])].node
        rest  == IF Full(s) THEN Front(nodes[s]) ELSE nodes[s]
        kept  == IF Full(s) THEN DOMAIN index[s] \ {heap[tail].key} ELSE DOMAIN index[s]
        e     == FreshElem(nodes[s])
        built == [Store(s) EXCEPT !.heap = Append(@, NewNode(k))]
    IN  /\ k \notin DOMAIN index[s]
        /\ nodes' = [nodes EXCEPT ![s] = PushFront(rest, e, n)]
        /\ index' = [index EXCEPT ![s] = With(Restrict(@, kept), k, e)]
        /\ SetStore(s, IF Full(s) THEN FinishErase(built, tail) ELSE built)

\* The key is cached: its old node is finished and moves to the front; the new
\* node is stored nowhere.
InsertHit(k) ==
    LET s == ShardOf(k)
        p == Position(s, k)
    IN  /\ k \in DOMAIN index[s]
        /\ SetStore(s, FinishErase([Store(s) EXCEPT !.heap = Append(@, NewNode(k))],
                                   NodeAt(s, k)))
        /\ nodes' = [nodes EXCEPT ![s] = SpliceToFront(@, p)]
        /\ UNCHANGED index

Insert(c, k) ==
    /\ pruned[c] = 0
    /\ Len(heap) < MaxNodes
    /\ InsertMiss(k) \/ InsertHit(k)
    /\ last' = k
    /\ UNCHANGED <<held, pruned>>

\* A client holds at most one node at a time.
GetHit(c, k) ==
    LET s == ShardOf(k)
        n == NodeAt(s, k)
        e == FreshElem(nodes[s])
    IN  /\ k \in DOMAIN index[s]
        /\ nodes' = [nodes EXCEPT ![s] = PushFront(RemoveAt(@, Position(s, k)), e, n)]
        /\ index' = Reindex(s, heap[n].key, e)
        /\ SetStore(s, Ref(Store(s), n))
        /\ held' = [held EXCEPT ![c] = n]
        /\ last' = k

GetMiss(c, k) ==
    /\ k \notin DOMAIN index[ShardOf(k)]
    /\ last' = k
    /\ UNCHANGED <<nodes, index, wait_erase, heap, freed, held>>

Get(c, k) ==
    /\ pruned[c] = 0
    /\ held[c] = Null
    /\ GetHit(c, k) \/ GetMiss(c, k)
    /\ UNCHANGED pruned

Release(c) ==
    LET s == ShardOf(heap[held[c]].key) IN
    /\ pruned[c] = 0
    /\ held[c] # Null
    /\ SetStore(s, Unref(Store(s), held[c]))
    /\ held' = [held EXCEPT ![c] = Null]
    /\ UNCHANGED <<nodes, index, pruned, last>>

EraseHit(k) ==
    LET s == ShardOf(k) IN
    /\ k \in DOMAIN index[s]
    /\ SetStore(s, FinishErase(Store(s), NodeAt(s, k)))
    /\ nodes' = [nodes EXCEPT ![s] = RemoveAt(@, Position(s, k))]
    /\ index' = [index EXCEPT ![s] = Restrict(@, DOMAIN @ \ {k})]
    /\ last' = k

EraseMiss(k) ==
    /\ k \notin DOMAIN index[ShardOf(k)]
    /\ last' = k
    /\ UNCHANGED <<nodes, index, wait_erase, heap, freed>>

Erase(c, k) ==
    /\ pruned[c] = 0
    /\ EraseHit(k) \/ EraseMiss(k)
    /\ UNCHANGED <<held, pruned>>

\* LruCachePolicy::Prune: every node of wait_erase_ loses a reference.  They are
\* different nodes, so that their order does not matter.
PruneShard(s) ==
    LET waiting    == wait_erase[s]
        dropped(n) == Unref(Store(s), n)
        stays(k)   == k \in DOMAIN dropped(waiting[k]).wait
    IN  /\ heap' = [n \in DOMAIN heap |->
                      IF n \in Range(waiting) THEN dropped(n).heap[n] ELSE heap[n]]
        /\ wait_erase' = [wait_erase EXCEPT ![s] = Restrict(@, {k \in DOMAIN @ : stays(k)})]
        /\ freed' = freed \cup UNION {dropped(n).freed : n \in Range(waiting)}

\* The next shard of the loop in ShardCache::Prune.
Prune(c) ==
    /\ PruneShard(pruned[c])
    /\ pruned' = [pruned EXCEPT ![c] = (@ + 1) % NumShards]
    /\ UNCHANGED <<nodes, index, held, last>>

ClientStep(c) ==
    \/ \E k \in Keys : Insert(c, k) \/ Get(c, k) \/ Erase(c, k)
    \/ Release(c) \/ Prune(c)

Next == \E c \in Clients : ClientStep(c)

Spec == Init /\ [][Next]_vars

-----------------------------------------------------------------------------
(* Properties *)

NodesIn(s) == {nodes[s][i].node : i \in 1 .. Len(nodes[s])}

TypeOK ==
    /\ \A n \in 1 .. Len(heap) :
           heap[n] \in [key : Keys, value : Nodes, refs : 0 .. RefModulus - 1, in_cache : BOOLEAN]
    /\ freed \subseteq 1 .. Len(heap)
    /\ \A s \in Shards :
           /\ Len(nodes[s]) <= Capacity
           /\ \A i \in 1 .. Len(nodes[s]) :
                  nodes[s][i] \in [elem : Elems, node : 1 .. Len(heap)]
           /\ DOMAIN index[s] \subseteq Keys
           /\ DOMAIN wait_erase[s] \subseteq Keys
    /\ held \in [Clients -> {Null} \cup 1 .. Len(heap)]
    /\ pruned \in [Clients -> Shards]
    /\ last \in Keys

\* The index and the list of a shard agree after any mix of operations: every
\* listed node sits in an element of its own, its key belongs to this shard and
\* the iterator in index_ is the element that holds it now, never a stale one.
IndexMatchesList ==
    \A s \in Shards :
        /\ Cardinality(DOMAIN index[s]) = Len(nodes[s])
        /\ Cardinality(ElemsOf(nodes[s])) = Len(nodes[s])
        /\ \A i \in 1 .. Len(nodes[s]) :
               LET k == heap[nodes[s][i].node].key IN
               /\ ShardOf(k) = s
               /\ k \in DOMAIN index[s]
               /\ index[s][k] = nodes[s][i].elem

\* Nobody is left with a deleted node: neither a client that holds it, however
\* often the shard was pruned since, nor the list, nor wait_erase_.
NoDanglingNode ==
    /\ \A c \in Clients : held[c] \notin freed
    /\ \A s \in Shards :
           /\ NodesIn(s) \cap freed = {}
           /\ \A k \in DOMAIN wait_erase[s] : wait_erase[s][k] \notin freed

\* The keys of each shard are evicted in least-recently-used order, whatever
\* the nodes, elements and counts behind them do.
Recency == INSTANCE RecencyCache
    WITH order <- [s \in Shards |->
                     [i \in 1 .. Len(nodes[s]) |-> heap[nodes[s][i].node].key]]
EvictsLeastRecent == Recency!Spec

\* "Update the node's value and put it in the first position" (the comment at
\* src/src/cache/lru.h:55-56): a cached key has the value inserted last.
ValueIsUpdated ==
    \A s \in Shards : \A k \in DOMAIN index[s] :
        heap[NodeAt(s, k)].value = Max({n \in 1 .. Len(heap) : heap[n].key = k})
=============================================================================

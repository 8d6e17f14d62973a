----------------------------- MODULE BlockReader -----------------------------
(***************************************************************************)
(* Table::BlockReader (src/src/table/table.cpp) and the cleanup list of    *)
(* its iterators (src/src/db/iterator.cpp) over ShardCache.  A cache of     *)
(* blocks gets them from BlockReader alone: when some clients are readers, *)
(* the others only erase and prune.  Without readers it is any cache.      *)
(*                                                                         *)
(* A key is a cache_id, and a block is named by the value its Insert has.  *)
(* Between Get and Insert the cache is unlocked and the others go on.  A   *)
(* reader has one iterator at a time, whose list has one cleanup.          *)
(***************************************************************************)
EXTENDS ShardCache

VARIABLES
    readers,  \* the clients that call BlockReader
    reading,  \* per client: the key it missed and reads from the table, or Null
    iter,     \* per client: the block of its iterator, and what cleanup does
    deleted   \* the blocks that DeleteBlock deleted

reader_vars == <<readers, reading, iter, deleted>>

NoIterator == [block |-> Null, cleanup |-> "none"]

ReaderInit ==
    /\ Init
    /\ readers \in SUBSET Clients
    /\ reading = [c \in Clients |-> Null]
    /\ iter = [c \in Clients |-> NoIterator]
    /\ deleted = {}

\* Mutant: the block of a hit is deleted like that of a miss.
AlwaysDelete(cache_handle) == "DeleteBlock"

\* The cleanup that BlockReader registers.
Cleanup(cache_handle) == IF cache_handle = Null THEN "DeleteBlock" ELSE "ReleaseBlock"

NewIterator(c, block, cache_handle) ==
    iter' = [iter EXCEPT ![c] = [block |-> block, cleanup |-> Cleanup(cache_handle)]]

LookUp(c, k) ==
    /\ reading[c] = Null /\ iter[c] = NoIterator
    /\ Get(c, k)
    /\ \/ /\ held'[c] # Null
          /\ NewIterator(c, heap[held'[c]].value, held'[c])
          /\ UNCHANGED reading
       \/ /\ held'[c] = Null
          /\ reading' = [reading EXCEPT ![c] = k]
          /\ UNCHANGED iter
    /\ UNCHANGED <<readers, deleted>>

\* ReadBlock succeeded: the block goes to the cache, and to the iterator.
InsertBlock(c) ==
    /\ reading[c] # Null
    /\ Insert(c, reading[c])
    /\ NewIterator(c, heap'[Len(heap')].value, held[c])
    /\ reading' = [reading EXCEPT ![c] = Null]
    /\ UNCHANGED <<readers, deleted>>

\* ReadBlock failed: NewErrorIterator has no cleanup.
ReadFails(c) ==
    /\ reading[c] # Null
    /\ reading' = [reading EXCEPT ![c] = Null]
    /\ UNCHANGED <<vars, readers, iter, deleted>>

\* ReleaseBlock hands the cache to Release in place of the node.  What Unref
\* gets is no node and not null, and nothing happens: the reference that Get
\* took is never returned.
DeleteIterator(c) ==
    /\ iter[c] # NoIterator
    /\ deleted' = IF iter[c].cleanup = "DeleteBlock" THEN deleted \cup {iter[c].block} ELSE deleted
    /\ iter' = [iter EXCEPT ![c] = NoIterator]
    /\ held' = [held EXCEPT ![c] = Null]
    /\ UNCHANGED <<nodes, index, wait_erase, heap, freed, pruned, last, readers, reading>>

ReaderStep(c) ==
    \/ \E k \in Keys : LookUp(c, k)
    \/ InsertBlock(c) \/ ReadFails(c) \/ DeleteIterator(c)

MaintenanceStep(c) == (\E k \in Keys : Erase(c, k)) \/ Prune(c)

ReaderNext ==
    \E c \in Clients :
        \/ c \in readers /\ ReaderStep(c)
        \/ c \notin readers /\ MaintenanceStep(c) /\ UNCHANGED reader_vars
        \/ readers = {} /\ ClientStep(c) /\ UNCHANGED reader_vars

ReaderSpec == ReaderInit /\ [][ReaderNext]_<<vars, reader_vars>>

-----------------------------------------------------------------------------
(* Properties *)

\* destructor_ is DeleteCachedBlock, and runs with the node.
DeletedByCache == {heap[n].value : n \in freed}

Owned(c) == IF iter[c].cleanup = "DeleteBlock" THEN {iter[c].block} ELSE {}

\* A block is deleted exactly once, with the iterator of the miss that read it,
\* although the cache and later hits have it too, two readers may miss the same
\* key, and the cache may evict the block or never have taken it.
BlockHasOneOwner ==
    /\ deleted \cap DeletedByCache = {}
    /\ \A c \in Clients : Owned(c) \cap (deleted \cup DeletedByCache) = {}
    /\ \A c, d \in Clients : c # d => Owned(c) \cap Owned(d) = {}
    /\ readers # {} =>
           DOMAIN heap = deleted \cup DeletedByCache \cup UNION {Owned(c) : c \in Clients}

\* No node is deleted while anybody has it, and no block twice.
NothingDeletedInUse == NoDanglingNode /\ BlockHasOneOwner
=============================================================================

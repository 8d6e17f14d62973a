--------------------------- MODULE FreeListAlloc ----------------------------
(***************************************************************************)
(* SimpleFreeListAlloc (src/src/memory/alloc.cpp): blocks of a few fixed   *)
(* sizes, taken from free lists, which are filled from a pool, which grows *)
(* by malloc.  One thread uses an allocator.                               *)
(*                                                                         *)
(* Sizes and addresses count units of kAlignBytes, to which M_Roundup      *)
(* rounds every request.  memory_usage_ is only reported and is left out.  *)
(* Reallocate is a Deallocate followed by an Allocate.                     *)
(***************************************************************************)
EXTENDS Naturals, Sequences, FiniteSets, FiniteSetsExt, SequencesExt

CONSTANTS SmallUnits,  \* kSmallObjectBytes / kAlignBytes
          BlockCount,  \* kInitBlockCount
          MaxUnits,    \* bound on the size of a request
          Memory,      \* bound on the units malloc hands out
          MaxLive      \* bound on the blocks clients have at a time

ASSUME SmallUnitsAssumption == SmallUnits \in Nat \ {0}
ASSUME BlockCountAssumption == BlockCount \in Nat \ {0}
ASSUME MaxUnitsAssumption   == MaxUnits \in Nat /\ MaxUnits >= SmallUnits
ASSUME MemoryAssumption     == Memory \in Nat \ {0}

VARIABLES
    start, end,  \* free_list_start_pos_, free_list_end_pos_: the pool
    heap_size,   \* heap_size_
    freelist,    \* freelist_, by the size of its blocks
    live,        \* the blocks clients have
    chunks,      \* what malloc returned and free did not take back
    top          \* the next address malloc returns

vars == <<start, end, heap_size, freelist, live, chunks, top>>

Sizes == 1 .. SmallUnits
Block(a, n) == [addr |-> a, units |-> n]

Init ==
    /\ start = 0 /\ end = 0
    /\ heap_size = 0
    /\ freelist = [n \in Sizes |-> <<>>]
    /\ live = {}
    /\ chunks = {}
    /\ top = 1

-----------------------------------------------------------------------------
(* M_ChunkAlloc and M_Refill                                               *)

\* Mutant: the full number of blocks is taken whatever the pool holds.
AllBlocks(units, n) == BlockCount

\* nobjs: what was asked for, or as many as the pool has room for.
Fitting(units, n) == Min({BlockCount, units \div n})

\* Mutant: the block that is returned stays on the list.
LinkFromFirst(a, n, count) == [i \in 1 .. count - 1 |-> a + (i - 1) * n]

\* All blocks but the one that is returned, in the order of their addresses.
LinkRest(a, n, count) == [i \in 1 .. count - 1 |-> a + i * n]

\* Blocks of n units from a pool that starts at s, ends at e and has room.
Refill(s, e, n, lists) ==
    LET count == Fitting(e - s, n) IN
    /\ start' = s + count * n
    /\ end' = e
    /\ freelist' = [lists EXCEPT ![n] = LinkRest(s, n, count)]
    /\ live' = live \cup {Block(s, n)}

\* Mutant: what is left of the pool is forgotten.
ForgetFragment == freelist

\* What is left of the pool, too small for the request, becomes a free block.
KeepFragment ==
    IF end > start THEN [freelist EXCEPT ![end - start] = <<start>> \o @] ELSE freelist

\* 2 * total_bytes + M_Roundup(heap_size_ >> 4), of bytes, in units of 8.
UnitsToGet(n) == 2 * n * BlockCount + (heap_size \div 2 + 7) \div 8

-----------------------------------------------------------------------------
(* Allocate, by where the block comes from                                 *)

AllocateLarge(n) ==
    /\ n > SmallUnits
    /\ top + n <= Memory
    /\ live' = live \cup {Block(top, n)}
    /\ chunks' = chunks \cup {Block(top, n)}
    /\ top' = top + n
    /\ UNCHANGED <<start, end, heap_size, freelist>>

AllocateListed(n) ==
    /\ n \in Sizes
    /\ freelist[n] # <<>>
    /\ live' = live \cup {Block(Head(freelist[n]), n)}
    /\ freelist' = [freelist EXCEPT ![n] = Tail(@)]
    /\ UNCHANGED <<start, end, heap_size, chunks, top>>

AllocateFromPool(n) ==
    /\ n \in Sizes
    /\ freelist[n] = <<>>
    /\ end - start >= n
    /\ Refill(start, end, n, freelist)
    /\ UNCHANGED <<heap_size, chunks, top>>

\* malloc succeeds, at once or after the search through the free lists.
AllocateFromHeap(n) ==
    LET units == UnitsToGet(n) IN
    /\ n \in Sizes
    /\ freelist[n] = <<>>
    /\ end - start < n
    /\ top + units <= Memory
    /\ Refill(top, top + units, n, KeepFragment)
    /\ chunks' = chunks \cup {Block(top, units)}
    /\ heap_size' = heap_size + units
    /\ top' = top + units

\* malloc fails: the smallest free block that is large enough becomes the pool.
\* Without one, malloc is called again; a second failure ends the program.
AllocateFromLarger(n) ==
    LET lists  == KeepFragment
        larger == {m \in n .. SmallUnits : lists[m] # <<>>}
        m      == Min(larger)
    IN  /\ n \in Sizes
        /\ freelist[n] = <<>>
        /\ end - start < n
        /\ larger # {}
        /\ Refill(Head(lists[m]), Head(lists[m]) + m, n,
                  [lists EXCEPT ![m] = Tail(@)])
        /\ UNCHANGED <<heap_size, chunks, top>>

Allocate(n) ==
    \/ AllocateLarge(n) \/ AllocateListed(n) \/ AllocateFromPool(n)
    \/ AllocateFromHeap(n) \/ AllocateFromLarger(n)

\* The client passes the address and the size of a block it has.
Deallocate(b) ==
    /\ b \in live
    /\ live' = live \ {b}
    /\ IF b.units > SmallUnits
       THEN chunks' = chunks \ {b} /\ UNCHANGED freelist
       ELSE freelist' = [freelist EXCEPT ![b.units] = <<b.addr>> \o @] /\ UNCHANGED chunks
    /\ UNCHANGED <<start, end, heap_size, top>>

Next ==
    \/ Cardinality(live) < MaxLive /\ \E n \in 1 .. MaxUnits : Allocate(n)
    \/ \E b \in live : Deallocate(b)

Spec == Init /\ [][Next]_vars

-----------------------------------------------------------------------------
(* Properties *)

TypeOK ==
    /\ start \in Nat /\ end \in Nat /\ start <= end
    /\ heap_size \in 0 .. Memory
    /\ \A n \in Sizes : freelist[n] \in Seq(1 .. Memory)
    /\ \A b \in live \cup chunks : b.addr \in 1 .. Memory /\ b.units \in 1 .. Memory

Units(b)   == b.addr .. b.addr + b.units - 1
Covered(B) == UNION {Units(b) : b \in B}

Listed == UNION {{n} \X DOMAIN freelist[n] : n \in Sizes}
ListedBlock(p) == Block(freelist[p[1]][p[2]], p[1])

\* No unit of memory has two owners among the blocks clients have, the entries
\* of the free lists and the pool, whatever the sequence of calls: fragments,
\* split larger blocks and freed blocks included.
NoOverlap ==
    /\ \A b, c \in live : b # c => Units(b) \cap Units(c) = {}
    /\ \A p, q \in Listed : p # q => Units(ListedBlock(p)) \cap Units(ListedBlock(q)) = {}
    /\ \A b \in live, p \in Listed : Units(b) \cap Units(ListedBlock(p)) = {}
    /\ \A b \in live : Units(b) \cap start .. end - 1 = {}
    /\ \A p \in Listed : Units(ListedBlock(p)) \cap start .. end - 1 = {}

\* All the memory malloc returned, and no other, is with a client, on a free
\* list or in the pool: nothing leaks when the pool moves on.
NothingLost ==
    Covered(live) \cup Covered({ListedBlock(p) : p \in Listed}) \cup start .. end - 1
    = Covered(chunks)

\* Every unit of memory that malloc returned has exactly one owner.
EveryUnitHasOneOwner == NoOverlap /\ NothingLost
=============================================================================

-------------------------------- MODULE Arena --------------------------------
(***************************************************************************)
(* SimpleVectorAlloc (src/src/memory/area.cpp), the arena that hands out   *)
(* the nodes of a skip list from blocks of twice the size of the request   *)
(* that found too little left.  One thread uses it; nothing is given back. *)
(*                                                                         *)
(* new[] returns aligned addresses, with a gap of Align bytes between two  *)
(* blocks.  A request of no bytes is left out: with alloc_ptr_ unaligned   *)
(* its recursion would not end.                                            *)
(***************************************************************************)
EXTENDS Naturals, FiniteSets, FiniteSetsExt

CONSTANTS Align,       \* 8
          MaxRequest,  \* bound on the bytes of a request
          MaxRequests  \* bound on the number of requests

ASSUME AlignAssumption == Align \in Nat \ {0}

Null == 0

VARIABLES
    alloc_ptr,              \* alloc_ptr_
    alloc_bytes_remaining,  \* alloc_bytes_remaining_
    blocks,                 \* blocks_: from, to of what new[] returned
    allocations,            \* what Allocate returned
    request                 \* the bytes of the call in progress, 0 for none

arena_vars == <<alloc_ptr, alloc_bytes_remaining, blocks, allocations, request>>

Span(a, n) == [from |-> a, to |-> a + n - 1]

ArenaInit ==
    /\ alloc_ptr = Null /\ alloc_bytes_remaining = 0
    /\ blocks = {} /\ allocations = {}
    /\ request = 0

\* Mutant: the padding is the distance from the last boundary.
SlopBehind(p) == p % Align

\* slop: the bytes from alloc_ptr_ to the next aligned address.
Slop(p) == (Align - (p % Align)) % Align

\* Mutant: the padding is not counted.
OnlyBytes(bytes) == bytes

Needed(bytes) == bytes + Slop(alloc_ptr)

\* Mutant: the padding is forgotten in the test alone.
FitsUnpadded(bytes) == bytes <= alloc_bytes_remaining

Fits(bytes) == Needed(bytes) <= alloc_bytes_remaining

Request(bytes) ==
    /\ request = 0
    /\ Cardinality(allocations) < MaxRequests
    /\ request' = bytes
    /\ UNCHANGED <<alloc_ptr, alloc_bytes_remaining, blocks, allocations>>

AllocateFitting ==
    /\ request # 0
    /\ Fits(request)
    /\ allocations' = allocations \cup {Span(alloc_ptr + Slop(alloc_ptr), request)}
    /\ alloc_ptr' = alloc_ptr + Needed(request)
    /\ alloc_bytes_remaining' = alloc_bytes_remaining - Needed(request)
    /\ request' = 0
    /\ UNCHANGED blocks

\* External: what new[] returns.
NextBlock == Align * (2 + Max({b.to : b \in blocks} \cup {0}) \div Align)

AllocateNewBlock(block_bytes) == Span(NextBlock, block_bytes)

\* AllocateFallback; Allocate then calls itself.  The block is added to what
\* remains even when alloc_ptr_ stays in an older one.
AllocateFallback ==
    /\ request # 0
    /\ ~ Fits(request)
    /\ blocks' = blocks \cup {AllocateNewBlock(2 * request)}
    /\ alloc_ptr' = IF alloc_ptr = Null THEN NextBlock ELSE alloc_ptr
    /\ alloc_bytes_remaining' = alloc_bytes_remaining + 2 * request
    /\ UNCHANGED <<allocations, request>>

ArenaNext ==
    \/ \E bytes \in 1 .. MaxRequest : Request(bytes)
    \/ AllocateFitting
    \/ AllocateFallback

ArenaSpec == ArenaInit /\ [][ArenaNext]_arena_vars

-----------------------------------------------------------------------------
(* Properties *)

\* No two nodes share a byte.
NodesApart ==
    \A a, b \in allocations : a # b => a.to < b.from \/ b.to < a.from

\* Nodes hold atomic pointers: they begin at aligned addresses, whatever the
\* sizes of those before them.
NodesAligned == \A a \in allocations : a.from % Align = 0

\* As long as the first block serves, nodes lie inside it: the count of what
\* remains is right about the padding.  A second block breaks this, because
\* alloc_ptr_ does not move to it.
InsideFirstBlock ==
    Cardinality(blocks) = 1 =>
        \A a \in allocations, b \in blocks : b.from <= a.from /\ a.to <= b.to

\* What Allocate promises of the nodes of a skip list.
NodesAreSound == NodesApart /\ NodesAligned /\ InsideFirstBlock
=============================================================================

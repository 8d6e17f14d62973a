------------------------------ MODULE SkipList ------------------------------
(***************************************************************************)
(* The skip list behind the memtable, src/src/db/skiplist.h: one writer    *)
(* thread runs Insert, any number of readers run Contains, and there is no *)
(* lock.  A step is one access to memory the threads share: a load or a    *)
(* store of cur_height_, or of a next_ pointer (with the comparison of the *)
(* key found there, which never changes).  A store is seen by every thread *)
(* at once and in program order; SkipListRelaxed drops that assumption.    *)
(*                                                                         *)
(* A node is named by its key, which only its Insert ever allocates; the   *)
(* list is finite, so keys are numbered in comparator order.               *)
(***************************************************************************)
EXTENDS Naturals

CONSTANTS MaxKey,     \* the keys are 1 .. MaxKey
          MaxHeight,  \* SkipListOption::kMaxHeight
          Writer,     \* the thread that inserts
          Readers     \* the threads that look keys up

ASSUME MaxKeyAssumption == MaxKey \in Nat \ {0}
ASSUME MaxHeightAssumption == MaxHeight \in Nat \ {0}
ASSUME WriterAssumption == Writer \notin Readers

Threads == {Writer} \cup Readers
Keys    == 1 .. MaxKey
HeadNode == 0                   \* head_
Nodes   == {HeadNode} \cup Keys
Nil     == MaxKey + 1           \* nullptr: after every key
Junk    == MaxKey + 2           \* a next_ entry NewNode left uninitialised
Levels  == 0 .. MaxHeight - 1

VARIABLES
    cur_height,  \* cur_height_
    next,        \* next[l][n]: node n's next_[l]
    tower,       \* tower[k]: length of k's next_ array, 0 until k is allocated
    pc,          \* per thread: where it is in its call
    key,         \* per thread: the key of its current or last call
    cur,         \* per thread: cur of FindGreaterOrEqual
    level,       \* per thread: level of FindGreaterOrEqual
    prev,        \* the writer's prev[]
    index,       \* the writer's loop index
    answer       \* per reader: what its last Contains returned

shared == <<cur_height, next, tower>>
walk   == <<cur, level>>
vars   == <<cur_height, next, tower, pc, key, cur, level, prev, index, answer>>

Init ==
    /\ cur_height = 1
    /\ next = [l \in Levels |-> [n \in Nodes |-> IF n = HeadNode THEN Nil ELSE Junk]]
    /\ tower = [k \in Keys |-> 0]
    /\ pc = [t \in Threads |-> "idle"]
    /\ key = [t \in Threads |-> 1]
    /\ cur = [t \in Threads |-> HeadNode]
    /\ level = [t \in Threads |-> 0]
    /\ prev = [l \in Levels |-> Nil]
    /\ index = 0
    /\ answer = [r \in Readers |-> FALSE]

-----------------------------------------------------------------------------
(* FindGreaterOrEqual, run by Insert and by Contains.                      *)

\* Insert(k) by the writer, whose prev[] starts as nullptrs, or Contains(k) by a
\* reader.
Call(t, k) ==
    /\ pc[t] = "idle"
    /\ pc' = [pc EXCEPT ![t] = "start"]
    /\ key' = [key EXCEPT ![t] = k]
    /\ prev' = IF t = Writer THEN [l \in Levels |-> Nil] ELSE prev
    /\ UNCHANGED <<shared, walk, index, answer>>

\* cur = head_; level = GetMaxHeight() - 1.
LoadHeight(t) ==
    /\ pc[t] = "start"
    /\ pc' = [pc EXCEPT ![t] = "walk"]
    /\ cur' = [cur EXCEPT ![t] = HeadNode]
    /\ level' = [level EXCEPT ![t] = cur_height - 1]
    /\ UNCHANGED <<shared, key, prev, index, answer>>

\* Mutant: the comparison admits the key itself.
KeyIsAfterOrAtNode(k, n) == n # Nil /\ n <= k

KeyIsAfterNode(k, n) == n # Nil /\ n < k

Ahead(t) == next[level[t]][cur[t]]    \* cur->Next(level)

Forward(t) ==
    /\ pc[t] = "walk"
    /\ KeyIsAfterNode(key[t], Ahead(t))
    /\ cur' = [cur EXCEPT ![t] = Ahead(t)]
    /\ UNCHANGED <<shared, pc, key, level, prev, index, answer>>

\* if (prev != NULL) prev[level] = cur: only Insert passes an array.
RecordPrev(t) ==
    prev' = IF t = Writer THEN [prev EXCEPT ![level[t]] = cur[t]] ELSE prev

\* Mutant: the level is not lowered.
DownNowhere(t) ==
    /\ pc[t] = "walk"
    /\ ~ KeyIsAfterNode(key[t], Ahead(t))
    /\ level[t] > 0
    /\ RecordPrev(t)
    /\ UNCHANGED <<shared, pc, key, walk, index, answer>>

Down(t) ==
    /\ pc[t] = "walk"
    /\ ~ KeyIsAfterNode(key[t], Ahead(t))
    /\ level[t] > 0
    /\ level' = [level EXCEPT ![t] = @ - 1]
    /\ RecordPrev(t)
    /\ UNCHANGED <<shared, pc, key, cur, index, answer>>

AtBottom(t) ==
    /\ pc[t] = "walk"
    /\ ~ KeyIsAfterNode(key[t], Ahead(t))
    /\ level[t] = 0

-----------------------------------------------------------------------------
(* Contains *)

\* Mutant: the node found is not compared with the key.
ReturnContainsAnyNode(r) ==
    /\ AtBottom(r)
    /\ answer' = [answer EXCEPT ![r] = Ahead(r) # Nil]
    /\ pc' = [pc EXCEPT ![r] = "idle"]
    /\ UNCHANGED <<shared, key, walk, prev, index>>

ReturnContains(r) ==
    /\ AtBottom(r)
    /\ answer' = [answer EXCEPT ![r] = Ahead(r) # Nil /\ Ahead(r) = key[r]]
    /\ pc' = [pc EXCEPT ![r] = "idle"]
    /\ UNCHANGED <<shared, key, walk, prev, index>>

-----------------------------------------------------------------------------
(* Insert *)

FoundPlace ==
    /\ AtBottom(Writer)
    /\ RecordPrev(Writer)
    /\ pc' = [pc EXCEPT ![Writer] = IF Ahead(Writer) = key[Writer]
                                    THEN "idle"      \* has existed
                                    ELSE "allocate"]
    /\ UNCHANGED <<shared, key, walk, index, answer>>

\* Mutant: the bound of the loop in RandomHeight is off by one.
RandomHeightsTooTall == 1 .. MaxHeight + 1

RandomHeights == 1 .. MaxHeight    \* what RandomHeight may return

\* Mutant: head_ is not the predecessor on the levels the tower adds.
AllocateWithoutHead(h) ==
    /\ pc[Writer] = "allocate"
    /\ cur_height' = IF h > cur_height THEN h ELSE cur_height
    /\ tower' = [tower EXCEPT ![key[Writer]] = h]
    /\ index' = 0
    /\ pc' = [pc EXCEPT ![Writer] = "fill"]
    /\ UNCHANGED <<next, key, walk, prev, answer>>

\* RandomHeight, the store to cur_height_ it may cause, and NewNode, whose
\* next_ entries start as whatever the arena held.
Allocate(h) ==
    /\ pc[Writer] = "allocate"
    /\ prev' = [l \in Levels |-> IF l >= cur_height /\ l < h THEN HeadNode ELSE prev[l]]
    /\ cur_height' = IF h > cur_height THEN h ELSE cur_height
    /\ tower' = [tower EXCEPT ![key[Writer]] = h]
    /\ index' = 0
    /\ pc' = [pc EXCEPT ![Writer] = "fill"]
    /\ UNCHANGED <<next, key, walk, answer>>

\* Mutant: the new node is taken for the last one of its level.
FillNextWithNil ==
    /\ pc[Writer] = "fill"
    /\ next' = [next EXCEPT ![index][key[Writer]] = Nil]
    /\ pc' = [pc EXCEPT ![Writer] = "link"]
    /\ UNCHANGED <<cur_height, tower, key, walk, prev, index, answer>>

\* new_node->NoBarrier_SetNext(index, prev[index]->NoBarrier_Next(index))
FillNext ==
    /\ pc[Writer] = "fill"
    /\ next' = [next EXCEPT ![index][key[Writer]] = next[index][prev[index]]]
    /\ pc' = [pc EXCEPT ![Writer] = "link"]
    /\ UNCHANGED <<cur_height, tower, key, walk, prev, index, answer>>

\* Mutant: the loop does not advance.
LinkSameLevel ==
    /\ pc[Writer] = "link"
    /\ next' = [next EXCEPT ![index][prev[index]] = key[Writer]]
    /\ pc' = [pc EXCEPT ![Writer] = IF index < tower[key[Writer]]
                                    THEN "fill" ELSE "idle"]
    /\ UNCHANGED <<cur_height, tower, key, walk, prev, index, answer>>

\* prev[index]->NoBarrier_SetNext(index, new_node), then ++index and the test.
Link ==
    /\ pc[Writer] = "link"
    /\ next' = [next EXCEPT ![index][prev[index]] = key[Writer]]
    /\ index' = index + 1
    /\ pc' = [pc EXCEPT ![Writer] = IF index + 1 < tower[key[Writer]]
                                    THEN "fill" ELSE "idle"]
    /\ UNCHANGED <<cur_height, tower, key, walk, prev, answer>>

-----------------------------------------------------------------------------
WalkStep(t) == LoadHeight(t) \/ Forward(t) \/ Down(t)

InsertStep ==
    \/ WalkStep(Writer)
    \/ FoundPlace
    \/ \E h \in RandomHeights : Allocate(h)
    \/ FillNext
    \/ Link

ContainsStep(r) == WalkStep(r) \/ ReturnContains(r)

Next ==
    \/ \E t \in Threads, k \in Keys : Call(t, k)
    \/ InsertStep
    \/ \E r \in Readers : ContainsStep(r)

Spec == Init /\ [][Next]_vars

\* The operating system runs every thread that has not returned; whether
\* a caller makes another call is up to the caller.
Fairness == WF_vars(InsertStep) /\ \A r \in Readers : WF_vars(ContainsStep(r))

FairSpec == Spec /\ Fairness
-----------------------------------------------------------------------------
(* Properties *)

TypeOK ==
    /\ cur_height \in 1 .. MaxHeight
    /\ next \in [Levels -> [Nodes -> Keys \cup {Nil, Junk}]]
    /\ tower \in [Keys -> 0 .. MaxHeight]
    /\ pc \in [Threads -> {"idle", "start", "walk", "allocate", "fill", "link"}]
    /\ \A r \in Readers : pc[r] \in {"idle", "start", "walk"}
    /\ key \in [Threads -> Keys]
    /\ cur \in [Threads -> Nodes]
    /\ level \in [Threads -> Levels]
    /\ prev \in [Levels -> Nodes \cup {Nil}]
    /\ index \in 0 .. MaxHeight
    /\ answer \in [Readers -> BOOLEAN]

Linking == pc[Writer] \in {"fill", "link"}

\* The nodes whose Insert has already stored the pointer to them on level l.
OnLevel(l) == {k \in Keys : tower[k] > l /\ (Linking /\ k = key[Writer] => index > l)}

\* m is what follows n among the nodes in S.
IsSuccessor(m, n, S) ==
    /\ m \in S \cup {Nil}
    /\ n < m
    /\ \A k \in S : n < k => m <= k

\* At every instant of an Insert each level is a chain from head_ through
\* exactly the nodes already linked on it, in key order, to nullptr: no store
\* of Insert, in whatever order relative to the readers, drops a node, makes
\* a cycle or exposes the pointers the new node does not have yet.
SortedChains ==
    \A l \in Levels : \A n \in {HeadNode} \cup OnLevel(l) :
        IsSuccessor(next[l][n], n, OnLevel(l))

\* A thread in FindGreaterOrEqual stands on a node that is linked on the level
\* it is about to read, so Next(level) never indexes past the end of next_ nor
\* loads an entry NewNode left uninitialised; and it has not overtaken its key.
WalkOnLinkedNodes ==
    \A t \in Threads : pc[t] = "walk" =>
        /\ cur[t] \in {HeadNode} \cup OnLevel(level[t])
        /\ Ahead(t) # Junk
        /\ cur[t] < key[t]

\* prev[l] is linked on level l and the writer's key belongs right after it.
Predecessor(l) ==
    /\ prev[l] \in {HeadNode} \cup OnLevel(l)
    /\ prev[l] < key[Writer]
    /\ key[Writer] <= next[l][prev[l]]

\* What Insert gathered on the way down, for the levels below a cur_height_ it
\* reads twice, still holds when it splices: prev[l] is the new key's immediate
\* predecessor, the key is not in the list yet, and by the time the node is
\* published on a level its own pointer there is already the right one.
SpliceAtPredecessor ==
    /\ pc[Writer] = "walk" =>
           /\ level[Writer] < cur_height
           /\ \A l \in Levels : level[Writer] < l /\ l < cur_height => Predecessor(l)
    /\ pc[Writer] = "allocate" =>
           /\ tower[key[Writer]] = 0
           /\ \A l \in Levels : l < cur_height => Predecessor(l)
    /\ Linking =>
           /\ index < tower[key[Writer]]
           /\ \A l \in Levels : index <= l /\ l < tower[key[Writer]] => Predecessor(l)
    /\ pc[Writer] = "link" => next[index][key[Writer]] = next[index][prev[index]]
    /\ \A k \in Keys : tower[k] <= cur_height

\* Every operation takes effect at one instant between its call and its return
\* although Contains overlaps the unlocked stores of Insert: Insert when its
\* node appears on level 0, Contains at its last load.
abstractStatus ==
    [t \in Threads |->
        IF pc[t] = "idle" THEN "idle"
        ELSE IF t = Writer /\ Linking /\ index > 0 THEN "applied"
        ELSE "running"]

Set == INSTANCE OrderedSet
         WITH contents <- OnLevel(0), status <- abstractStatus, arg <- key

Linearizable == Set!Spec

\* The inductive invariant.
IInv == TypeOK /\ SortedChains /\ WalkOnLinkedNodes /\ SpliceAtPredecessor

\* An insertion returns, and so does a lookup, however many insertions overtake
\* it.
CallsReturn == \A t \in Threads : pc[t] # "idle" ~> pc[t] = "idle"
=============================================================================

-------------------------- MODULE SkipListRelaxed --------------------------
(***************************************************************************)
(* SkipList with the memory order its stores really ask for.  Insert       *)
(* publishes a node with NoBarrier_SetNext, a relaxed store                *)
(* (src/src/db/skiplist.h:52-55): other threads may see it before the      *)
(* stores that came first in the program, among them the construction of   *)
(* the node.  The writer runs as in SkipList; its stores are in flight     *)
(* until they reach the memory the readers load from.                      *)
(***************************************************************************)
EXTENDS SkipList, Sequences, SequencesExt

CONSTANT ProgramOrder  \* TRUE: stores become visible in the order of the program
                       \* (x86 code the compiler did not reorder); FALSE: only
                       \* two stores to one location do (std::memory_order_relaxed)

ASSUME ProgramOrderAssumption == ProgramOrder \in BOOLEAN

VARIABLES
    inflight,    \* the writer's stores no reader can see yet, oldest first
    seenHeight,  \* cur_height_ as the readers see it
    seenNext,    \* the next_ pointers as the readers see them
    seenKeys     \* the nodes whose constructor (Node(key)) the readers see

memory == <<seenHeight, seenNext, seenKeys>>
relaxedVars == <<vars, inflight, memory>>

HeightStore(h)     == [cell |-> <<"height">>, value |-> h]
KeyStore(k)        == [cell |-> <<"key", k>>, value |-> k]
NextStore(l, n, m) == [cell |-> <<"next", l, n>>, value |-> m]

RelaxedInit ==
    /\ Init
    /\ inflight = <<>>
    /\ seenHeight = cur_height
    /\ seenNext = next
    /\ seenKeys = {HeadNode}

-----------------------------------------------------------------------------
(* The writer: a step of SkipList, and the stores it issues.               *)

Issue(stores) == inflight' = inflight \o stores /\ UNCHANGED memory

WriterCall(k)   == Call(Writer, k) /\ Issue(<<>>)
WriterWalk      == WalkStep(Writer) /\ Issue(<<>>)
WriterFind      == FoundPlace /\ Issue(<<>>)
WriterAllocate(h) ==
    /\ Allocate(h)
    /\ Issue((IF h > cur_height THEN <<HeightStore(h)>> ELSE <<>>)
             \o <<KeyStore(key[Writer])>>)
\* Mutants: the new node's own pointer is not set, or is set to the list's end.
WriterFillNothing == FillNext /\ Issue(<<>>)
WriterFillNil     == FillNext /\ Issue(<<NextStore(index, key[Writer], Nil)>>)

WriterFill ==
    /\ FillNext
    /\ Issue(<<NextStore(index, key[Writer], next[index][prev[index]])>>)
WriterLink ==
    /\ Link
    /\ Issue(<<NextStore(index, prev[index], key[Writer])>>)

\* The i-th store in flight reaches memory.
BecomeVisible(i) ==
    LET s == inflight[i] IN
    /\ \A j \in 1 .. i - 1 : ~ ProgramOrder /\ inflight[j].cell # s.cell
    /\ inflight' = RemoveAt(inflight, i)
    /\ seenHeight' = IF s.cell[1] = "height" THEN s.value ELSE seenHeight
    /\ seenKeys' = IF s.cell[1] = "key" THEN seenKeys \cup {s.value} ELSE seenKeys
    /\ seenNext' = IF s.cell[1] = "next"
                   THEN [seenNext EXCEPT ![s.cell[2]][s.cell[3]] = s.value]
                   ELSE seenNext
    /\ UNCHANGED vars

-----------------------------------------------------------------------------
(* The readers: Contains as in SkipList, over the memory they see.         *)

SeenAhead(r) == seenNext[level[r]][cur[r]]

ReaderCall(r, k) == Call(r, k) /\ UNCHANGED <<inflight, memory>>

ReaderLoadHeight(r) ==
    /\ pc[r] = "start"
    /\ pc' = [pc EXCEPT ![r] = "walk"]
    /\ cur' = [cur EXCEPT ![r] = HeadNode]
    /\ level' = [level EXCEPT ![r] = seenHeight - 1]
    /\ UNCHANGED <<shared, key, prev, index, answer, inflight, memory>>

ReaderForward(r) ==
    /\ pc[r] = "walk"
    /\ KeyIsAfterNode(key[r], SeenAhead(r))
    /\ cur' = [cur EXCEPT ![r] = SeenAhead(r)]
    /\ UNCHANGED <<shared, pc, key, level, prev, index, answer, inflight, memory>>

ReaderDown(r) ==
    /\ pc[r] = "walk"
    /\ ~ KeyIsAfterNode(key[r], SeenAhead(r))
    /\ level[r] > 0
    /\ level' = [level EXCEPT ![r] = @ - 1]
    /\ UNCHANGED <<shared, pc, key, cur, prev, index, answer, inflight, memory>>

\* Mutant: the node found is not compared with the key.
ReaderReturnAnyNode(r) ==
    /\ pc[r] = "walk"
    /\ ~ KeyIsAfterNode(key[r], SeenAhead(r))
    /\ level[r] = 0
    /\ answer' = [answer EXCEPT ![r] = SeenAhead(r) # Nil]
    /\ pc' = [pc EXCEPT ![r] = "idle"]
    /\ UNCHANGED <<shared, key, walk, prev, index, inflight, memory>>

ReaderReturn(r) ==
    /\ pc[r] = "walk"
    /\ ~ KeyIsAfterNode(key[r], SeenAhead(r))
    /\ level[r] = 0
    /\ answer' = [answer EXCEPT ![r] = SeenAhead(r) = key[r]]
    /\ pc' = [pc EXCEPT ![r] = "idle"]
    /\ UNCHANGED <<shared, key, walk, prev, index, inflight, memory>>

RelaxedNext ==
    \/ \E k \in Keys : WriterCall(k)
    \/ WriterWalk \/ WriterFind
    \/ \E h \in RandomHeights : WriterAllocate(h)
    \/ WriterFill \/ WriterLink
    \/ \E i \in 1 .. Len(inflight) : BecomeVisible(i)
    \/ \E r \in Readers :
          \/ \E k \in Keys : ReaderCall(r, k)
          \/ ReaderLoadHeight(r) \/ ReaderForward(r)
          \/ ReaderDown(r) \/ ReaderReturn(r)

RelaxedSpec == RelaxedInit /\ [][RelaxedNext]_relaxedVars

-----------------------------------------------------------------------------
(* Properties *)

\* "Use an 'acquire load' so that we observe a fully initialized version of the
\* returned Node" (src/src/db/skiplist.h:147): the node a reader is about to
\* load from next_ is one whose constructor it sees, reached through a pointer
\* that was set.
FullyInitialized ==
    \A r \in Readers : pc[r] = "walk" =>
        SeenAhead(r) # Junk /\ (SeenAhead(r) # Nil => SeenAhead(r) \in seenKeys)

\* The nodes a reader can reach on level l: what some visible pointer of a
\* constructed node leads to.
SeenOnLevel(l) == {k \in Keys : \E n \in Nodes : seenNext[l][n] = k}

\* As the readers see it, the list is at every instant the sorted chain of
\* some of the inserted keys, on every level: a node on a level is on all the
\* levels below it, and an entry that leads on from it is already set.
SeenChains ==
    \A l \in Levels :
        /\ \A n \in {HeadNode} \cup SeenOnLevel(l) :
               IsSuccessor(seenNext[l][n], n, SeenOnLevel(l))
        /\ l > 0 => SeenOnLevel(l) \subseteq SeenOnLevel(l - 1)

\* A lookup that ends finds its key when the readers see it linked, and never
\* finds a key nobody inserted, however far memory lags behind the writer.
SeenAnswers ==
    [][\A r \in Readers : ReaderReturn(r) =>
           /\ key[r] \in SeenOnLevel(0) => answer'[r]
           /\ answer'[r] => key[r] \in OnLevel(0)]_relaxedVars
=============================================================================

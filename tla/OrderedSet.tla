----------------------------- MODULE OrderedSet -----------------------------
(***************************************************************************)
(* What SkipList<K> (src/src/db/skiplist.h) promises its callers: a set of *)
(* keys that one thread grows while other threads ask for membership, each *)
(* operation taking effect at one instant between its call and its return. *)
(* Nothing is ever removed.                                                *)
(***************************************************************************)
CONSTANTS Keys,      \* the keys the callers use
          Writer,    \* the one thread that inserts
          Readers    \* the threads that only look keys up

Threads == {Writer} \cup Readers

VARIABLES contents,  \* the keys whose insertion took effect
          status,    \* per thread: "idle", "running", or "applied"
          arg,       \* per thread: the key of its current or last call
          answer     \* per reader: what its last finished lookup returned

vars == <<contents, status, arg, answer>>

Init ==
    /\ contents = {}
    /\ status = [t \in Threads |-> "idle"]
    /\ arg \in [Threads -> Keys]
    /\ answer = [r \in Readers |-> FALSE]

Call(t, k) ==
    /\ status[t] = "idle"
    /\ status' = [status EXCEPT ![t] = "running"]
    /\ arg' = [arg EXCEPT ![t] = k]
    /\ UNCHANGED <<contents, answer>>

\* The insertion takes effect, and the call returns now or in a later step.
ApplyInsert ==
    /\ status[Writer] = "running"
    /\ arg[Writer] \notin contents
    /\ contents' = contents \cup {arg[Writer]}
    /\ \E s \in {"applied", "idle"} : status' = [status EXCEPT ![Writer] = s]
    /\ UNCHANGED <<arg, answer>>

\* The key was there already: the call returns without any effect.
RejectInsert ==
    /\ status[Writer] = "running"
    /\ arg[Writer] \in contents
    /\ status' = [status EXCEPT ![Writer] = "idle"]
    /\ UNCHANGED <<contents, arg, answer>>

ReturnInsert ==
    /\ status[Writer] = "applied"
    /\ status' = [status EXCEPT ![Writer] = "idle"]
    /\ UNCHANGED <<contents, arg, answer>>

\* A lookup answers with the membership of its key at this instant.
Lookup(r) ==
    /\ status[r] = "running"
    /\ status' = [status EXCEPT ![r] = "idle"]
    /\ answer' = [answer EXCEPT ![r] = arg[r] \in contents]
    /\ UNCHANGED <<contents, arg>>

Next ==
    \/ \E t \in Threads, k \in Keys : Call(t, k)
    \/ ApplyInsert \/ RejectInsert \/ ReturnInsert
    \/ \E r \in Readers : Lookup(r)

Spec == Init /\ [][Next]_vars
=============================================================================

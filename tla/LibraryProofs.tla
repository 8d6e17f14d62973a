---------------------------- MODULE LibraryProofs ---------------------------
(***************************************************************************)
(* Proofs about the libraries with a state of their own: FreeListAlloc for *)
(* any sizes of blocks and counts, Arena for any alignment, LogAppender    *)
(* for every number of threads, of messages, of faults and of restarts and *)
(* every width of the size counter, and the libraries together.            *)
(***************************************************************************)
EXTENDS MCLibraries, FiniteSetTheorems, SequenceTheorems, WellFoundedInduction, TLAPS


-----------------------------------------------------------------------------
(* The logger: the inductive invariant                                     *)

HistoryOK ==
    /\ clock \in Nat /\ pid \in Nat
    /\ \A file \in Files : sizes[file] < SizeModulus
    /\ rotations \subseteq [file : Files, time : Nat, pid : Nat]
    /\ DOMAIN rotated \subseteq [time : Nat, pid : Nat]

\* Rotate runs under the mutex, and nobody else holds it.
MutexOK == \A t \in Threads : at[t] \in {"rotating", "reopening"} <=> mutex = t

\* An open descriptor is that of the active file, and counts its bytes.
DescriptorOK ==
    fd # Closed =>
        /\ \A t \in Threads : at[t] # "reopening"
        /\ active = fd
        /\ fd \notin tainted => cur_file_size = sizes[fd]

\* A closed one is explained; who still works with it had passed the test of
\* fd_ before a rotation failed to open, with the size at 0.
ClosedOK ==
    fd = Closed =>
        /\ open_failed \/ \E t \in Threads : at[t] = "reopening"
        /\ \A t \in Threads :
              /\ at[t] # "idle" => rotate_size > 0 /\ active \in tainted \cup {Closed}
              /\ at[t] = "waiting" /\ mutex = NoThread => cur_file_size = 0
              /\ at[t] = "reopening" => cur_file_size = 0

RotatingOK ==
    \A t \in Threads : at[t] = "rotating" => rotate_size > 0 /\ cur_file_size > rotate_size

\* Files are moved aside in the order of their creation, and a name of the
\* directory is that of a rotation.
OrderOK ==
    /\ \A r \in rotations : active = Closed \/ r.file < active
    /\ \A name \in DOMAIN rotated :
          [file |-> rotated[name], time |-> name.time, pid |-> name.pid] \in rotations

LogIInv ==
    /\ LogTypeOK /\ HistoryOK /\ MutexOK
    /\ DescriptorOK /\ ClosedOK /\ RotatingOK
    /\ OrderOK /\ RotatedAreFull /\ OnlySameSecondLoses

-----------------------------------------------------------------------------
USE NoThreadAssumption, LengthsAssumption, SizeModulusAssumption,
    RotateSizesAssumption, LogBoundsAssumption
USE DEF Closed, Files, files

\* The counter keeps its width, and a number that fits is left alone.
LEMMA Wrapping ==
    ASSUME NEW n \in Nat
    PROVE  /\ n % SizeModulus \in 0 .. SizeModulus - 1
           /\ n < SizeModulus => n % SizeModulus = n
OBVIOUS

\* Before the first call the invariant holds.
LEMMA LogInitInvariant == LogInit => LogIInv
<1> SUFFICES ASSUME LogInit PROVE LogIInv
  OBVIOUS
<1> USE DEF LogInit
<1>1. sizes \in Seq(Nat) /\ Len(sizes) = 1 /\ sizes[1] = 0
  OBVIOUS
<1>2. LogTypeOK
  BY <1>1 DEF LogTypeOK
<1>3. HistoryOK
  BY <1>1 DEF HistoryOK
<1>4. MutexOK /\ DescriptorOK /\ ClosedOK /\ RotatingOK
  BY <1>1 DEF MutexOK, DescriptorOK, ClosedOK, RotatingOK
<1>5. OrderOK /\ RotatedAreFull /\ OnlySameSecondLoses
  BY <1>1 DEF OrderOK, RotatedAreFull, OnlySameSecondLoses
<1> QED BY <1>2, <1>3, <1>4, <1>5 DEF LogIInv

\* A thread calls LogV.
LEMMA LogVStep ==
    ASSUME LogIInv, NEW t \in Threads, LogV(t)
    PROVE  LogIInv'
<1> USE DEF LogIInv, LogV, FileIsOpen
<1>1. LogTypeOK'
  BY DEF LogTypeOK
<1>2. HistoryOK' /\ OrderOK' /\ RotatedAreFull' /\ OnlySameSecondLoses'
  BY DEF HistoryOK, OrderOK, RotatedAreFull, OnlySameSecondLoses
<1>3. MutexOK' /\ RotatingOK'
  BY DEF MutexOK, RotatingOK, LogTypeOK
<1>4. DescriptorOK'
  BY DEF DescriptorOK, LogTypeOK
<1>5. ClosedOK'
  BY DEF ClosedOK, LogTypeOK
<1> QED BY <1>1, <1>2, <1>3, <1>4, <1>5

\* What a write to the open file or a failed one leaves alone, and what it
\* makes of the counter.
LEMMA WriteEffect ==
    ASSUME LogIInv,
           WriteFails \/ \E n \in Lengths : WriteReturns(n)
    PROVE  /\ sizes' \in Seq(Nat) /\ Len(sizes') = Len(sizes)
           /\ \A file \in Files : /\ sizes'[file] < SizeModulus
                                  /\ file # fd => sizes'[file] = sizes[file]
           /\ cur_file_size' \in 0 .. SizeModulus - 1
           /\ tainted \subseteq tainted' /\ tainted' \subseteq Files
           /\ fd # Closed /\ fd \notin tainted' =>
                 fd \notin tainted
                 /\ (cur_file_size = sizes[fd] => cur_file_size' = sizes'[fd])
           /\ fd = Closed => cur_file_size' = SubtractOne(cur_file_size)
<1>0. /\ cur_file_size \in 0 .. SizeModulus - 1 /\ fd \in {Closed} \cup 1 .. Len(sizes)
      /\ sizes \in Seq(Nat) /\ Len(sizes) \in Nat /\ tainted \subseteq 1 .. Len(sizes)
      /\ \A file \in 1 .. Len(sizes) : sizes[file] \in Nat /\ sizes[file] < SizeModulus
  BY DEF LogIInv, LogTypeOK, HistoryOK
<1>1. CASE WriteFails
  <2>1. cur_file_size' = SubtractOne(cur_file_size) /\ sizes' = sizes
        /\ tainted' = (tainted \cup {fd}) \ {Closed}
    BY <1>1 DEF WriteFails
  <2>2. cur_file_size + SizeModulus - 1 \in Nat
    BY <1>0
  <2>3. cur_file_size' \in 0 .. SizeModulus - 1
    BY <2>1, <2>2, Wrapping DEF SubtractOne
  <2>4. tainted \subseteq tainted' /\ tainted' \subseteq Files
    BY <1>0, <2>1
  <2>5. fd # Closed => fd \in tainted'
    BY <2>1
  <2> QED BY <1>0, <2>1, <2>3, <2>4, <2>5
<1>2. ASSUME NEW n \in Lengths, WriteReturns(n)
      PROVE  /\ sizes' \in Seq(Nat) /\ Len(sizes') = Len(sizes)
             /\ fd \in Files /\ sizes'[fd] = sizes[fd] + n /\ sizes'[fd] < SizeModulus
             /\ \A file \in Files : file # fd => sizes'[file] = sizes[file]
             /\ cur_file_size' = (cur_file_size + n) % SizeModulus /\ tainted' = tainted
  <2>1. /\ fd # Closed /\ sizes[fd] + n < SizeModulus
        /\ sizes' = [sizes EXCEPT ![fd] = @ + n]
        /\ cur_file_size' = (cur_file_size + n) % SizeModulus /\ tainted' = tainted
    BY <1>2 DEF WriteReturns
  <2>2. fd \in 1 .. Len(sizes) /\ sizes[fd] + n \in Nat
    BY <1>0, <2>1
  <2> QED BY <1>0, <2>1, <2>2
<1>3. CASE \E n \in Lengths : WriteReturns(n)
  <2>1. PICK n \in Lengths : WriteReturns(n)
    BY <1>3
  <2>2. /\ sizes' \in Seq(Nat) /\ Len(sizes') = Len(sizes)
        /\ fd \in Files /\ sizes'[fd] = sizes[fd] + n /\ sizes'[fd] < SizeModulus
        /\ \A file \in Files : file # fd => sizes'[file] = sizes[file]
        /\ cur_file_size' = (cur_file_size + n) % SizeModulus /\ tainted' = tainted
    BY <1>2, <2>1
  <2>3. cur_file_size + n \in Nat
    <3>1. n \in Nat
      OBVIOUS
    <3>2. cur_file_size \in Nat
      BY <1>0
    <3> QED BY <3>1, <3>2
  <2>4. /\ cur_file_size' \in 0 .. SizeModulus - 1
        /\ cur_file_size = sizes[fd] => cur_file_size' = sizes'[fd]
    BY <2>2, <2>3, Wrapping
  <2>5. \A file \in Files : sizes'[file] < SizeModulus
    <3> TAKE file \in Files
    <3>1. sizes[file] < SizeModulus
      BY <1>0
    <3> QED BY <2>2, <3>1
  <2>6. fd # Closed
    BY <2>1 DEF WriteReturns
  <2> QED BY <1>0, <2>2, <2>4, <2>5, <2>6
<1> QED BY <1>1, <1>3

\* A thread takes the mutex and writes, and perhaps begins a rotation.
LEMMA WriteStep ==
    ASSUME LogIInv, NEW t \in Threads, Write(t)
    PROVE  LogIInv'
<1> USE DEF LogIInv, Write, MutexFree
<1>1. LogTypeOK'
  BY WriteEffect DEF LogTypeOK
<1>2. HistoryOK'
  BY WriteEffect DEF HistoryOK
<1>3. MutexOK' /\ RotatingOK'
  BY DEF MutexOK, RotatingOK, LogTypeOK, MustRotate
<1>4. DescriptorOK'
  BY WriteEffect DEF DescriptorOK, LogTypeOK
<1>5. ClosedOK'
  <2> SUFFICES ASSUME fd = Closed PROVE ClosedOK'
    BY DEF ClosedOK
  <2>1. cur_file_size = 0 /\ rotate_size > 0 /\ active \in tainted \cup {Closed}
    BY DEF ClosedOK
  <2>2. cur_file_size' = SizeModulus - 1
    <3>1. cur_file_size' = (0 + SizeModulus - 1) % SizeModulus
      BY <2>1, WriteEffect DEF SubtractOne
    <3>2. 0 + SizeModulus - 1 \in Nat /\ 0 + SizeModulus - 1 < SizeModulus
      OBVIOUS
    <3> QED BY <3>1, <3>2, Wrapping
  <2>3. at' = [at EXCEPT ![t] = "rotating"] /\ mutex' = t
    BY <2>1, <2>2 DEF LogTypeOK, MustRotate
  <2>4. \A s \in Threads : at[s] \notin {"rotating", "reopening"}
    BY DEF MutexOK
  <2>5. open_failed'
    BY <2>4, ZenonT(20) DEF ClosedOK
  <2>6. \A s \in Threads : at'[s] # "reopening"
    BY <2>3, <2>4 DEF LogTypeOK
  <2>7. rotate_size' > 0 /\ active' \in tainted' \cup {Closed} /\ mutex' # NoThread
    BY <2>1, <2>3, WriteEffect
  <2> QED BY <2>5, <2>6, <2>7 DEF ClosedOK
<1>6. OrderOK' /\ OnlySameSecondLoses'
  BY WriteEffect DEF OrderOK, OnlySameSecondLoses
<1>7. RotatedAreFull'
  <2> SUFFICES ASSUME NEW r \in rotations, r.file \notin tainted'
               PROVE  sizes'[r.file] > rotate_size
    BY DEF RotatedAreFull
  <2>1. r.file \in Files /\ r.file # fd
    BY DEF OrderOK, DescriptorOK, HistoryOK, LogTypeOK
  <2>2. r.file \notin tainted /\ sizes'[r.file] = sizes[r.file]
    BY <2>1, WriteEffect
  <2> QED BY <2>2 DEF RotatedAreFull
<1> QED BY <1>1, <1>2, <1>3, <1>4, <1>5, <1>6, <1>7

\* rename, and the end of the old descriptor.
LEMMA MoveAsideStep ==
    ASSUME LogIInv, NEW t \in Threads, MoveAside(t)
    PROVE  LogIInv'
<1> USE DEF LogIInv, MoveAside
<1>1. /\ UNCHANGED <<sizes, rotate_size, mutex, calls, clock, pid, open_failed>>
      /\ fd' = Closed /\ cur_file_size' = 0
      /\ tainted \subseteq tainted' /\ tainted' \subseteq Files
      /\ active' \in tainted' \cup {Closed}
      /\ active # Closed /\ active \notin tainted' => RenameSucceeds
  BY DEF RenameSucceeds, RenameFails, LogTypeOK
<1>2. CASE RenameSucceeds
  <2> DEFINE moved == [file |-> active, time |-> clock, pid |-> pid]
  <2>1. /\ active \in Files /\ active' = Closed /\ rotations' = rotations \cup {moved}
        /\ DOMAIN rotated' = DOMAIN rotated \cup {LogFileName}
        /\ \A name \in DOMAIN rotated' :
              rotated'[name] = IF name = LogFileName THEN active ELSE rotated[name]
    BY <1>2 DEF RenameSucceeds, LogTypeOK
  <2>2. LogTypeOK'
    BY <1>1, <2>1 DEF LogTypeOK
  <2>3. HistoryOK'
    <3>1. moved \in [file : Files, time : Nat, pid : Nat] /\ LogFileName \in [time : Nat, pid : Nat]
      BY <2>1 DEF HistoryOK, LogFileName
    <3>2. rotations' \subseteq [file : Files, time : Nat, pid : Nat]
      BY <2>1, <3>1 DEF HistoryOK
    <3> QED BY <1>1, <2>1, <3>1, <3>2 DEF HistoryOK
  <2>4. OrderOK'
    BY <1>1, <2>1 DEF OrderOK, LogFileName
  <2>5. RotatedAreFull'
    <3> SUFFICES ASSUME NEW r \in rotations', r.file \notin tainted'
                 PROVE  sizes'[r.file] > rotate_size'
      BY DEF RotatedAreFull
    <3>1. CASE r \in rotations
      BY <1>1, <3>1 DEF RotatedAreFull
    <3>2. CASE r = moved
      <4>1. active \notin tainted
        BY <1>1, <3>2
      <4>2. fd # Closed
        BY <2>1, <4>1 DEF ClosedOK
      <4>3. cur_file_size = sizes[active]
        BY <4>1, <4>2 DEF DescriptorOK
      <4> QED BY <1>1, <3>2, <4>3 DEF RotatingOK
    <3> QED BY <2>1, <3>1, <3>2
  <2>6. OnlySameSecondLoses'
    <3> SUFFICES ASSUME NEW file \in Files
                 PROVE  \/ \E name \in DOMAIN rotated' : rotated'[name] = file
                        \/ \E r, s \in rotations' :
                              r.file = file /\ s.file > file /\ s.time = r.time /\ s.pid = r.pid
      BY <1>1 DEF OnlySameSecondLoses
    <3>1. CASE file = active
      BY <2>1, <3>1
    <3>2. ASSUME NEW name \in DOMAIN rotated, rotated[name] = file, name # LogFileName
          PROVE  \E other \in DOMAIN rotated' : rotated'[other] = file
      BY <2>1, <3>2
    <3>3. ASSUME NEW name \in DOMAIN rotated, rotated[name] = file, name = LogFileName
          PROVE  \E r, s \in rotations' :
                    r.file = file /\ s.file > file /\ s.time = r.time /\ s.pid = r.pid
      <4> DEFINE old == [file |-> file, time |-> clock, pid |-> pid]
      <4>1. old \in rotations
        BY <3>3 DEF OrderOK, LogFileName
      <4>2. old.file < active
        BY <2>1, <4>1 DEF OrderOK
      <4>3. old \in rotations' /\ moved \in rotations'
        BY <2>1, <4>1
      <4>4. old.file = file /\ moved.file > file /\ moved.time = old.time /\ moved.pid = old.pid
        BY <4>2
      <4> QED BY <4>3, <4>4
    <3> QED BY <2>1, <3>1, <3>2, <3>3 DEF OnlySameSecondLoses
  <2> QED BY <1>1, <2>2, <2>3, <2>4, <2>5, <2>6
          DEF MutexOK, DescriptorOK, ClosedOK, RotatingOK, LogTypeOK
<1>3. CASE RenameFails
  <2>1. UNCHANGED <<active, rotated, rotations>>
    BY <1>3 DEF RenameFails
  <2>2. LogTypeOK' /\ HistoryOK'
    BY <1>1, <2>1 DEF LogTypeOK, HistoryOK
  <2>3. OrderOK' /\ RotatedAreFull' /\ OnlySameSecondLoses'
    BY <1>1, <2>1 DEF OrderOK, RotatedAreFull, OnlySameSecondLoses
  <2> QED BY <1>1, <2>2, <2>3
          DEF MutexOK, DescriptorOK, ClosedOK, RotatingOK, LogTypeOK
<1> QED BY <1>2, <1>3

\* What an open that succeeds makes of the directory.
DirectoryAfterOpen ==
    /\ sizes' \in Seq(Nat) /\ Len(sizes') \in Nat
    /\ Len(sizes) \in Nat /\ Len(sizes) <= Len(sizes')
    /\ fd' \in 1 .. Len(sizes') /\ active' = fd'
    /\ active # Closed => active' = active /\ sizes' = sizes
    /\ active = Closed => /\ active' = Len(sizes) + 1
                          /\ Len(sizes') = Len(sizes) + 1
                          /\ sizes'[active'] = 0
    /\ \A file \in Files : sizes'[file] = sizes[file]
    /\ UNCHANGED <<rotated, rotations, faults>>

\* An open that succeeds opens the active file or creates it, and touches no
\* other file.
LEMMA OpenEffect ==
    ASSUME LogIInv, OpenSucceeds
    PROVE  DirectoryAfterOpen
BY DEF OpenSucceeds, StoreDescriptor, Opened, LogIInv, LogTypeOK, DirectoryAfterOpen

\* The history survives an open.
LEMMA OpenHistory ==
    ASSUME LogIInv, OpenSucceeds, tainted' \subseteq tainted,
           \A r \in rotations : r.file \notin tainted' => r.file \notin tainted,
           UNCHANGED rotate_size, clock' \in Nat, pid' \in Nat
    PROVE  HistoryOK' /\ OrderOK' /\ RotatedAreFull' /\ OnlySameSecondLoses'
<1> USE DEF LogIInv
<1>0. DirectoryAfterOpen
  BY OpenEffect
<1>1. HistoryOK'
  <2>1. \A file \in Files' : sizes'[file] < SizeModulus
    BY <1>0 DEF DirectoryAfterOpen, HistoryOK
  <2>2. Files \subseteq Files'
    BY <1>0 DEF DirectoryAfterOpen
  <2> QED BY <1>0, <2>1, <2>2 DEF DirectoryAfterOpen, HistoryOK
<1>2. OrderOK'
  <2>1. \A r \in rotations : r.file \in Files
    BY DEF HistoryOK
  <2>2. \A r \in rotations : r.file < active'
    BY <1>0, <2>1 DEF DirectoryAfterOpen, OrderOK
  <2> QED BY <1>0, <2>2 DEF DirectoryAfterOpen, OrderOK
<1>3. RotatedAreFull'
  BY <1>0 DEF DirectoryAfterOpen, RotatedAreFull, HistoryOK
<1>4. OnlySameSecondLoses'
  <2> SUFFICES ASSUME NEW file \in Files', file # active'
               PROVE  \/ \E name \in DOMAIN rotated : rotated[name] = file
                      \/ \E r, s \in rotations :
                            r.file = file /\ s.file > file /\ s.time = r.time /\ s.pid = r.pid
    BY <1>0 DEF DirectoryAfterOpen, OnlySameSecondLoses
  <2>1. CASE active # Closed
    BY <1>0, <2>1 DEF DirectoryAfterOpen, OnlySameSecondLoses
  <2>2. CASE active = Closed
    <3>1. file \in Files /\ file # active
      BY <1>0, <2>2 DEF DirectoryAfterOpen
    <3> QED BY <3>1 DEF OnlySameSecondLoses
  <2> QED BY <2>1, <2>2
<1> QED BY <1>1, <1>2, <1>3, <1>4

\* The open of Rotate, and the unlock.
LEMMA ReopenStep ==
    ASSUME LogIInv, NEW t \in Threads, Reopen(t)
    PROVE  LogIInv'
<1> USE DEF LogIInv, Reopen, Unlock
<1>1. mutex = t /\ mutex' = NoThread /\ fd = Closed /\ cur_file_size = 0
  BY DEF MutexOK, DescriptorOK, ClosedOK
<1>2. \A s \in Threads : at'[s] = IF s = t THEN "idle" ELSE at[s]
  BY DEF LogTypeOK
<1>3. MutexOK' /\ RotatingOK'
  BY <1>1, <1>2 DEF MutexOK, RotatingOK
<1>4. \A s \in Threads : at'[s] # "reopening"
  BY <1>1, <1>2 DEF MutexOK
<1>5. CASE OpenSucceeds
  <2>0. DirectoryAfterOpen
    BY <1>5, OpenEffect
  <2>1. LogTypeOK'
    <3>1. Files \subseteq Files' /\ fd' \in Files' /\ active' \in Files'
      BY <2>0 DEF DirectoryAfterOpen
    <3>2. at' \in [Threads -> {"idle", "waiting", "rotating", "reopening"}]
      BY DEF LogTypeOK
    <3> QED BY <1>1, <2>0, <3>1, <3>2 DEF DirectoryAfterOpen, LogTypeOK
  <2>2. HistoryOK' /\ OrderOK' /\ RotatedAreFull' /\ OnlySameSecondLoses'
    BY <1>5, OpenHistory DEF HistoryOK
  <2>3. DescriptorOK'
    <3>1. active # Closed => active \in tainted
      BY <1>1 DEF ClosedOK
    <3> QED BY <1>1, <1>4, <1>5, <3>1, <2>0 DEF DirectoryAfterOpen, DescriptorOK
  <2>4. ClosedOK'
    BY <1>5, <2>0 DEF DirectoryAfterOpen, ClosedOK
  <2> QED BY <1>3, <2>1, <2>2, <2>3, <2>4
<1>6. CASE OpenFails /\ UNCHANGED fd
  <2>1. UNCHANGED files /\ open_failed'
    BY <1>6 DEF OpenFails
  <2>2. LogTypeOK' /\ HistoryOK' /\ OrderOK' /\ RotatedAreFull' /\ OnlySameSecondLoses'
    BY <1>6, <2>1 DEF LogTypeOK, HistoryOK, OrderOK, RotatedAreFull, OnlySameSecondLoses
  <2>3. DescriptorOK' /\ ClosedOK'
    BY <1>1, <1>2, <1>4, <1>6, <2>1 DEF DescriptorOK, ClosedOK
  <2> QED BY <1>3, <2>2, <2>3
<1> QED BY <1>5, <1>6

\* The process is killed and started again.
LEMMA RestartStep ==
    ASSUME LogIInv, Restart
    PROVE  LogIInv'
<1> USE DEF LogIInv, Restart
<1>1. \A t \in Threads : at'[t] = "idle"
  OBVIOUS
<1>2. MutexOK' /\ RotatingOK'
  BY <1>1 DEF MutexOK, RotatingOK
<1>3. \A r \in rotations : r.file \notin tainted' => r.file \notin tainted
  BY DEF OrderOK, HistoryOK
<1>4. pid' \in Nat /\ clock' \in Nat
  BY DEF HistoryOK
<1>5. CASE OpenSucceeds /\ cur_file_size' = SizeFound
  <2>0. DirectoryAfterOpen
    BY <1>5, OpenEffect
  <2>1. cur_file_size' = sizes'[fd']
    BY <1>5, <2>0 DEF DirectoryAfterOpen, SizeFound
  <2>2. HistoryOK' /\ OrderOK' /\ RotatedAreFull' /\ OnlySameSecondLoses'
    BY <1>3, <1>4, <1>5, OpenHistory
  <2>3. cur_file_size' \in 0 .. SizeModulus - 1
    BY <2>0, <2>1, <2>2 DEF DirectoryAfterOpen, HistoryOK
  <2>4. LogTypeOK'
    BY <1>5, <2>0, <2>3 DEF DirectoryAfterOpen, LogTypeOK
  <2>5. DescriptorOK' /\ ClosedOK'
    BY <1>1, <2>0, <2>1 DEF DirectoryAfterOpen, DescriptorOK, ClosedOK
  <2> QED BY <1>2, <2>2, <2>4, <2>5
<1>6. CASE OpenFails /\ fd' = Closed /\ cur_file_size' = 0
  <2>1. UNCHANGED files /\ open_failed'
    BY <1>6 DEF OpenFails
  <2>2. LogTypeOK' /\ HistoryOK' /\ OrderOK' /\ OnlySameSecondLoses'
    BY <1>4, <1>6, <2>1 DEF LogTypeOK, HistoryOK, OrderOK, OnlySameSecondLoses
  <2>3. RotatedAreFull'
    BY <1>3, <2>1 DEF RotatedAreFull
  <2>4. DescriptorOK' /\ ClosedOK'
    BY <1>1, <1>6, <2>1 DEF DescriptorOK, ClosedOK
  <2> QED BY <1>2, <2>2, <2>3, <2>4
<1> QED BY <1>5, <1>6

\* A second passes.
LEMMA TickStep ==
    ASSUME LogIInv, Tick
    PROVE  LogIInv'
<1> USE DEF LogIInv, Tick
<1>1. LogTypeOK' /\ HistoryOK'
  BY DEF LogTypeOK, HistoryOK
<1>2. OrderOK' /\ RotatedAreFull' /\ OnlySameSecondLoses'
  BY DEF OrderOK, RotatedAreFull, OnlySameSecondLoses
<1>3. MutexOK' /\ DescriptorOK' /\ ClosedOK' /\ RotatingOK'
  BY DEF MutexOK, DescriptorOK, ClosedOK, RotatingOK
<1> QED BY <1>1, <1>2, <1>3

\* The invariant speaks of the variables of the log only.
LEMMA LogStutter ==
    ASSUME LogIInv, UNCHANGED vars_of_log
    PROVE  LogIInv'
<1> USE DEF LogIInv, vars_of_log
<1>1. LogTypeOK' /\ HistoryOK' /\ OrderOK' /\ RotatedAreFull' /\ OnlySameSecondLoses'
  BY DEF LogTypeOK, HistoryOK, OrderOK, RotatedAreFull, OnlySameSecondLoses
<1>2. MutexOK' /\ DescriptorOK' /\ ClosedOK' /\ RotatingOK'
  BY DEF MutexOK, DescriptorOK, ClosedOK, RotatingOK
<1> QED BY <1>1, <1>2

\* Every step keeps the invariant.
LEMMA LogNextInvariant == LogIInv /\ [LogNext]_vars_of_log => LogIInv'
<1> SUFFICES ASSUME LogIInv, [LogNext]_vars_of_log PROVE LogIInv'
  OBVIOUS
<1>1. ASSUME NEW t \in Threads, LogV(t) PROVE LogIInv'
  BY <1>1, LogVStep
<1>2. ASSUME NEW t \in Threads, ThreadStep(t) PROVE LogIInv'
  BY <1>2, WriteStep, MoveAsideStep, ReopenStep DEF ThreadStep
<1>3. CASE Restart
  BY <1>3, RestartStep
<1>4. CASE Tick
  BY <1>4, TickStep
<1>5. CASE UNCHANGED vars_of_log
  BY <1>5, LogStutter
<1> QED BY <1>1, <1>2, <1>3, <1>4, <1>5 DEF LogNext

-----------------------------------------------------------------------------
(* What follows                                                            *)

\* Every behaviour of the appender keeps the inductive invariant.
THEOREM LogInvariant == LogSpec => []LogIInv
<1> QED BY LogInitInvariant, LogNextInvariant, PTL DEF LogSpec

\* The types of the appender's state: the descriptor and the active name are
\* files there are, the size keeps the width of uint64_t.
THEOREM LogTypeCorrect == LogSpec => []LogTypeOK
<1>1. LogIInv => LogTypeOK
  BY DEF LogIInv
<1> QED BY <1>1, LogInvariant, PTL

\* Outside the mutex an open fd_ is that of the active file with its size in
\* cur_file_size, and fd_ is -1 only in Rotate and after a failed open
\* (src/src/logger/log_appender.cpp).
THEOREM DescriptorTheorem == LogSpec => []DescriptorIsTracked
<1>1. LogIInv => SizeIsTracked
  BY DEF LogIInv, DescriptorOK, SizeIsTracked
<1>2. LogIInv => ClosedOnlyInRotation
  <2> SUFFICES ASSUME LogIInv, fd = Closed, ~ open_failed
               PROVE  mutex # NoThread /\ at[mutex] = "reopening"
    BY DEF ClosedOnlyInRotation
  <2>1. PICK t \in Threads : at[t] = "reopening"
    BY ZenonT(20) DEF LogIInv, ClosedOK
  <2>2. mutex = t
    BY <2>1 DEF LogIInv, MutexOK
  <2> QED BY <2>1, <2>2
<1> QED BY <1>1, <1>2, LogInvariant, PTL DEF DescriptorIsTracked

\* Rotation moves aside only files past rotate_size, and replaces only a file
\* rotated by the same process in the same second.
THEOREM RotationTheorem == LogSpec => []RotationKeepsFiles
<1>1. LogIInv => RotationKeepsFiles
  BY DEF LogIInv, RotationKeepsFiles
<1> QED BY <1>1, LogInvariant, PTL

\* A call that waited for the mutex while the descriptor was lost opens the
\* file again: its failed write takes the size from 0 to 2^64 - 1, past every
\* rotate_size.
THEOREM WaiterTheorem == LogSpec => WaiterReopens
<1> DEFINE Reopens == \A t \in Threads :
              at[t] = "waiting" /\ fd = Closed /\ at'[t] # "waiting" /\ pid' = pid
                  => at'[t] = "rotating"
<1>1. LogIInv /\ [LogNext]_vars_of_log => [Reopens]_vars_of_log
  <2> SUFFICES ASSUME LogIInv, LogNext, NEW t \in Threads,
                      at[t] = "waiting", fd = Closed, at'[t] # "waiting", pid' = pid
               PROVE  at'[t] = "rotating"
    OBVIOUS
  <2>1. ~ Restart
    BY DEF Restart, LogIInv, HistoryOK
  <2>2. ASSUME NEW s \in Threads, LogV(s) \/ MoveAside(s) \/ Reopen(s) PROVE FALSE
    BY <2>2 DEF LogV, MoveAside, Reopen, LogIInv, LogTypeOK
  <2>3. Write(t)
    BY <2>1, <2>2 DEF LogNext, ThreadStep, Tick, Write, LogIInv, LogTypeOK
  <2>4. cur_file_size = 0 /\ rotate_size > 0
    BY <2>3 DEF Write, MutexFree, LogIInv, ClosedOK
  <2>5. cur_file_size' = SubtractOne(0)
    BY <2>3, <2>4 DEF Write, WriteFails, WriteReturns
  <2>6. cur_file_size' = SizeModulus - 1
    <3>1. 0 + SizeModulus - 1 \in Nat /\ 0 + SizeModulus - 1 < SizeModulus
      OBVIOUS
    <3> QED BY <2>5, <3>1, Wrapping DEF SubtractOne
  <2> QED BY <2>3, <2>4, <2>6 DEF Write, MustRotate, LogIInv, LogTypeOK
<1>2. LogSpec => [][Reopens]_vars_of_log
  BY <1>1, LogInvariant, PTL DEF LogSpec
<1> QED BY <1>2 DEF WaiterReopens

\* The steps a call of Append has left; Restart ends it at once.
AppendStepsLeft(t) ==
    CASE at[t] = "waiting"   -> 3
      [] at[t] = "rotating"  -> 2
      [] at[t] = "reopening" -> 1
      [] OTHER               -> 0

\* While a call is in progress some call is not blocked: the mutex is free and
\* it waits for it, or it holds it.
NobodyIsStuck ==
    (\E t \in Threads : at[t] # "idle") =>
        \E t \in Threads : \/ at[t] = "waiting" /\ mutex = NoThread
                           \/ at[t] \in {"rotating", "reopening"} /\ mutex = t

\* A step takes its own call nearer to its end, and no other back.
AppendStepCounts ==
    \A t \in Threads :
        ThreadStep(t) =>
            /\ AppendStepsLeft(t)' < AppendStepsLeft(t)
            /\ \A s \in Threads \ {t} : AppendStepsLeft(s)' = AppendStepsLeft(s)

\* Append neither deadlocks nor starts over, whether the write, the rename or
\* the open fails: at most three steps from the test of fd_ to the return, under
\* a mutex that only a call with steps left holds (log_appender.cpp).
THEOREM AppendTheorem == LogSpec => []NobodyIsStuck /\ [][AppendStepCounts]_vars_of_log
<1>1. LogIInv => NobodyIsStuck
  <2> SUFFICES ASSUME LogIInv, NEW u \in Threads, at[u] # "idle"
               PROVE  \E t \in Threads : \/ at[t] = "waiting" /\ mutex = NoThread
                                         \/ at[t] \in {"rotating", "reopening"} /\ mutex = t
    BY DEF NobodyIsStuck
  <2>1. CASE mutex = NoThread
    <3>1. at[u] \in {"idle", "waiting", "rotating", "reopening"}
      BY DEF LogIInv, LogTypeOK
    <3>2. at[u] \notin {"rotating", "reopening"}
      BY <2>1 DEF LogIInv, MutexOK
    <3> QED BY <2>1, <3>1, <3>2
  <2>2. CASE mutex # NoThread
    <3>1. mutex \in Threads
      BY <2>2 DEF LogIInv, LogTypeOK
    <3>2. at[mutex] \in {"rotating", "reopening"}
      BY <3>1 DEF LogIInv, MutexOK
    <3> QED BY <3>1, <3>2
  <2> QED BY <2>1, <2>2
<1>2. LogIInv => [AppendStepCounts]_vars_of_log
  <2> SUFFICES ASSUME LogIInv, NEW t \in Threads, ThreadStep(t)
               PROVE  /\ AppendStepsLeft(t)' < AppendStepsLeft(t)
                      /\ \A s \in Threads \ {t} : AppendStepsLeft(s)' = AppendStepsLeft(s)
    BY DEF AppendStepCounts
  <2>1. at \in [Threads -> {"idle", "waiting", "rotating", "reopening"}]
    BY DEF LogIInv, LogTypeOK
  <2>2. PICK where \in {"idle", "rotating", "reopening"} :
            /\ at' = [at EXCEPT ![t] = where]
            /\ \/ at[t] = "waiting" /\ where \in {"idle", "rotating"}
               \/ at[t] = "rotating" /\ where = "reopening"
               \/ at[t] = "reopening" /\ where = "idle"
    BY DEF ThreadStep, Write, MoveAside, Reopen
  <2>3. at'[t] = where /\ \A s \in Threads \ {t} : at'[s] = at[s]
    BY <2>1, <2>2
  <2>4. AppendStepsLeft(t)' < AppendStepsLeft(t)
    BY <2>2, <2>3 DEF AppendStepsLeft
  <2> QED BY <2>3, <2>4 DEF AppendStepsLeft
<1> QED BY <1>1, <1>2, LogInvariant, PTL

-----------------------------------------------------------------------------
USE SmallUnitsAssumption, BlockCountAssumption, MaxUnitsAssumption, MemoryAssumption,
    AlignAssumption

-----------------------------------------------------------------------------
(* The allocators: arithmetic                                              *)

\* A larger factor.
LEMMA TimesGrows == \A a, b, n \in Nat : a <= b => a * n <= b * n
OBVIOUS

\* One block more.
LEMMA TimesNext == \A i, n \in Nat : i * n \in Nat /\ (i + 1) * n = i * n + n
OBVIOUS

\* The division that rounds down.
LEMMA Quotient ==
    \A x \in Nat, n \in Nat \ {0} :
        x \div n \in Nat /\ (x \div n) * n <= x /\ x < (x \div n) * n + n
OBVIOUS

\* A set of natural numbers has a least one.
LEMMA LeastOf ==
    ASSUME NEW T, T \subseteq Nat, T # {}
    PROVE  Min(T) \in T /\ \A y \in T : Min(T) <= y
<1>1. PICK x \in T : \A y \in T : ~ (<<y, x>> \in OpToRel(<, Nat))
  BY WFMin, NatLessThanWellFounded
<1>2. \A y \in T : x <= y
  <2> SUFFICES ASSUME NEW y \in T, y < x PROVE FALSE
    OBVIOUS
  <2>1. <<y, x>> \in {ss \in Nat \X Nat : ss[1] < ss[2]}
    OBVIOUS
  <2>2. <<y, x>> \in OpToRel(<, Nat)
    BY <2>1 DEF OpToRel
  <2> QED BY <1>1, <2>2
<1> QED BY <1>2 DEF Min

-----------------------------------------------------------------------------
(* Blocks that share no unit                                           *)

Ranges == [addr : Nat \ {0}, units : Nat \ {0}]
Apart(B) == \A b, c \in B : b # c => Units(b) \cap Units(c) = {}

\* The blocks B and the pool from s to e have the units of the chunks C, each
\* unit once.
Partition(B, s, e, C) ==
    /\ Apart(B) /\ Covered(B) \cap s .. e - 1 = {}
    /\ Covered(B) \cup s .. e - 1 = Covered(C)

AllBelow(B, t) == \A b \in B : b.addr + b.units <= t

\* A block has a unit.
LEMMA BlockUnits ==
    ASSUME NEW b \in Ranges
    PROVE  /\ b.addr \in Units(b) /\ b.addr \in Nat /\ b.units \in Nat
           /\ \A u \in Units(b) : u \in Nat /\ b.addr <= u /\ u < b.addr + b.units
BY DEF Units, Ranges

\* Addresses at and above t are new.
LEMMA AboveAll ==
    ASSUME NEW B \in SUBSET Ranges, NEW t \in Nat, AllBelow(B, t)
    PROVE  \A u \in Covered(B) : u \in Nat /\ u < t
<1> SUFFICES ASSUME NEW b \in B, NEW u \in Units(b) PROVE u \in Nat /\ u < t
  BY DEF Covered
<1>1. u \in Nat /\ u < b.addr + b.units /\ b.addr \in Nat /\ b.units \in Nat
  BY BlockUnits
<1> QED BY <1>1 DEF AllBelow

\* A large block: malloc returns it, the client has it.
LEMMA AddLarge ==
    ASSUME NEW B \in SUBSET Ranges, NEW C \in SUBSET Ranges, NEW t \in Nat,
           NEW s \in Nat, NEW e \in Nat, e <= t,
           Partition(B, s, e, C), Apart(C), AllBelow(B, t), AllBelow(C, t),
           NEW b \in Ranges, b.addr = t
    PROVE  Partition(B \cup {b}, s, e, C \cup {b}) /\ Apart(C \cup {b})
<1>1. \A u \in Units(b) : u \in Nat /\ t <= u
  BY BlockUnits
<1>2. \A c \in B \cup C : Units(c) \cap Units(b) = {}
  <2>1. \A u \in Covered(B) \cup Covered(C) : u \in Nat /\ u < t
    BY AboveAll
  <2>2. \A c \in B \cup C : Units(c) \subseteq Covered(B) \cup Covered(C)
    BY DEF Covered
  <2> QED BY <1>1, <2>1, <2>2
<1>3. Units(b) \cap s .. e - 1 = {}
  BY <1>1
<1>4. Covered(B \cup {b}) = Covered(B) \cup Units(b) /\ Covered(C \cup {b}) = Covered(C) \cup Units(b)
  BY DEF Covered
<1>5. Apart(B \cup {b}) /\ Apart(C \cup {b})
  BY <1>2 DEF Partition, Apart
<1> QED BY <1>3, <1>4, <1>5 DEF Partition

\* A large block goes back to where it came from.
LEMMA DropLarge ==
    ASSUME NEW B, NEW C, NEW s, NEW e,
           Partition(B, s, e, C), Apart(C), NEW b, b \in B, b \in C
    PROVE  Partition(B \ {b}, s, e, C \ {b}) /\ Apart(C \ {b})
<1>1. \A D : b \in D /\ Apart(D) => Covered(D \ {b}) = Covered(D) \ Units(b)
  BY DEF Covered, Apart
<1>2. Covered(B \ {b}) = Covered(B) \ Units(b) /\ Covered(C \ {b}) = Covered(C) \ Units(b)
  BY <1>1 DEF Partition
<1>3. Units(b) \subseteq Covered(B)
  BY DEF Covered
<1>4. Apart(B \ {b}) /\ Apart(C \ {b})
  BY DEF Apart, Partition
<1> QED BY <1>2, <1>3, <1>4 DEF Partition

\* What is left of the pool becomes a block.
LEMMA PoolToBlock ==
    ASSUME NEW B, NEW C, NEW s \in Nat, NEW e \in Nat, s < e, Partition(B, s, e, C),
           NEW x \in Nat
    PROVE  Partition(B \cup {Block(s, e - s)}, x, x, C)
<1> DEFINE b == Block(s, e - s)
<1>1. Units(b) = s .. e - 1
  BY DEF Units, Block
<1> HIDE DEF b
<1>2. Covered(B \cup {b}) = Covered(B) \cup Units(b)
  BY DEF Covered
<1>3. \A c \in B : Units(c) \cap Units(b) = {}
  BY <1>1 DEF Partition, Covered
<1>4. Apart(B \cup {b})
  BY <1>3 DEF Partition, Apart
<1>5. x .. x - 1 = {}
  OBVIOUS
<1> QED BY <1>1, <1>2, <1>4, <1>5 DEF Partition, b

\* An empty pool is anywhere.
LEMMA EmptyPool ==
    ASSUME NEW B, NEW C, NEW s \in Nat, NEW e \in Nat, e <= s, Partition(B, s, e, C),
           NEW x \in Nat
    PROVE  Partition(B, x, x, C)
<1>1. x .. x - 1 = {} /\ s .. e - 1 = {}
  OBVIOUS
<1> QED BY <1>1 DEF Partition

\* malloc returns a new pool.
LEMMA ChunkToPool ==
    ASSUME NEW B \in SUBSET Ranges, NEW C \in SUBSET Ranges, NEW t \in Nat, NEW x \in Nat,
           Partition(B, x, x, C), Apart(C), AllBelow(B, t), AllBelow(C, t),
           NEW b \in Ranges, b.addr = t
    PROVE  Partition(B, t, t + b.units, C \cup {b}) /\ Apart(C \cup {b})
<1>1. Units(b) = t .. (t + b.units) - 1 /\ \A u \in Units(b) : u \in Nat /\ t <= u
  BY DEF Units, Ranges
<1>2. \A u \in Covered(B) \cup Covered(C) : u \in Nat /\ u < t
  BY AboveAll
<1>3. \A c \in C : Units(c) \cap Units(b) = {}
  BY <1>1, <1>2 DEF Covered
<1>4. Apart(C \cup {b})
  BY <1>3 DEF Apart
<1>5. Covered(C \cup {b}) = Covered(C) \cup Units(b)
  BY DEF Covered
<1>6. x .. x - 1 = {}
  OBVIOUS
<1>7. Covered(B) = Covered(C) /\ Apart(B)
  <2>1. Covered(B) \cup x .. x - 1 = Covered(C) /\ Apart(B)
    BY DEF Partition
  <2> QED BY <1>6, <2>1, Zenon
<1>8. Covered(B) \cap Units(b) = {}
  <2>1. ASSUME NEW u \in Covered(B), u \in Units(b) PROVE FALSE
    BY <1>1, <1>2, <2>1
  <2> QED BY <2>1
<1>9. /\ Covered(B) \cap t .. (t + b.units) - 1 = {}
      /\ Covered(B) \cup t .. (t + b.units) - 1 = Covered(C \cup {b})
  <2> DEFINE new == t .. (t + b.units) - 1
  <2>1. Units(b) = new
    BY <1>1
  <2> HIDE DEF new
  <2>2. Covered(B) \cap new = {} /\ Covered(B) \cup new = Covered(C \cup {b})
    BY <1>5, <1>7, <1>8, <2>1
  <2> QED BY <2>2 DEF new
<1> QED BY <1>4, <1>7, <1>9 DEF Partition

\* A free block becomes the pool.
LEMMA BlockToPool ==
    ASSUME NEW B \in SUBSET Ranges, NEW C, NEW x \in Nat, Partition(B, x, x, C), NEW b \in B
    PROVE  Partition(B \ {b}, b.addr, b.addr + b.units, C)
<1>1. Units(b) = b.addr .. (b.addr + b.units) - 1
  BY DEF Units, Ranges
<1>2. Covered(B \ {b}) = Covered(B) \ Units(b)
  BY DEF Covered, Apart, Partition
<1>3. Units(b) \subseteq Covered(B)
  BY DEF Covered
<1>4. Apart(B \ {b})
  BY DEF Apart, Partition
<1>5. x .. x - 1 = {}
  OBVIOUS
<1>6. Covered(B) = Covered(C)
  <2>1. Covered(B) \cup x .. x - 1 = Covered(C)
    BY DEF Partition
  <2> QED BY <1>5, <2>1, Zenon
<1>7. Covered(B \ {b}) \cap Units(b) = {} /\ Covered(B \ {b}) \cup Units(b) = Covered(C)
  BY <1>2, <1>3, <1>6
<1> QED BY <1>1, <1>4, <1>7, Zenon DEF Partition

-----------------------------------------------------------------------------
(* The free lists                                                          *)

Lists     == [Sizes -> Seq(Nat \ {0})]
NoRepeats(lists) ==
    \A n \in Sizes : \A i, j \in DOMAIN lists[n] : lists[n][i] = lists[n][j] => i = j
ListBlocks(q, n) == {Block(q[i], n) : i \in DOMAIN q}
Free(lists)      == UNION {ListBlocks(lists[n], n) : n \in Sizes}

\* A block tells its address and its size.
LEMMA BlockParts ==
    \A a, n : Block(a, n).addr = a /\ Block(a, n).units = n
BY DEF Block

\* What free lists hold are blocks.
LEMMA FreeAreBlocks ==
    ASSUME NEW lists \in Lists
    PROVE  Free(lists) \in SUBSET Ranges
<1> SUFFICES ASSUME NEW n \in Sizes, NEW i \in DOMAIN lists[n]
             PROVE  Block(lists[n][i], n) \in Ranges
  BY DEF Free, ListBlocks
<1>1. lists[n] \in Seq(Nat \ {0})
  BY DEF Lists
<1>2. lists[n][i] \in Nat \ {0} /\ n \in Nat \ {0}
  BY <1>1, ElementOfSeq DEF Sizes
<1> QED BY <1>2 DEF Block, Ranges

\* A list is replaced: the blocks of the others stay.
LEMMA Replaced ==
    ASSUME NEW lists \in Lists, NEW n \in Sizes, NEW q \in Seq(Nat \ {0}),
           NoRepeats(lists), \A i, j \in DOMAIN q : q[i] = q[j] => i = j,
           NEW lists2, lists2 = [lists EXCEPT ![n] = q]
    PROVE  /\ lists2 \in Lists /\ NoRepeats(lists2)
           /\ Free(lists2) = (Free(lists) \ ListBlocks(lists[n], n)) \cup ListBlocks(q, n)
<1>1. lists2 \in Lists /\ lists2[n] = q /\ \A m \in Sizes \ {n} : lists2[m] = lists[m]
  BY DEF Lists
<1>2. NoRepeats(lists2)
  BY <1>1 DEF NoRepeats
<1>3. \A m \in Sizes \ {n} : \A b \in ListBlocks(lists[m], m) : b \notin ListBlocks(lists[n], n)
  BY BlockParts DEF ListBlocks
<1>4. Free(lists2) \subseteq (Free(lists) \ ListBlocks(lists[n], n)) \cup ListBlocks(q, n)
  BY <1>1, <1>3 DEF Free
<1>5. (Free(lists) \ ListBlocks(lists[n], n)) \cup ListBlocks(q, n) \subseteq Free(lists2)
  BY <1>1 DEF Free
<1> QED BY <1>1, <1>2, <1>4, <1>5

\* The first block is taken from a list.
LEMMA Pop ==
    ASSUME NEW lists \in Lists, NoRepeats(lists), NEW n \in Sizes, lists[n] # <<>>,
           NEW lists2, lists2 = [lists EXCEPT ![n] = Tail(@)]
    PROVE  /\ lists2 \in Lists /\ NoRepeats(lists2)
           /\ Head(lists[n]) \in Nat \ {0}
           /\ Block(Head(lists[n]), n) \in Free(lists)
           /\ Free(lists2) = Free(lists) \ {Block(Head(lists[n]), n)}
<1> DEFINE q == lists[n]
           r == Tail(q)
<1>1. q \in Seq(Nat \ {0}) /\ q # <<>>
  BY DEF Lists
<1>2. lists2 = [lists EXCEPT ![n] = r]
  OBVIOUS
<1>3. \A i, j \in DOMAIN q : q[i] = q[j] => i = j
  BY DEF NoRepeats
<1>4. Free(lists) \subseteq Free(lists) /\ ListBlocks(q, n) \subseteq Free(lists)
  BY DEF Free
<1> HIDE DEF q
<1>5. r \in Seq(Nat \ {0}) /\ DOMAIN q = 1 .. Len(q) /\ Len(q) \in Nat \ {0}
      /\ Head(q) = q[1] /\ q[1] \in Nat \ {0}
      /\ DOMAIN r = 1 .. Len(q) - 1 /\ \A i \in DOMAIN r : r[i] = q[i + 1]
  BY <1>1
<1> HIDE DEF r
<1>6. \A i, j \in DOMAIN r : r[i] = r[j] => i = j
  <2> SUFFICES ASSUME NEW i \in DOMAIN r, NEW j \in DOMAIN r, r[i] = r[j] PROVE i = j
    OBVIOUS
  <2>1. i \in Nat /\ j \in Nat /\ i + 1 \in DOMAIN q /\ j + 1 \in DOMAIN q
    <3>1. i \in 1 .. Len(q) - 1 /\ j \in 1 .. Len(q) - 1 /\ Len(q) \in Nat \ {0}
          /\ DOMAIN q = 1 .. Len(q)
      BY ONLY <1>5, i \in DOMAIN r, j \in DOMAIN r
    <3> QED BY ONLY <3>1
  <2>2. q[i + 1] = q[j + 1]
    BY <1>5
  <2>3. i + 1 = j + 1
    BY <1>3, <2>1, <2>2
  <2> QED BY <2>1, <2>3
<1>7. ListBlocks(q, n) = ListBlocks(r, n) \cup {Block(q[1], n)}
  <2>1. ASSUME NEW i \in DOMAIN q
        PROVE  Block(q[i], n) \in ListBlocks(r, n) \cup {Block(q[1], n)}
    <3>1. i = 1 \/ (i - 1 \in DOMAIN r /\ r[i - 1] = q[i])
      <4>1. ASSUME i # 1 PROVE i - 1 \in DOMAIN r /\ (i - 1) + 1 = i
        <5>1. i \in 1 .. Len(q) /\ Len(q) \in Nat /\ DOMAIN r = 1 .. Len(q) - 1
          BY ONLY <1>5, i \in DOMAIN q
        <5> QED BY ONLY <4>1, <5>1
      <4> QED BY <1>5, <4>1
    <3> QED BY <3>1 DEF ListBlocks
  <2>2. ASSUME NEW i \in DOMAIN r PROVE Block(r[i], n) \in ListBlocks(q, n)
    <3>1. i + 1 \in DOMAIN q /\ r[i] = q[i + 1]
      BY ONLY <1>5, i \in DOMAIN r
    <3> QED BY <3>1 DEF ListBlocks
  <2>3. 1 \in DOMAIN q
    BY <1>5
  <2> QED BY <2>1, <2>2, <2>3 DEF ListBlocks
<1>8. Block(q[1], n) \notin ListBlocks(r, n)
  <2>1. ASSUME NEW i \in DOMAIN r, Block(q[1], n) = Block(r[i], n) PROVE FALSE
    <3>1. q[1] = r[i]
      BY <2>1, BlockParts
    <3>2. i \in Nat \ {0} /\ i + 1 \in DOMAIN q /\ 1 \in DOMAIN q /\ r[i] = q[i + 1]
      BY ONLY <1>5, i \in DOMAIN r
    <3>3. 1 = i + 1
      BY <1>3, <3>1, <3>2
    <3> QED BY <3>2, <3>3
  <2> QED BY <2>1 DEF ListBlocks
<1>9. /\ lists2 \in Lists /\ NoRepeats(lists2)
      /\ Free(lists2) = (Free(lists) \ ListBlocks(q, n)) \cup ListBlocks(r, n)
  <2>1. /\ lists \in Lists /\ n \in Sizes /\ r \in Seq(Nat \ {0}) /\ NoRepeats(lists)
        /\ \A i, j \in DOMAIN r : r[i] = r[j] => i = j
        /\ lists2 = [lists EXCEPT ![n] = r]
    BY <1>2, <1>5, <1>6
  <2>2. /\ lists2 \in Lists /\ NoRepeats(lists2)
        /\ Free(lists2) = (Free(lists) \ ListBlocks(lists[n], n)) \cup ListBlocks(r, n)
    BY ONLY <2>1, Replaced
  <2> QED BY <2>2 DEF q
<1>10. Free(lists2) = Free(lists) \ {Block(q[1], n)}
  BY <1>4, <1>7, <1>8, <1>9
<1>11. Head(lists[n]) = q[1]
  BY <1>5 DEF q
<1>12. Block(q[1], n) \in Free(lists) /\ q[1] \in Nat \ {0}
  <2>1. Block(q[1], n) \in ListBlocks(q, n)
    BY ONLY <1>7, Zenon
  <2>2. Block(q[1], n) \in Free(lists)
    BY ONLY <1>4, <2>1
  <2>3. q[1] \in Nat \ {0}
    BY ONLY <1>5
  <2> QED BY <2>2, <2>3
<1> QED BY <1>9, <1>10, <1>11, <1>12

\* A block is put at the front of a list.
LEMMA Push ==
    ASSUME NEW lists \in Lists, NoRepeats(lists), NEW n \in Sizes, NEW a \in Nat \ {0},
           Block(a, n) \notin Free(lists),
           NEW lists2, lists2 = [lists EXCEPT ![n] = <<a>> \o @]
    PROVE  /\ lists2 \in Lists /\ NoRepeats(lists2)
           /\ Free(lists2) = Free(lists) \cup {Block(a, n)}
<1> DEFINE q == lists[n]
           r == <<a>> \o q
<1>1. q \in Seq(Nat \ {0})
  BY DEF Lists
<1>2. lists2 = [lists EXCEPT ![n] = r]
  OBVIOUS
<1>3. \A i, j \in DOMAIN q : q[i] = q[j] => i = j
  BY DEF NoRepeats
<1>4. ListBlocks(q, n) \subseteq Free(lists)
  BY DEF Free
<1> HIDE DEF q
<1>5. r \in Seq(Nat \ {0}) /\ DOMAIN q = 1 .. Len(q) /\ Len(q) \in Nat
      /\ DOMAIN r = 1 .. Len(q) + 1 /\ r[1] = a /\ \A i \in DOMAIN q : r[i + 1] = q[i]
  BY <1>1
<1> HIDE DEF r
<1>6. \A i \in DOMAIN r : i = 1 \/ (i - 1 \in DOMAIN q /\ r[i] = q[i - 1])
  BY <1>5
<1>7. \A i \in DOMAIN q : i + 1 \in DOMAIN r /\ r[i + 1] = q[i]
  BY <1>5
<1>8. \A i \in DOMAIN q : q[i] # a
  BY <1>4 DEF ListBlocks
<1>9. \A i, j \in DOMAIN r : r[i] = r[j] => i = j
  <2> SUFFICES ASSUME NEW i \in DOMAIN r, NEW j \in DOMAIN r, r[i] = r[j] PROVE i = j
    OBVIOUS
  <2>1. CASE i = 1 \/ j = 1
    BY <1>5, <1>6, <1>8, <2>1
  <2>2. CASE i # 1 /\ j # 1
    <3>1. i - 1 \in DOMAIN q /\ j - 1 \in DOMAIN q /\ q[i - 1] = q[j - 1] /\ i \in Nat /\ j \in Nat
      BY <1>5, <1>6, <2>2
    <3>2. i - 1 = j - 1
      BY <1>3, <3>1
    <3> QED BY <3>1, <3>2
  <2> QED BY <2>1, <2>2
<1>10. ListBlocks(r, n) = ListBlocks(q, n) \cup {Block(a, n)}
  <2>1. ASSUME NEW i \in DOMAIN r PROVE Block(r[i], n) \in ListBlocks(q, n) \cup {Block(a, n)}
    BY <1>5, <1>6 DEF ListBlocks
  <2>2. ASSUME NEW i \in DOMAIN q PROVE Block(q[i], n) \in ListBlocks(r, n)
    <3>1. i + 1 \in DOMAIN r /\ r[i + 1] = q[i]
      BY <1>7
    <3> QED BY <3>1 DEF ListBlocks
  <2>3. Block(a, n) \in ListBlocks(r, n)
    <3>1. 1 \in DOMAIN r /\ r[1] = a
      BY <1>5
    <3> QED BY <3>1 DEF ListBlocks
  <2> QED BY <2>1, <2>2, <2>3 DEF ListBlocks
<1>11. /\ lists2 \in Lists /\ NoRepeats(lists2)
       /\ Free(lists2) = (Free(lists) \ ListBlocks(q, n)) \cup ListBlocks(r, n)
  <2>1. /\ lists \in Lists /\ n \in Sizes /\ r \in Seq(Nat \ {0}) /\ NoRepeats(lists)
        /\ \A i, j \in DOMAIN r : r[i] = r[j] => i = j
        /\ lists2 = [lists EXCEPT ![n] = r]
    BY <1>2, <1>5, <1>9
  <2>2. /\ lists2 \in Lists /\ NoRepeats(lists2)
        /\ Free(lists2) = (Free(lists) \ ListBlocks(lists[n], n)) \cup ListBlocks(r, n)
    BY ONLY <2>1, Replaced
  <2> QED BY <2>2 DEF q
<1> QED BY <1>4, <1>10, <1>11

-----------------------------------------------------------------------------
(* M_Refill                                                                *)

\* The blocks of n units that are cut from the pool.
Cut(s, n, count) == {Block(s + i * n, n) : i \in 0 .. count - 1}

\* They have the units up to the new start, each once.
LEMMA CutCovers ==
    ASSUME NEW s \in Nat \ {0}, NEW n \in Nat \ {0}, NEW count \in Nat
    PROVE  /\ Cut(s, n, count) \in SUBSET Ranges /\ Apart(Cut(s, n, count))
           /\ Covered(Cut(s, n, count)) = s .. (s + count * n) - 1
           /\ count * n \in Nat
           /\ \A i, j \in 0 .. count - 1 : s + i * n = s + j * n => i = j
<1>1. \A i \in 0 .. count - 1 : /\ i \in Nat /\ i + 1 <= count /\ i * n \in Nat
                                /\ s + i * n \in Nat \ {0}
                                /\ (i * n) + n <= count * n
  <2> SUFFICES ASSUME NEW i \in 0 .. count - 1
               PROVE  i \in Nat /\ i + 1 <= count /\ i * n \in Nat
                      /\ s + i * n \in Nat \ {0} /\ (i * n) + n <= count * n
    OBVIOUS
  <2>1. i \in Nat /\ i + 1 \in Nat /\ i + 1 <= count
    OBVIOUS
  <2>2. i * n \in Nat /\ (i + 1) * n = i * n + n /\ (i + 1) * n <= count * n
    BY <2>1, TimesNext, TimesGrows
  <2> QED BY <2>1, <2>2
<1>2. count * n \in Nat
  BY TimesNext
<1>3. \A i \in 0 .. count - 1 : Units(Block(s + i * n, n)) = (s + i * n) .. (s + i * n + n) - 1
  <2> SUFFICES ASSUME NEW i \in 0 .. count - 1
               PROVE  Units(Block(s + i * n, n)) = (s + i * n) .. (s + i * n + n) - 1
    OBVIOUS
  <2> DEFINE a == s + i * n
  <2>1. a \in Nat
    BY <1>1
  <2> HIDE DEF a
  <2>2. Units(Block(a, n)) = a .. (a + n) - 1
    BY <2>1, BlockParts DEF Units
  <2> QED BY <2>2 DEF a
<1>4. \A i, j \in 0 .. count - 1 : i < j => i * n + n <= j * n
  <2> SUFFICES ASSUME NEW i \in 0 .. count - 1, NEW j \in 0 .. count - 1, i < j
               PROVE  i * n + n <= j * n
    OBVIOUS
  <2>1. i \in Nat /\ j \in Nat /\ i + 1 \in Nat /\ i + 1 <= j
    OBVIOUS
  <2> QED BY <2>1, TimesNext, TimesGrows
<1>5. \A i, j \in 0 .. count - 1 : s + i * n = s + j * n => i = j
  <2> SUFFICES ASSUME NEW i \in 0 .. count - 1, NEW j \in 0 .. count - 1,
                      s + i * n = s + j * n, i # j
               PROVE  FALSE
    OBVIOUS
  <2>1. i < j \/ j < i
    OBVIOUS
  <2>2. i * n \in Nat /\ j * n \in Nat
    BY <1>1
  <2>3. i * n + n <= j * n \/ j * n + n <= i * n
    BY <1>4, <2>1
  <2> QED BY <2>2, <2>3
<1>6. Cut(s, n, count) \in SUBSET Ranges
  BY <1>1 DEF Cut, Block, Ranges
<1>7. \A i, j \in 0 .. count - 1 :
        i # j => Units(Block(s + i * n, n)) \cap Units(Block(s + j * n, n)) = {}
  <2> SUFFICES ASSUME NEW i \in 0 .. count - 1, NEW j \in 0 .. count - 1, i # j
               PROVE  ((s + i * n) .. (s + i * n + n) - 1) \cap ((s + j * n) .. (s + j * n + n) - 1) = {}
    BY <1>3
  <2>1. i * n \in Nat /\ j * n \in Nat
    BY <1>1
  <2>2. i * n + n <= j * n \/ j * n + n <= i * n
    <3>1. i < j \/ j < i
      OBVIOUS
    <3> QED BY <1>4, <3>1
  <2> QED BY <2>1, <2>2
<1>8. Apart(Cut(s, n, count))
  BY <1>7 DEF Apart, Cut
<1>9. ASSUME NEW u \in Covered(Cut(s, n, count)) PROVE u \in s .. (s + count * n) - 1
  <2>1. PICK i \in 0 .. count - 1 : u \in Units(Block(s + i * n, n))
    BY DEF Covered, Cut
  <2>2. u \in (s + i * n) .. (s + i * n + n) - 1 /\ i * n \in Nat /\ (i * n) + n <= count * n
    BY <1>1, <1>3, <2>1
  <2> QED BY <1>2, <2>2
<1>10. ASSUME NEW u \in s .. (s + count * n) - 1 PROVE u \in Covered(Cut(s, n, count))
  <2> DEFINE x == u - s
             i == x \div n
  <2>1. x \in Nat /\ x < count * n
    BY <1>2
  <2> HIDE DEF x
  <2>2. i \in Nat /\ i * n <= x /\ x < i * n + n /\ i * n \in Nat
    BY <2>1, Quotient, TimesNext
  <2> HIDE DEF i
  <2>3. i < count
    <3> SUFFICES ASSUME count <= i PROVE FALSE
      BY <2>2
    <3>1. count * n <= i * n
      BY <2>2, TimesGrows
    <3> QED BY <1>2, <2>1, <2>2, <3>1
  <2>4. i \in 0 .. count - 1
    BY <2>2, <2>3
  <2>5. u = s + x
    BY DEF x
  <2>6. u \in (s + i * n) .. (s + i * n + n) - 1
    BY <2>1, <2>2, <2>5
  <2> QED BY <1>3, <2>4, <2>6 DEF Covered, Cut
<1> QED BY <1>2, <1>5, <1>6, <1>8, <1>9, <1>10

\* Cutting blocks from the pool loses nothing.
LEMMA Carve ==
    ASSUME NEW B \in SUBSET Ranges, NEW C, NEW s \in Nat \ {0}, NEW e \in Nat,
           NEW n \in Nat \ {0}, NEW count \in Nat, count * n <= e - s, Partition(B, s, e, C)
    PROVE  /\ Partition(B \cup Cut(s, n, count), s + count * n, e, C)
           /\ B \cap Cut(s, n, count) = {}
<1> DEFINE new == Cut(s, n, count)
           x == count * n
<1>1. /\ new \in SUBSET Ranges /\ Apart(new) /\ Covered(new) = s .. (s + x) - 1 /\ x \in Nat
  BY CutCovers
<1>2. x <= e - s
  OBVIOUS
<1> HIDE DEF new, x
<1>3. Covered(B \cup new) = Covered(B) \cup Covered(new)
  BY DEF Covered
<1>4. Covered(B) \cap s .. e - 1 = {} /\ Covered(B) \cup s .. e - 1 = Covered(C) /\ Apart(B)
  BY DEF Partition
<1>5. s .. e - 1 = (s .. (s + x) - 1) \cup ((s + x) .. e - 1)
  BY <1>1, <1>2
<1>6. (s .. (s + x) - 1) \cap ((s + x) .. e - 1) = {}
  BY <1>1
<1>7. Covered(B) \cap Covered(new) = {}
  BY <1>1, <1>4, <1>5
<1>8. \A b \in B, c \in new : Units(b) \cap Units(c) = {}
  BY <1>7 DEF Covered
<1>9. Apart(B \cup new)
  BY <1>1, <1>4, <1>8 DEF Apart
<1>10. B \cap new = {}
  <2>1. \A b \in B : Units(b) # {}
    BY BlockUnits
  <2> QED BY <1>8, <2>1
<1>11. Partition(B \cup new, s + x, e, C)
  <2>1. Covered(B \cup new) \cap (s + x) .. e - 1 = {}
    BY <1>1, <1>3, <1>4, <1>5, <1>6
  <2>2. Covered(B \cup new) \cup (s + x) .. e - 1 = Covered(C)
    BY <1>1, <1>3, <1>4, <1>5
  <2> QED BY <1>9, <2>1, <2>2 DEF Partition
<1> QED BY <1>10, <1>11 DEF new, x

\* At least one block fits, and not more than the pool holds.
LEMMA FittingFits ==
    ASSUME NEW units \in Nat, NEW n \in Nat \ {0}, n <= units
    PROVE  Fitting(units, n) \in Nat \ {0} /\ Fitting(units, n) * n <= units
<1> DEFINE whole == units \div n
           count == Min({BlockCount, whole})
<1>1. whole \in Nat /\ whole * n <= units /\ units < whole * n + n
  BY Quotient
<1>2. whole # 0
  <2>1. 0 * n = 0
    OBVIOUS
  <2> QED BY <1>1, <2>1
<1> HIDE DEF whole
<1>3. {BlockCount, whole} \subseteq Nat /\ {BlockCount, whole} # {}
  BY <1>1
<1>4. count \in {BlockCount, whole} /\ \A y \in {BlockCount, whole} : count <= y
  BY ONLY <1>3, LeastOf
<1> HIDE DEF count
<1>5. count \in Nat \ {0} /\ count <= whole
  BY <1>1, <1>2, <1>4
<1>6. count * n <= whole * n /\ count * n \in Nat /\ whole * n \in Nat
  BY <1>1, <1>5, TimesGrows, TimesNext
<1>7. count * n <= units
  BY <1>1, <1>6
<1> QED BY <1>5, <1>7 DEF Fitting, count, whole

\* The rest of the cut blocks is what goes on the list.
LEMMA RestIsLinked ==
    ASSUME NEW s \in Nat \ {0}, NEW n \in Nat \ {0}, NEW count \in Nat \ {0}
    PROVE  LET q == LinkRest(s, n, count) IN
           /\ q \in Seq(Nat \ {0}) /\ \A i, j \in DOMAIN q : q[i] = q[j] => i = j
           /\ Cut(s, n, count) = ListBlocks(q, n) \cup {Block(s, n)}
           /\ Block(s, n) \notin ListBlocks(q, n)
<1> DEFINE q == LinkRest(s, n, count)
<1>1. \A i \in Nat : i * n \in Nat
  BY TimesNext
<1>2. \A i \in 1 .. count - 1 : s + i * n \in Nat \ {0}
  BY <1>1
<1>3. q \in [1 .. count - 1 -> Nat \ {0}] /\ DOMAIN q = 1 .. count - 1
      /\ \A i \in 1 .. count - 1 : q[i] = s + i * n
  BY <1>2 DEF LinkRest
<1>4. q \in Seq(Nat \ {0})
  BY <1>3
<1> HIDE DEF q
<1>5. \A i, j \in 0 .. count - 1 : s + i * n = s + j * n => i = j
  BY CutCovers
<1>6. 0 * n = 0
  OBVIOUS
<1>7. s + 0 * n = s
  BY <1>6
<1>8. 0 .. count - 1 = {0} \cup 1 .. count - 1
  OBVIOUS
<1>9. \A i, j \in DOMAIN q : q[i] = q[j] => i = j
  BY <1>3, <1>5, <1>8
<1>10. ListBlocks(q, n) = {Block(s + i * n, n) : i \in 1 .. count - 1}
  BY <1>3 DEF ListBlocks
<1>11. Cut(s, n, count) = {Block(s + 0 * n, n)} \cup {Block(s + i * n, n) : i \in 1 .. count - 1}
  BY <1>8 DEF Cut
<1>12. Block(s, n) \notin ListBlocks(q, n)
  <2>1. ASSUME NEW i \in DOMAIN q, Block(s, n) = Block(q[i], n) PROVE FALSE
    <3>1. s = q[i] /\ i \in 1 .. count - 1
      <4>1. Block(s, n).addr = Block(q[i], n).addr
        BY <2>1
      <4>2. s = q[i]
        BY ONLY <4>1, BlockParts
      <4> QED BY <1>3, <4>2
    <3>2. s + 0 * n = s + i * n /\ 0 \in 0 .. count - 1 /\ i \in 0 .. count - 1 /\ i # 0
      BY <1>3, <1>7, <3>1
    <3> QED BY ONLY <1>5, <3>2
  <2> QED BY <2>1 DEF ListBlocks
<1> QED BY <1>4, <1>7, <1>9, <1>10, <1>11, <1>12 DEF q

\* The blocks that clients have, those on the lists and the pool have the units
\* of the chunks.
Shared(taken, lists, s, e, C) ==
    /\ lists \in Lists /\ NoRepeats(lists)
    /\ taken \in SUBSET Ranges /\ taken \cap Free(lists) = {}
    /\ s \in Nat /\ e \in Nat
    /\ Partition(taken \cup Free(lists), s, e, C)

\* M_Refill takes one block for the client and fills the empty list.
LEMMA RefillShares ==
    ASSUME NEW s \in Nat \ {0}, NEW e \in Nat, NEW n \in Sizes, NEW lists, NEW C,
           n <= e - s, Shared(live, lists, s, e, C), lists[n] = <<>>,
           Refill(s, e, n, lists)
    PROVE  /\ Shared(live', freelist', start', end', C)
           /\ start' \in Nat \ {0} /\ start' <= end' /\ end' = e
           /\ live' = live \cup {Block(s, n)}
<1> DEFINE count == Fitting(e - s, n)
           q     == LinkRest(s, n, count)
           B     == live \cup Free(lists)
<1>1. e - s \in Nat /\ n \in Nat \ {0}
  BY DEF Sizes
<1>2. count \in Nat \ {0} /\ count * n <= e - s
  BY <1>1, FittingFits
<1>3. /\ start' = s + count * n /\ end' = e /\ live' = live \cup {Block(s, n)}
      /\ freelist' = [lists EXCEPT ![n] = q]
  BY DEF Refill
<1>4. /\ lists \in Lists /\ NoRepeats(lists) /\ live \in SUBSET Ranges /\ Partition(B, s, e, C)
      /\ live \cap Free(lists) = {}
  BY DEF Shared
<1> HIDE DEF count
<1>5. B \in SUBSET Ranges
  BY <1>4, FreeAreBlocks
<1>6. /\ q \in Seq(Nat \ {0}) /\ \A i, j \in DOMAIN q : q[i] = q[j] => i = j
      /\ Cut(s, n, count) = ListBlocks(q, n) \cup {Block(s, n)}
      /\ Block(s, n) \notin ListBlocks(q, n)
  BY <1>1, <1>2, RestIsLinked
<1> HIDE DEF q, B
<1>7. /\ Partition(B \cup Cut(s, n, count), s + count * n, e, C)
      /\ B \cap Cut(s, n, count) = {}
  BY <1>1, <1>2, <1>4, <1>5, Carve
<1>8. /\ freelist' \in Lists /\ NoRepeats(freelist')
      /\ Free(freelist') = (Free(lists) \ ListBlocks(lists[n], n)) \cup ListBlocks(q, n)
  <2>1. /\ lists \in Lists /\ n \in Sizes /\ q \in Seq(Nat \ {0}) /\ NoRepeats(lists)
        /\ \A i, j \in DOMAIN q : q[i] = q[j] => i = j
        /\ freelist' = [lists EXCEPT ![n] = q]
    BY <1>3, <1>4, <1>6
  <2> QED BY ONLY <2>1, Replaced
<1>9. ListBlocks(lists[n], n) = {}
  BY DEF ListBlocks
<1>10. Free(freelist') = Free(lists) \cup ListBlocks(q, n)
  BY <1>8, <1>9
<1>11. live' \cup Free(freelist') = B \cup Cut(s, n, count)
  BY <1>3, <1>6, <1>10 DEF B
<1>12. live' \cap Free(freelist') = {}
  BY <1>3, <1>4, <1>6, <1>7, <1>10 DEF B
<1>13. count * n \in Nat
  BY <1>1, <1>2, TimesNext
<1> DEFINE x == count * n
<1>14. x \in Nat /\ x <= e - s /\ start' = s + x
  BY <1>2, <1>3, <1>13
<1> HIDE DEF x
<1>15. start' \in Nat \ {0} /\ start' <= end'
  BY <1>3, <1>14
<1>16. Block(s, n) \in Ranges
  BY <1>1 DEF Block, Ranges
<1>17. live' \in SUBSET Ranges
  BY <1>3, <1>4, <1>16
<1>18. Partition(live' \cup Free(freelist'), start', end', C)
  BY <1>3, <1>7, <1>11
<1> QED BY <1>3, <1>8, <1>12, <1>15, <1>17, <1>18 DEF Shared

-----------------------------------------------------------------------------
(* The invariant of SimpleFreeListAlloc                                    *)

\* What the steps need of each other: the pool begins somewhere when it is not
\* empty, nothing lies at or above the next address of malloc, and a large
\* block that a client has is a chunk of its own.
FreeIInv ==
    /\ Shared(live, freelist, start, end, chunks)
    /\ chunks \in SUBSET Ranges /\ Apart(chunks) /\ AllBelow(chunks, top)
    /\ \A b \in live : b.units > SmallUnits => b \in chunks
    /\ start <= end /\ end <= top /\ (start = 0 => end = 0)
    /\ top \in 1 .. Memory
    /\ heap_size \in Nat /\ heap_size < top

\* What is made of the chunks lies below what they lie below.
LEMMA AllBelowToo ==
    ASSUME NEW B \in SUBSET Ranges, NEW C \in SUBSET Ranges, NEW s, NEW e, NEW t \in Nat,
           Partition(B, s, e, C), AllBelow(C, t)
    PROVE  AllBelow(B, t)
<1> SUFFICES ASSUME NEW b \in B PROVE b.addr + b.units <= t
  BY DEF AllBelow
<1>1. b.addr \in Nat \ {0} /\ b.units \in Nat \ {0}
  BY DEF Ranges
<1>2. (b.addr + b.units) - 1 \in Units(b)
  BY <1>1 DEF Units
<1>3. (b.addr + b.units) - 1 \in Covered(C)
  BY <1>2 DEF Partition, Covered
<1>4. (b.addr + b.units) - 1 < t
  BY <1>3, AboveAll
<1> QED BY <1>1, <1>4

\* The fragment of the pool becomes a free block, of another size than asked for.
LEMMA FragmentKept ==
    ASSUME FreeIInv, NEW n \in Sizes, freelist[n] = <<>>, end - start < n, NEW x \in Nat
    PROVE  Shared(live, KeepFragment, x, x, chunks) /\ KeepFragment[n] = <<>>
<1> DEFINE B == live \cup Free(freelist)
<1>1. /\ freelist \in Lists /\ NoRepeats(freelist) /\ live \in SUBSET Ranges
      /\ live \cap Free(freelist) = {} /\ start \in Nat /\ end \in Nat
      /\ Partition(B, start, end, chunks) /\ start <= end /\ (start = 0 => end = 0)
  BY DEF FreeIInv, Shared
<1>2. CASE ~ (end > start)
  <2>1. KeepFragment = freelist
    BY <1>2 DEF KeepFragment
  <2>2. Partition(B, x, x, chunks)
    BY <1>1, <1>2, EmptyPool
  <2> QED BY <1>1, <2>1, <2>2 DEF Shared
<1>3. CASE end > start
  <2> DEFINE m == end - start
             b == Block(start, m)
             lists2 == [freelist EXCEPT ![m] = <<start>> \o @]
  <2>1. m \in Sizes /\ m # n /\ start \in Nat \ {0} /\ m \in Nat \ {0}
    BY <1>1, <1>3 DEF Sizes
  <2>2. KeepFragment = lists2
    BY <1>3 DEF KeepFragment
  <2>3. lists2[n] = freelist[n]
    BY <1>1, <2>1 DEF Lists
  <2>4. Partition(B \cup {b}, x, x, chunks)
    BY <1>1, <1>3, PoolToBlock
  <2>5. Units(b) = start .. end - 1
    BY <1>1, <1>3 DEF Units, Block
  <2>6. b \notin B
    <3>1. Covered(B) \cap start .. end - 1 = {}
      BY <1>1 DEF Partition
    <3>2. start \in start .. end - 1
      BY <1>1, <1>3
    <3> HIDE DEF B, b
    <3> QED BY <2>5, <3>1, <3>2 DEF Covered
  <2>7. b \in Ranges
    BY <2>1 DEF Block, Ranges
  <2> HIDE DEF m
  <2>8. /\ lists2 \in Lists /\ NoRepeats(lists2) /\ Free(lists2) = Free(freelist) \cup {b}
    <3>1. /\ freelist \in Lists /\ NoRepeats(freelist) /\ m \in Sizes /\ start \in Nat \ {0}
          /\ Block(start, m) \notin Free(freelist)
          /\ lists2 = [freelist EXCEPT ![m] = <<start>> \o @]
      BY <1>1, <2>1, <2>6
    <3>2. /\ lists2 \in Lists /\ NoRepeats(lists2)
          /\ Free(lists2) = Free(freelist) \cup {Block(start, m)}
      BY ONLY <3>1, Push
    <3> QED BY <3>2
  <2> HIDE DEF lists2, b
  <2>9. live \cup Free(lists2) = B \cup {b} /\ live \cap Free(lists2) = {}
    BY <1>1, <2>6, <2>8
  <2>10. Shared(live, lists2, x, x, chunks)
    BY <1>1, <2>4, <2>8, <2>9 DEF Shared
  <2> QED BY <2>2, <2>3, <2>10
<1> QED BY <1>2, <1>3

-----------------------------------------------------------------------------
(* The steps                                                               *)

LEMMA FreeInitial == Init => FreeIInv
<1> SUFFICES ASSUME Init PROVE FreeIInv
  OBVIOUS
<1>1. freelist \in Lists /\ NoRepeats(freelist) /\ Free(freelist) = {}
  <2>1. \A n \in Sizes : freelist[n] = <<>>
    BY DEF Init
  <2>2. freelist \in Lists
    BY DEF Init, Lists
  <2> QED BY <2>1, <2>2 DEF NoRepeats, Free, ListBlocks
<1>2. Partition({}, 0, 0, {})
  BY DEF Partition, Apart, Covered
<1>3. live = {} /\ chunks = {} /\ start = 0 /\ end = 0 /\ heap_size = 0 /\ top = 1
  BY DEF Init
<1>4. live \cup Free(freelist) = {}
  BY <1>1, <1>3
<1>5. Shared(live, freelist, start, end, chunks)
  BY <1>1, <1>2, <1>3, <1>4 DEF Shared
<1> QED BY <1>3, <1>5 DEF FreeIInv, Apart, AllBelow

LEMMA AllocateLargeStep ==
    ASSUME FreeIInv, NEW n \in Nat, AllocateLarge(n)
    PROVE  FreeIInv'
<1> DEFINE b == Block(top, n)
           B == live \cup Free(freelist)
<1>1. /\ n > SmallUnits /\ top + n <= Memory /\ live' = live \cup {b} /\ chunks' = chunks \cup {b}
      /\ top' = top + n /\ start' = start /\ end' = end /\ heap_size' = heap_size
      /\ freelist' = freelist
  BY DEF AllocateLarge
<1>2. /\ freelist \in Lists /\ NoRepeats(freelist) /\ live \in SUBSET Ranges
      /\ live \cap Free(freelist) = {} /\ start \in Nat /\ end \in Nat
      /\ Partition(B, start, end, chunks)
      /\ chunks \in SUBSET Ranges /\ Apart(chunks) /\ AllBelow(chunks, top)
      /\ end <= top /\ top \in Nat \ {0} /\ B \in SUBSET Ranges
  BY FreeAreBlocks DEF FreeIInv, Shared
<1>3. b \in Ranges /\ b.addr = top /\ b.units = n
  BY <1>1, <1>2 DEF Block, Ranges
<1> HIDE DEF b, B
<1>4. AllBelow(B, top)
  BY <1>2, AllBelowToo
<1>5. Partition(B \cup {b}, start, end, chunks \cup {b}) /\ Apart(chunks \cup {b})
  BY <1>2, <1>3, <1>4, AddLarge
<1>6. b \notin B
  BY <1>1, <1>2, <1>3, <1>4 DEF AllBelow
<1>7. live' \cup Free(freelist') = B \cup {b} /\ live' \cap Free(freelist') = {}
  BY <1>1, <1>2, <1>6 DEF B
<1>8. Shared(live', freelist', start', end', chunks')
  BY <1>1, <1>2, <1>3, <1>5, <1>7 DEF Shared
<1>9. AllBelow(chunks', top')
  BY <1>1, <1>2, <1>3 DEF AllBelow, Ranges
<1>10. \A c \in live' : c.units > SmallUnits => c \in chunks'
  BY <1>1 DEF FreeIInv
<1>11. /\ chunks' \in SUBSET Ranges /\ Apart(chunks')
       /\ start' <= end' /\ end' <= top' /\ (start' = 0 => end' = 0)
       /\ top' \in 1 .. Memory /\ heap_size' \in Nat /\ heap_size' < top'
  BY <1>1, <1>2, <1>3, <1>5 DEF FreeIInv
<1> QED BY <1>8, <1>9, <1>10, <1>11 DEF FreeIInv

LEMMA AllocateListedStep ==
    ASSUME FreeIInv, NEW n \in Nat, AllocateListed(n)
    PROVE  FreeIInv'
<1> DEFINE b == Block(Head(freelist[n]), n)
           B == live \cup Free(freelist)
<1>1. /\ n \in Sizes /\ freelist[n] # <<>> /\ live' = live \cup {b}
      /\ freelist' = [freelist EXCEPT ![n] = Tail(@)]
      /\ start' = start /\ end' = end /\ heap_size' = heap_size /\ chunks' = chunks /\ top' = top
  BY DEF AllocateListed
<1>2. /\ freelist \in Lists /\ NoRepeats(freelist) /\ live \in SUBSET Ranges
      /\ live \cap Free(freelist) = {} /\ start \in Nat /\ end \in Nat
      /\ Partition(B, start, end, chunks)
  BY DEF FreeIInv, Shared
<1>3. /\ freelist' \in Lists /\ NoRepeats(freelist') /\ b \in Free(freelist)
      /\ Free(freelist') = Free(freelist) \ {b}
  BY <1>1, <1>2, Pop
<1>4. b \in Ranges /\ b.units = n
  BY <1>2, <1>3, FreeAreBlocks, BlockParts
<1> HIDE DEF b
<1>5. live' \cup Free(freelist') = B /\ live' \cap Free(freelist') = {}
  BY <1>1, <1>2, <1>3
<1>6. Shared(live', freelist', start', end', chunks')
  BY <1>1, <1>2, <1>3, <1>4, <1>5 DEF Shared
<1>7. \A c \in live' : c.units > SmallUnits => c \in chunks'
  BY <1>1, <1>4 DEF FreeIInv, Sizes
<1> QED BY <1>1, <1>6, <1>7 DEF FreeIInv

LEMMA AllocateFromPoolStep ==
    ASSUME FreeIInv, NEW n \in Nat, AllocateFromPool(n)
    PROVE  FreeIInv'
<1>1. /\ n \in Sizes /\ freelist[n] = <<>> /\ end - start >= n /\ Refill(start, end, n, freelist)
      /\ heap_size' = heap_size /\ chunks' = chunks /\ top' = top
  BY DEF AllocateFromPool
<1>2. /\ Shared(live, freelist, start, end, chunks) /\ start \in Nat /\ end \in Nat
      /\ (start = 0 => end = 0)
  BY DEF FreeIInv, Shared
<1>3. start \in Nat \ {0} /\ n <= end - start
  BY <1>1, <1>2 DEF Sizes
<1>4. /\ Shared(live', freelist', start', end', chunks)
      /\ start' \in Nat \ {0} /\ start' <= end' /\ end' = end
      /\ live' = live \cup {Block(start, n)}
  BY <1>1, <1>2, <1>3, RefillShares
<1>5. Block(start, n).units = n
  BY BlockParts
<1>6. \A c \in live' : c.units > SmallUnits => c \in chunks'
  BY <1>1, <1>4, <1>5 DEF FreeIInv, Sizes
<1> QED BY <1>1, <1>4, <1>6 DEF FreeIInv

LEMMA AllocateFromHeapStep ==
    ASSUME FreeIInv, NEW n \in Nat, AllocateFromHeap(n)
    PROVE  FreeIInv'
<1> DEFINE units == UnitsToGet(n)
           chunk == Block(top, units)
           B     == live \cup Free(KeepFragment)
<1>1. /\ n \in Sizes /\ freelist[n] = <<>> /\ end - start < n /\ top + units <= Memory
      /\ Refill(top, top + units, n, KeepFragment)
      /\ chunks' = chunks \cup {chunk} /\ heap_size' = heap_size + units /\ top' = top + units
  BY DEF AllocateFromHeap
<1>2. /\ top \in Nat \ {0} /\ heap_size \in Nat /\ heap_size < top
      /\ chunks \in SUBSET Ranges /\ Apart(chunks) /\ AllBelow(chunks, top)
  BY DEF FreeIInv
<1>3. units \in Nat \ {0} /\ n <= units
  <2>1. /\ n * BlockCount \in Nat /\ n <= n * BlockCount
        /\ 2 * n * BlockCount = 2 * (n * BlockCount)
    <3>1. n * 1 = n /\ 1 <= BlockCount /\ BlockCount * n = n * BlockCount /\ 1 * n = n
      OBVIOUS
    <3>2. 1 * n <= BlockCount * n /\ BlockCount * n \in Nat
      BY <3>1, TimesGrows, TimesNext
    <3>3. 2 * n * BlockCount = 2 * (n * BlockCount)
      OBVIOUS
    <3> QED BY <3>1, <3>2, <3>3
  <2>2. (heap_size \div 2 + 7) \div 8 \in Nat
    BY <1>2
  <2> DEFINE y == n * BlockCount
             z == (heap_size \div 2 + 7) \div 8
  <2>3. units = 2 * y + z
    BY <2>1 DEF UnitsToGet
  <2>4. y \in Nat /\ z \in Nat /\ n <= y /\ n \in Nat \ {0}
    BY <1>1, <2>1, <2>2 DEF Sizes
  <2> HIDE DEF y, z, units
  <2> QED BY <2>3, <2>4
<1> HIDE DEF units
<1>4. chunk \in Ranges /\ chunk.addr = top /\ chunk.units = units
  BY <1>2, <1>3 DEF Block, Ranges
<1> HIDE DEF chunk
<1>5. Shared(live, KeepFragment, top, top, chunks) /\ KeepFragment[n] = <<>>
  BY <1>1, <1>2, FragmentKept
<1>6. /\ KeepFragment \in Lists /\ NoRepeats(KeepFragment) /\ live \in SUBSET Ranges
      /\ live \cap Free(KeepFragment) = {} /\ Partition(B, top, top, chunks)
  BY <1>5 DEF Shared
<1>7. B \in SUBSET Ranges
  BY <1>6, FreeAreBlocks
<1> HIDE DEF B
<1>8. AllBelow(B, top)
  BY <1>2, <1>6, <1>7, AllBelowToo
<1>9. Partition(B, top, top + chunk.units, chunks \cup {chunk}) /\ Apart(chunks \cup {chunk})
  BY <1>2, <1>4, <1>6, <1>7, <1>8, ChunkToPool
<1>10. Shared(live, KeepFragment, top, top + units, chunks')
  BY <1>1, <1>2, <1>3, <1>4, <1>6, <1>9 DEF Shared, B
<1>11. n <= (top + units) - top /\ top + units \in Nat
  BY <1>2, <1>3
<1>12. /\ Shared(live', freelist', start', end', chunks')
       /\ start' \in Nat \ {0} /\ start' <= end' /\ end' = top + units
       /\ live' = live \cup {Block(top, n)}
  BY <1>1, <1>2, <1>5, <1>10, <1>11, RefillShares
<1>13. Block(top, n).units = n
  BY BlockParts
<1>14. \A c \in live' : c.units > SmallUnits => c \in chunks'
  BY <1>1, <1>12, <1>13 DEF FreeIInv, Sizes
<1>15. AllBelow(chunks', top')
  BY <1>1, <1>2, <1>3, <1>4 DEF AllBelow, Ranges
<1>16. chunks' \in SUBSET Ranges /\ Apart(chunks')
  BY <1>1, <1>2, <1>4, <1>9
<1>17. /\ end' <= top' /\ top' \in 1 .. Memory /\ heap_size' \in Nat /\ heap_size' < top'
       /\ (start' = 0 => end' = 0)
  BY <1>1, <1>2, <1>3, <1>12
<1> QED BY <1>12, <1>14, <1>15, <1>16, <1>17 DEF FreeIInv

LEMMA AllocateFromLargerStep ==
    ASSUME FreeIInv, NEW n \in Nat, AllocateFromLarger(n)
    PROVE  FreeIInv'
<1> DEFINE lists  == KeepFragment
           larger == {m \in n .. SmallUnits : lists[m] # <<>>}
           m      == Min(larger)
           head   == Head(lists[m])
           lists2 == [lists EXCEPT ![m] = Tail(@)]
           B      == live \cup Free(lists)
           b      == Block(head, m)
<1>1. /\ n \in Sizes /\ freelist[n] = <<>> /\ end - start < n /\ larger # {}
      /\ Refill(head, head + m, n, lists2)
      /\ heap_size' = heap_size /\ chunks' = chunks /\ top' = top
  BY DEF AllocateFromLarger
<1>2. chunks \in SUBSET Ranges /\ AllBelow(chunks, top) /\ top \in Nat
  BY DEF FreeIInv
<1>3. Shared(live, lists, 0, 0, chunks) /\ lists[n] = <<>>
  BY <1>1, FragmentKept
<1> HIDE DEF lists
<1>4. /\ lists \in Lists /\ NoRepeats(lists) /\ live \in SUBSET Ranges
      /\ live \cap Free(lists) = {} /\ Partition(B, 0, 0, chunks)
  BY <1>3 DEF Shared
<1>5. m \in larger
  <2>1. larger \subseteq Nat /\ larger # {}
    BY <1>1
  <2> HIDE DEF larger
  <2> QED BY <2>1, LeastOf
<1>6. m \in Sizes /\ m \in Nat \ {0} /\ n <= m /\ m # n /\ lists[m] # <<>>
  BY <1>1, <1>3, <1>5 DEF Sizes
<1> HIDE DEF m
<1>7. /\ lists2 \in Lists /\ NoRepeats(lists2) /\ head \in Nat \ {0} /\ b \in Free(lists)
      /\ Free(lists2) = Free(lists) \ {b}
  <2>1. /\ lists \in Lists /\ NoRepeats(lists) /\ m \in Sizes /\ lists[m] # <<>>
        /\ lists2 = [lists EXCEPT ![m] = Tail(@)]
    BY <1>4, <1>6
  <2>2. /\ lists2 \in Lists /\ NoRepeats(lists2) /\ Head(lists[m]) \in Nat \ {0}
        /\ Block(Head(lists[m]), m) \in Free(lists)
        /\ Free(lists2) = Free(lists) \ {Block(Head(lists[m]), m)}
    BY ONLY <2>1, Pop
  <2> QED BY <2>2
<1>8. lists2[n] = <<>>
  BY <1>1, <1>3, <1>4, <1>6 DEF Lists
<1>9. B \in SUBSET Ranges /\ b \in B /\ b.addr = head /\ b.units = m
  BY <1>4, <1>7, FreeAreBlocks, BlockParts
<1> HIDE DEF lists2, b, head
<1>10. Partition(B \ {b}, head, head + m, chunks)
  BY <1>4, <1>9, BlockToPool
<1>11. live \cup Free(lists2) = B \ {b} /\ live \cap Free(lists2) = {}
  BY <1>4, <1>7
<1>12. head + m <= top /\ head + m \in Nat
  <2>1. AllBelow(B, top)
    BY <1>2, <1>4, <1>9, AllBelowToo
  <2> QED BY <1>6, <1>7, <1>9, <2>1 DEF AllBelow
<1>13. Shared(live, lists2, head, head + m, chunks)
  BY <1>4, <1>7, <1>10, <1>11, <1>12 DEF Shared
<1>14. n <= (head + m) - head
  BY <1>6, <1>7
<1>15. /\ Shared(live', freelist', start', end', chunks)
       /\ start' \in Nat \ {0} /\ start' <= end' /\ end' = head + m
       /\ live' = live \cup {Block(head, n)}
  BY <1>1, <1>7, <1>8, <1>12, <1>13, <1>14, RefillShares
<1>16. Block(head, n).units = n
  BY BlockParts
<1>17. \A c \in live' : c.units > SmallUnits => c \in chunks'
  BY <1>1, <1>15, <1>16 DEF FreeIInv, Sizes
<1> QED BY <1>1, <1>12, <1>15, <1>17 DEF FreeIInv

LEMMA DeallocateStep ==
    ASSUME FreeIInv, NEW b \in live, Deallocate(b)
    PROVE  FreeIInv'
<1> DEFINE B == live \cup Free(freelist)
<1>1. /\ live' = live \ {b}
      /\ start' = start /\ end' = end /\ heap_size' = heap_size /\ top' = top
  BY DEF Deallocate
<1>2. /\ freelist \in Lists /\ NoRepeats(freelist) /\ live \in SUBSET Ranges
      /\ live \cap Free(freelist) = {} /\ start \in Nat /\ end \in Nat
      /\ Partition(B, start, end, chunks)
      /\ chunks \in SUBSET Ranges /\ Apart(chunks) /\ AllBelow(chunks, top)
  BY DEF FreeIInv, Shared
<1>3. b.units \in Nat \ {0} /\ b.addr \in Nat \ {0} /\ b = Block(b.addr, b.units)
  BY <1>2 DEF Ranges, Block
<1>4. CASE b.units > SmallUnits
  <2>1. chunks' = chunks \ {b} /\ freelist' = freelist /\ b \in chunks
    BY <1>4 DEF Deallocate, FreeIInv
  <2>2. b \in B
    OBVIOUS
  <2>3. Partition(B \ {b}, start, end, chunks \ {b}) /\ Apart(chunks \ {b})
    BY ONLY <1>2, <2>1, <2>2, DropLarge
  <2>4. live' \cup Free(freelist') = B \ {b} /\ live' \cap Free(freelist') = {}
    BY <1>1, <1>2, <2>1
  <2>5. Shared(live', freelist', start', end', chunks')
    BY <1>1, <1>2, <2>1, <2>3, <2>4 DEF Shared
  <2>6. \A c \in live' : c.units > SmallUnits => c \in chunks'
    BY <1>1, <2>1 DEF FreeIInv
  <2>7. chunks' \in SUBSET Ranges /\ Apart(chunks') /\ AllBelow(chunks', top')
    BY <1>1, <1>2, <2>1, <2>3 DEF AllBelow
  <2> QED BY <1>1, <2>5, <2>6, <2>7 DEF FreeIInv
<1>5. CASE ~ (b.units > SmallUnits)
  <2>1. /\ chunks' = chunks /\ b.units \in Sizes
        /\ freelist' = [freelist EXCEPT ![b.units] = <<b.addr>> \o @]
    BY <1>3, <1>5 DEF Deallocate, Sizes
  <2>2. Block(b.addr, b.units) \notin Free(freelist)
    BY <1>2, <1>3
  <2>3. /\ freelist' \in Lists /\ NoRepeats(freelist')
        /\ Free(freelist') = Free(freelist) \cup {b}
    <3>1. /\ freelist \in Lists /\ NoRepeats(freelist) /\ b.units \in Sizes
          /\ b.addr \in Nat \ {0} /\ Block(b.addr, b.units) \notin Free(freelist)
          /\ freelist' = [freelist EXCEPT ![b.units] = <<b.addr>> \o @]
      BY <1>2, <1>3, <2>1, <2>2
    <3>2. /\ freelist' \in Lists /\ NoRepeats(freelist')
          /\ Free(freelist') = Free(freelist) \cup {Block(b.addr, b.units)}
      BY ONLY <3>1, Push
    <3> QED BY <1>3, <3>2
  <2>4. live' \cup Free(freelist') = B /\ live' \cap Free(freelist') = {}
    BY <1>1, <1>2, <2>3
  <2>5. Shared(live', freelist', start', end', chunks')
    BY <1>1, <1>2, <2>1, <2>3, <2>4 DEF Shared
  <2>6. \A c \in live' : c.units > SmallUnits => c \in chunks'
    BY <1>1, <2>1 DEF FreeIInv
  <2> QED BY <1>1, <2>1, <2>5, <2>6 DEF FreeIInv
<1> QED BY <1>4, <1>5

\* Every step keeps the invariant.
LEMMA FreeStep == FreeIInv /\ [Next]_vars => FreeIInv'
<1> SUFFICES ASSUME FreeIInv, [Next]_vars PROVE FreeIInv'
  OBVIOUS
<1>1. ASSUME NEW n \in 1 .. MaxUnits, Allocate(n) PROVE FreeIInv'
  <2>1. n \in Nat
    OBVIOUS
  <2> QED BY <1>1, <2>1, AllocateLargeStep, AllocateListedStep, AllocateFromPoolStep,
             AllocateFromHeapStep, AllocateFromLargerStep DEF Allocate
<1>2. ASSUME NEW b \in live, Deallocate(b) PROVE FreeIInv'
  BY <1>2, DeallocateStep
<1>3. CASE UNCHANGED vars
  BY <1>3 DEF vars, FreeIInv, Shared
<1> QED BY <1>1, <1>2, <1>3 DEF Next

-----------------------------------------------------------------------------
(* What the invariant says                                                 *)

\* A place on a list and the block it stands for.
LEMMA ListedBlocks ==
    ASSUME FreeIInv
    PROVE  /\ \A p \in Listed : ListedBlock(p) \in Free(freelist)
           /\ \A p, q \in Listed : ListedBlock(p) = ListedBlock(q) => p = q
           /\ \A b \in Free(freelist) : \E p \in Listed : b = ListedBlock(p)
<1>1. NoRepeats(freelist)
  BY DEF FreeIInv, Shared
<1>2. \A p \in Listed : /\ p = <<p[1], p[2]>> /\ p[1] \in Sizes /\ p[2] \in DOMAIN freelist[p[1]]
  BY DEF Listed
<1>3. \A p \in Listed : ListedBlock(p) \in Free(freelist)
  BY <1>2 DEF ListedBlock, Free, ListBlocks
<1>4. ASSUME NEW p \in Listed, NEW q \in Listed, ListedBlock(p) = ListedBlock(q) PROVE p = q
  <2>1. p[1] = q[1] /\ freelist[p[1]][p[2]] = freelist[q[1]][q[2]]
    BY <1>4, BlockParts DEF ListedBlock
  <2>2. p[2] = q[2]
    BY <1>1, <1>2, <2>1 DEF NoRepeats
  <2> QED BY <1>2, <2>1, <2>2
<1>5. ASSUME NEW b \in Free(freelist) PROVE \E p \in Listed : b = ListedBlock(p)
  <2>0. PICK n \in Sizes : b \in ListBlocks(freelist[n], n)
    BY DEF Free
  <2>1. PICK i \in DOMAIN freelist[n] : b = Block(freelist[n][i], n)
    BY <2>0 DEF ListBlocks
  <2>2. <<n, i>> \in Listed
    BY DEF Listed
  <2> QED BY <2>1, <2>2 DEF ListedBlock
<1> QED BY <1>3, <1>4, <1>5

LEMMA FreeTypes == FreeIInv => TypeOK
<1> SUFFICES ASSUME FreeIInv PROVE TypeOK
  OBVIOUS
<1> DEFINE B == live \cup Free(freelist)
<1>1. /\ freelist \in Lists /\ live \in SUBSET Ranges /\ chunks \in SUBSET Ranges
      /\ Partition(B, start, end, chunks) /\ AllBelow(chunks, top) /\ top \in 1 .. Memory
      /\ start \in Nat /\ end \in Nat /\ start <= end /\ heap_size \in Nat /\ heap_size < top
  BY DEF FreeIInv, Shared
<1>2. B \in SUBSET Ranges
  BY <1>1, FreeAreBlocks
<1>3. AllBelow(B, top)
  BY <1>1, <1>2, AllBelowToo
<1>4. \A b \in B \cup chunks : b.addr \in 1 .. Memory /\ b.units \in 1 .. Memory
  BY <1>1, <1>2, <1>3 DEF AllBelow, Ranges
<1>5. ASSUME NEW n \in Sizes PROVE freelist[n] \in Seq(1 .. Memory)
  <2>1. freelist[n] \in Seq(Nat \ {0})
    BY <1>1 DEF Lists
  <2>2. \A i \in DOMAIN freelist[n] : Block(freelist[n][i], n) \in B
    BY DEF Free, ListBlocks
  <2>3. \A i \in DOMAIN freelist[n] : freelist[n][i] \in 1 .. Memory
    BY <1>4, <2>2, BlockParts
  <2> QED BY <2>1, <2>3
<1> QED BY <1>1, <1>4, <1>5 DEF TypeOK

LEMMA FreeOwners == FreeIInv => EveryUnitHasOneOwner
<1> SUFFICES ASSUME FreeIInv PROVE EveryUnitHasOneOwner
  OBVIOUS
<1> DEFINE B == live \cup Free(freelist)
<1>1. Apart(B) /\ Covered(B) \cap start .. end - 1 = {}
      /\ Covered(B) \cup start .. end - 1 = Covered(chunks) /\ live \cap Free(freelist) = {}
  BY DEF FreeIInv, Shared, Partition
<1>2. \A p \in Listed : ListedBlock(p) \in Free(freelist)
  BY ListedBlocks
<1>3. \A p, q \in Listed : p # q => ListedBlock(p) # ListedBlock(q)
  BY ListedBlocks
<1>4. \A b \in B : Units(b) \cap start .. end - 1 = {}
  BY <1>1 DEF Covered
<1>5. NoOverlap
  BY <1>1, <1>2, <1>3, <1>4 DEF NoOverlap, Apart
<1>6. {ListedBlock(p) : p \in Listed} = Free(freelist)
  BY ListedBlocks
<1>7. Covered(B) = Covered(live) \cup Covered(Free(freelist))
  BY DEF Covered
<1>8. NothingLost
  <2>1. Covered(live) \cup Covered(Free(freelist)) \cup start .. end - 1 = Covered(chunks)
    BY ONLY <1>1, <1>7, Zenon
  <2> QED BY ONLY <1>6, <2>1, Zenon DEF NothingLost
<1> QED BY <1>5, <1>8 DEF EveryUnitHasOneOwner

-----------------------------------------------------------------------------
(* Theorems about SimpleFreeListAlloc                                      *)

\* Whatever the sequence of calls, clients, lists and pool share what malloc
\* returned (alloc.cpp).
THEOREM FreeInvariant == Spec => []FreeIInv
<1>1. Init => FreeIInv
  BY FreeInitial
<1>2. FreeIInv /\ [Next]_vars => FreeIInv'
  BY FreeStep
<1> QED BY <1>1, <1>2, PTL DEF Spec

\* TypeOK: the lists hold addresses of the memory malloc handed out, and the
\* pool never ends before it begins (M_ChunkAlloc).
THEOREM FreeTypeCorrect == Spec => []TypeOK
<1> QED BY FreeInvariant, FreeTypes, PTL

\* EveryUnitHasOneOwner: for any sizes of blocks, counts and memory, no unit is
\* with two owners and none is lost (M_ChunkAlloc, M_Refill, Deallocate).
THEOREM OneOwnerTheorem == Spec => []EveryUnitHasOneOwner
<1> QED BY FreeInvariant, FreeOwners, PTL

-----------------------------------------------------------------------------
(* SimpleVectorAlloc                                                       *)

\* The quotient and the remainder.
LEMMA DivMod ==
    \A x \in Nat, n \in Nat \ {0} :
        /\ x \div n \in Nat /\ x % n \in Nat /\ x % n < n
        /\ x = (x \div n) * n + (x % n)
OBVIOUS

\* They are the only ones.
LEMMA ModUnique ==
    \A q, r \in Nat, n \in Nat \ {0} : r < n => ((q * n + r) % n) = r
OBVIOUS

\* The padding ends at the next aligned address.
LEMMA SlopAligns ==
    ASSUME NEW p \in Nat
    PROVE  Slop(p) \in Nat /\ (p + Slop(p)) % Align = 0
<1> DEFINE q == p \div Align
           r == p % Align
<1>1. q \in Nat /\ r \in Nat /\ r < Align /\ p = q * Align + r
  BY DivMod
<1>2. q * Align \in Nat /\ (q + 1) * Align = q * Align + Align
  BY <1>1, TimesNext
<1>3. Slop(p) = (Align - r) % Align
  BY DEF Slop
<1> HIDE DEF q, r
<1>4. CASE r = 0
  <2>1. 1 * Align + 0 = Align /\ q * Align + 0 = q * Align
    BY <1>2
  <2>2. (1 * Align + 0) % Align = 0 /\ (q * Align + 0) % Align = 0
    BY <1>1, ModUnique
  <2>3. Slop(p) = 0
    BY <1>3, <1>4, <2>1, <2>2
  <2>4. p + Slop(p) = q * Align + 0
    BY <1>1, <1>2, <1>4, <2>3
  <2> QED BY <2>2, <2>3, <2>4
<1>5. CASE r # 0
  <2> DEFINE d == Align - r
  <2>1. d \in Nat /\ d < Align
    BY <1>1, <1>5
  <2> HIDE DEF d
  <2>2. 0 * Align + d = d /\ (q + 1) * Align + 0 = (q + 1) * Align /\ q + 1 \in Nat
    BY <1>1, <1>2, <2>1
  <2>3. (0 * Align + d) % Align = d
    BY ONLY <2>1, ModUnique, AlignAssumption
  <2>4. ((q + 1) * Align + 0) % Align = 0
    BY ONLY <2>2, ModUnique, AlignAssumption
  <2>5. Slop(p) = d
    BY <1>3, <2>2, <2>3 DEF d
  <2>6. p + Slop(p) = (q + 1) * Align + 0
    BY <1>1, <1>2, <2>2, <2>5 DEF d
  <2> QED BY <2>1, <2>4, <2>5, <2>6
<1> QED BY <1>4, <1>5

\* The spans of bytes that are not empty.
Spans == {s \in [from : Nat, to : Nat] : s.from <= s.to}

\* A last byte of the blocks, 0 without one.
IsLast(m) ==
    /\ m \in {b.to : b \in blocks} \cup {0}
    /\ \A b \in blocks : b.to <= m

\* Nodes lie before alloc_ptr_, and while there is one block alloc_ptr_ and
\* what remains end at its end.
ArenaIInv ==
    /\ alloc_ptr \in Nat /\ alloc_bytes_remaining \in Nat /\ request \in Nat
    /\ blocks \in SUBSET Spans /\ IsFiniteSet(blocks) /\ allocations \in SUBSET Spans
    /\ alloc_ptr = Null <=> blocks = {}
    /\ blocks = {} => alloc_bytes_remaining = 0 /\ allocations = {}
    /\ \E m \in Nat : IsLast(m)
    /\ \A a \in allocations : a.to < alloc_ptr /\ a.from % Align = 0
    /\ NodesApart
    /\ Cardinality(blocks) = 1 =>
           \A b \in blocks :
               /\ b.from <= alloc_ptr /\ alloc_ptr + alloc_bytes_remaining = b.to + 1
               /\ \A a \in allocations : b.from <= a.from

\* new[] returns an address behind all blocks.
LEMMA NextIsBehind ==
    ASSUME ArenaIInv
    PROVE  NextBlock \in Nat \ {0} /\ \A b \in blocks : b.to < NextBlock
<1> DEFINE T    == {b.to : b \in blocks} \cup {0}
           last == Max(T)
           q    == last \div Align
<1>1. PICK m \in Nat : IsLast(m)
  BY DEF ArenaIInv
<1>2. m \in T /\ \A y \in T : m >= y
  BY <1>1 DEF IsLast
<1>3. last \in T /\ \A y \in T : last >= y
  <2> HIDE DEF T
  <2> QED BY <1>2 DEF Max
<1>4. last \in Nat
  BY <1>3 DEF ArenaIInv, Spans
<1>5. \A b \in blocks : b.to <= last /\ b.to \in Nat
  BY <1>3, <1>4 DEF ArenaIInv, Spans
<1>6. NextBlock = Align * (2 + q)
  BY DEF NextBlock
<1> HIDE DEF T, last
<1>7. q \in Nat /\ last < q * Align + Align /\ q * Align \in Nat
  BY <1>4, Quotient, TimesNext
<1> HIDE DEF q
<1>8. Align * (2 + q) = q * Align + Align + Align
  <2>1. (q + 1) * Align = q * Align + Align /\ ((q + 1) + 1) * Align = (q + 1) * Align + Align
    BY <1>7, TimesNext
  <2>2. Align * (2 + q) = ((q + 1) + 1) * Align
    BY <1>7
  <2> QED BY <2>1, <2>2
<1> QED BY <1>4, <1>5, <1>6, <1>7, <1>8

LEMMA ArenaInitial == ArenaInit => ArenaIInv
<1> SUFFICES ASSUME ArenaInit PROVE ArenaIInv
  OBVIOUS
<1>1. IsFiniteSet({}) /\ Cardinality({}) = 0
  BY FS_EmptySet
<1>2. IsLast(0)
  BY DEF ArenaInit, IsLast
<1> QED BY <1>1, <1>2 DEF ArenaInit, ArenaIInv, NodesApart, Null

LEMMA FittingStep == ArenaIInv /\ AllocateFitting => ArenaIInv'
<1> SUFFICES ASSUME ArenaIInv, AllocateFitting PROVE ArenaIInv'
  OBVIOUS
<1> DEFINE slop == Slop(alloc_ptr)
           from == alloc_ptr + slop
           node == Span(from, request)
<1>1. /\ request # 0 /\ request + slop <= alloc_bytes_remaining
      /\ allocations' = allocations \cup {node} /\ alloc_ptr' = alloc_ptr + (request + slop)
      /\ alloc_bytes_remaining' = alloc_bytes_remaining - (request + slop)
      /\ request' = 0 /\ blocks' = blocks
  BY DEF AllocateFitting, Fits, Needed
<1>2. slop \in Nat /\ from % Align = 0
  BY SlopAligns DEF ArenaIInv
<1>3. /\ alloc_ptr \in Nat /\ alloc_bytes_remaining \in Nat /\ request \in Nat \ {0}
      /\ blocks \in SUBSET Spans /\ allocations \in SUBSET Spans
  BY <1>1 DEF ArenaIInv
<1> HIDE DEF slop
<1>4. from \in Nat /\ alloc_ptr <= from /\ from + request = alloc_ptr'
  BY <1>1, <1>2, <1>3
<1>5. node.from = from /\ node.to = from + request - 1
  BY DEF Span
<1> HIDE DEF from
<1>6. node \in Spans /\ node.from % Align = 0 /\ node.to < alloc_ptr' /\ alloc_ptr <= node.from
  BY <1>2, <1>3, <1>4, <1>5 DEF Spans, Span
<1>7. alloc_ptr' \in Nat \ {0} /\ alloc_bytes_remaining' \in Nat /\ alloc_ptr <= alloc_ptr'
      /\ alloc_ptr' + alloc_bytes_remaining' = alloc_ptr + alloc_bytes_remaining
  BY <1>1, <1>2, <1>3
<1> HIDE DEF node
<1>8. blocks # {}
  BY <1>1, <1>2, <1>3 DEF ArenaIInv
<1>9. \A a \in allocations' : a.to < alloc_ptr' /\ a.from % Align = 0
  BY <1>1, <1>3, <1>6, <1>7 DEF ArenaIInv, Spans
<1>10. NodesApart'
  <2>1. \A a \in allocations : a.to < node.from
    BY <1>3, <1>6 DEF ArenaIInv, Spans
  <2> QED BY <1>1, <2>1 DEF ArenaIInv, NodesApart
<1>11. Cardinality(blocks') = 1 =>
          \A b \in blocks' :
              /\ b.from <= alloc_ptr' /\ alloc_ptr' + alloc_bytes_remaining' = b.to + 1
              /\ \A a \in allocations' : b.from <= a.from
  BY <1>1, <1>3, <1>6, <1>7 DEF ArenaIInv, Spans
<1>12. \E m \in Nat : IsLast(m)'
  BY <1>1 DEF ArenaIInv, IsLast
<1>13. allocations' \in SUBSET Spans /\ blocks' \in SUBSET Spans /\ IsFiniteSet(blocks')
  BY <1>1, <1>3, <1>6 DEF ArenaIInv
<1>14. (alloc_ptr' = Null <=> blocks' = {}) /\ request' \in Nat
  BY <1>1, <1>7, <1>8 DEF Null
<1> QED BY <1>1, <1>7, <1>8, <1>9, <1>10, <1>11, <1>12, <1>13, <1>14 DEF ArenaIInv

LEMMA FallbackStep == ArenaIInv /\ AllocateFallback => ArenaIInv'
<1> SUFFICES ASSUME ArenaIInv, AllocateFallback PROVE ArenaIInv'
  OBVIOUS
<1> DEFINE next  == NextBlock
           block == Span(next, 2 * request)
<1>1. /\ request # 0 /\ blocks' = blocks \cup {block}
      /\ alloc_ptr' = IF alloc_ptr = Null THEN next ELSE alloc_ptr
      /\ alloc_bytes_remaining' = alloc_bytes_remaining + 2 * request
      /\ allocations' = allocations /\ request' = request
  BY DEF AllocateFallback, AllocateNewBlock
<1>2. next \in Nat \ {0} /\ \A b \in blocks : b.to < next
  BY NextIsBehind
<1>3. /\ alloc_ptr \in Nat /\ alloc_bytes_remaining \in Nat /\ request \in Nat \ {0}
      /\ blocks \in SUBSET Spans /\ IsFiniteSet(blocks)
  BY <1>1 DEF ArenaIInv
<1>4. block.from = next /\ block.to = next + 2 * request - 1
  BY DEF Span
<1> HIDE DEF next
<1>5. block \in Spans /\ next <= block.to /\ block.to + 1 = next + 2 * request /\ block.to \in Nat
  BY <1>2, <1>3, <1>4 DEF Spans, Span
<1> HIDE DEF block
<1>6. block \notin blocks
  BY <1>2, <1>3, <1>5 DEF Spans
<1>7. IsFiniteSet(blocks') /\ Cardinality(blocks') = Cardinality(blocks) + 1
      /\ Cardinality(blocks) \in Nat
  BY <1>1, <1>3, <1>6, FS_AddElement, FS_CardinalityType
<1>8. \E m \in Nat : IsLast(m)'
  <2>1. /\ block.to \in {b.to : b \in blocks'} \cup {0}
        /\ \A b \in blocks' : b.to <= block.to
    BY <1>1, <1>2, <1>3, <1>5 DEF Spans
  <2> QED BY <1>5, <2>1 DEF IsLast
<1>9. alloc_ptr' \in Nat \ {0} /\ alloc_bytes_remaining' \in Nat
  BY <1>1, <1>2, <1>3 DEF Null
<1>10. \A a \in allocations' : a.to < alloc_ptr' /\ a.from % Align = 0
  BY <1>1 DEF ArenaIInv
<1>11. ASSUME Cardinality(blocks') = 1, NEW b \in blocks'
       PROVE  /\ b.from <= alloc_ptr' /\ alloc_ptr' + alloc_bytes_remaining' = b.to + 1
              /\ \A a \in allocations' : b.from <= a.from
  <2>1. blocks = {}
    <3>1. Cardinality(blocks) = 0
      BY <1>7, <1>11
    <3> QED BY <1>3, <3>1, FS_EmptySet
  <2>2. b = block /\ alloc_ptr = Null /\ alloc_bytes_remaining = 0 /\ allocations = {}
    BY <1>1, <2>1 DEF ArenaIInv
  <2> QED BY <1>1, <1>2, <1>3, <1>4, <1>5, <2>2
<1>12. NodesApart'
  BY <1>1 DEF ArenaIInv, NodesApart
<1>13. blocks' # {} /\ alloc_ptr' # Null /\ blocks' \in SUBSET Spans /\ allocations' \in SUBSET Spans
  BY <1>1, <1>3, <1>5, <1>9 DEF ArenaIInv, Null
<1> QED BY <1>1, <1>3, <1>5, <1>7, <1>8, <1>9, <1>10, <1>11, <1>12, <1>13 DEF ArenaIInv

LEMMA ArenaStepKeeps == ArenaIInv /\ [ArenaNext]_arena_vars => ArenaIInv'
<1> SUFFICES ASSUME ArenaIInv, [ArenaNext]_arena_vars PROVE ArenaIInv'
  OBVIOUS
<1>1. ASSUME NEW bytes \in 1 .. MaxRequest, Request(bytes) PROVE ArenaIInv'
  <2>1. bytes \in Nat
    OBVIOUS
  <2> QED BY <1>1, <2>1 DEF Request, ArenaIInv, IsLast, NodesApart
<1>2. CASE UNCHANGED arena_vars
  BY <1>2 DEF arena_vars, ArenaIInv, IsLast, NodesApart
<1> QED BY <1>1, <1>2, FittingStep, FallbackStep DEF ArenaNext

LEMMA ArenaSound == ArenaIInv => NodesAreSound
<1> SUFFICES ASSUME ArenaIInv PROVE NodesAreSound
  OBVIOUS
<1>1. NodesApart /\ NodesAligned
  BY DEF ArenaIInv, NodesAligned
<1>2. ASSUME Cardinality(blocks) = 1, NEW a \in allocations, NEW b \in blocks
      PROVE  b.from <= a.from /\ a.to <= b.to
  BY <1>2 DEF ArenaIInv, Spans
<1> QED BY <1>1, <1>2 DEF NodesAreSound, InsideFirstBlock

\* NodesAreSound: for any alignment and any requests, nodes share no byte, are
\* aligned, and lie in the first block while there is no second one
\* (SimpleVectorAlloc::Allocate, AllocateFallback).
THEOREM ArenaTheorem == ArenaSpec => []NodesAreSound
<1>1. ArenaInit => ArenaIInv
  BY ArenaInitial
<1>2. ArenaIInv /\ [ArenaNext]_arena_vars => ArenaIInv'
  BY ArenaStepKeeps
<1>3. ArenaIInv => NodesAreSound
  BY ArenaSound
<1> QED BY <1>1, <1>2, <1>3, PTL DEF ArenaSpec

-----------------------------------------------------------------------------
(* The libraries together                                                  *)

\* Whatever library a behaviour is one of, the types of the free lists and of
\* the appender are right.
THEOREM LibrariesTheorem == LibrariesSpec => []LibrariesTypeOK
<1>1. LibrariesInit => FreeIInv /\ LogIInv
  BY FreeInitial, LogInitInvariant DEF LibrariesInit
<1>2. FreeIInv /\ LogIInv /\ [LibrariesNext]_leaf_vars => FreeIInv' /\ LogIInv'
  <2> SUFFICES ASSUME FreeIInv, LogIInv, [LibrariesNext]_leaf_vars PROVE FreeIInv' /\ LogIInv'
    OBVIOUS
  <2>1. [Next]_vars
    BY DEF LibrariesNext, leaf_vars, free_list_vars, FreeListStep, ArenaStep, LogStep, CodecStep,
           ManifestStep, CrcStep, BlockStep
  <2>2. [LogNext]_vars_of_log
    BY DEF LibrariesNext, leaf_vars, FreeListStep, ArenaStep, LogStep, CodecStep, ManifestStep,
           CrcStep, BlockStep
  <2> QED BY <2>1, <2>2, FreeStep, LogNextInvariant
<1>3. FreeIInv /\ LogIInv => LibrariesTypeOK
  BY FreeTypes DEF LibrariesTypeOK, LogIInv
<1> QED BY <1>1, <1>2, <1>3, PTL DEF LibrariesSpec
==============================================================================

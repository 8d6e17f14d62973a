----------------------------- MODULE LogAppender -----------------------------
(***************************************************************************)
(* Log::LogV (src/src/logger/log.cpp) over AysncFileAppender               *)
(* (src/src/logger/log_appender.cpp): threads append messages to one file, *)
(* which is renamed and reopened when it has grown past rotate_size.       *)
(*                                                                         *)
(* A step reads fd_ outside the mutex, or is a stretch under the mutex     *)
(* between two changes of fd_, the only field read outside it.  LogV's     *)
(* filter and formatting touch nothing shared and are left out; a message  *)
(* is its length and fits LogV's buffer, a file is its size.  A write that *)
(* is cut short is the write of a shorter message.                         *)
(*                                                                         *)
(* Any write, rename or open may fail, fstat may not.  The process may be  *)
(* killed at any point and started again.                                  *)
(***************************************************************************)
EXTENDS Naturals, Sequences, FiniteSets

CONSTANTS Threads,
          NoThread,     \* owner of a free mutex
          Lengths,      \* of what a write writes
          RotateSizes,  \* the values of LogConfig::rotate_size
          SizeModulus,  \* 2^64: cur_file_size is a uint64_t
          MaxCalls,     \* bound on the calls of a thread
          MaxTime,      \* bound on the seconds that pass
          MaxFaults,    \* bound on the system calls that fail
          MaxStarts     \* bound on the processes

ASSUME NoThreadAssumption == NoThread \notin Threads
ASSUME LengthsAssumption  == Lengths \subseteq Nat \ {0}
ASSUME SizeModulusAssumption == SizeModulus \in Nat \ {0}
ASSUME RotateSizesAssumption == \A size \in RotateSizes : size \in Nat /\ size < SizeModulus - 1
ASSUME LogBoundsAssumption == {MaxCalls, MaxTime, MaxFaults, MaxStarts} \subseteq Nat

VARIABLES
    rotate_size,    \* of the configuration
    fd,             \* fd_: the number of a file, Closed for -1
    cur_file_size,
    mutex,          \* mutex_: the thread that holds it
    at,             \* where each thread is in Append and Rotate
    calls,          \* how many calls each thread made
    active,         \* the file named corekv_active.log, Closed if none
    rotated,        \* the other files of the directory by [time, pid]
    sizes,          \* of every file ever created, in that order
    clock,          \* GetCurrentTimeString: whole seconds
    pid,            \* GetCurrentPid
    faults,         \* system calls that have failed
    rotations,      \* history: the renames that succeeded
    tainted,        \* history: the files with a failed write or rename
    open_failed     \* history: the last open failed

files == <<active, rotated, sizes, rotations>>
vars_of_log == <<rotate_size, fd, cur_file_size, mutex, at, calls, files,
                 clock, pid, faults, tainted, open_failed>>

Closed == 0

\* One more system call fails.
Fault == faults < MaxFaults /\ faults' = faults + 1

-----------------------------------------------------------------------------
(* open(active_file_name_, O_CREAT | O_WRONLY | O_APPEND)                   *)

\* Mutant: a file that is there is not found.
AlwaysNew == Len(sizes) + 1

\* The file that open returns: the one there is, or a new one.
Opened == IF active # Closed THEN active ELSE Len(sizes) + 1

\* Mutant: the new descriptor is not stored.
DescriptorLost(new) == fd' = fd

StoreDescriptor(new) == fd' = new

OpenSucceeds ==
    /\ StoreDescriptor(Opened)
    /\ active' = Opened
    /\ sizes' = IF active # Closed THEN sizes ELSE Append(sizes, 0)
    /\ open_failed' = FALSE
    /\ UNCHANGED <<rotated, rotations, faults>>

OpenFails ==
    /\ Fault
    /\ open_failed' = TRUE
    /\ UNCHANGED files

\* Mutant: a file that is opened again is taken for empty.
SizeUnknown == 0

\* fstat: st_size of the file that Open opens.
SizeFound == IF active # Closed THEN sizes[active] ELSE 0

LogInit ==
    /\ rotate_size \in RotateSizes
    /\ fd = 1 /\ active = 1 /\ sizes = <<0>>
    /\ rotated = << >> /\ rotations = {}
    /\ cur_file_size = 0
    /\ mutex = NoThread
    /\ at = [t \in Threads |-> "idle"]
    /\ calls = [t \in Threads |-> 0]
    /\ clock = 0 /\ pid = 1 /\ faults = 0
    /\ tainted = {} /\ open_failed = FALSE

-----------------------------------------------------------------------------
(* Append                                                                  *)

\* Append reads fd_ before it takes the mutex, and drops the message without a
\* trace when it is -1.
FileIsOpen == fd # Closed

LogV(t) ==
    /\ at[t] = "idle"
    /\ calls[t] < MaxCalls
    /\ calls' = [calls EXCEPT ![t] = @ + 1]
    /\ at' = [at EXCEPT ![t] = IF FileIsOpen THEN "waiting" ELSE "idle"]
    /\ UNCHANGED <<rotate_size, fd, cur_file_size, mutex, files, clock, pid, faults,
                   tainted, open_failed>>

MustRotate(size) == rotate_size > 0 /\ size > rotate_size

\* Mutant: a failed write counts as nothing.
IgnoreFailure(size) == size

\* cur_file_size += ret where ret is -1.
SubtractOne(size) == (size + SizeModulus - 1) % SizeModulus

\* Mutant: the mutex is not taken.
MutexIgnored == TRUE

MutexFree == mutex = NoThread

\* A file stays shorter than 2^64 bytes: off_t, which is signed, ends before.
WriteReturns(n) ==
    /\ fd # Closed
    /\ sizes[fd] + n < SizeModulus
    /\ sizes' = [sizes EXCEPT ![fd] = @ + n]
    /\ cur_file_size' = (cur_file_size + n) % SizeModulus
    /\ UNCHANGED <<faults, tainted>>

\* write fails, on any error, and always on a descriptor that is -1.
WriteFails ==
    /\ IF fd = Closed THEN UNCHANGED faults ELSE Fault
    /\ cur_file_size' = SubtractOne(cur_file_size)
    /\ tainted' = (tainted \cup {fd}) \ {Closed}
    /\ UNCHANGED sizes

Write(t) ==
    /\ at[t] = "waiting"
    /\ MutexFree
    /\ WriteFails \/ \E n \in Lengths : WriteReturns(n)
    /\ \/ /\ MustRotate(cur_file_size')
          /\ mutex' = t
          /\ at' = [at EXCEPT ![t] = "rotating"]
       \/ /\ ~ MustRotate(cur_file_size')
          /\ at' = [at EXCEPT ![t] = "idle"]
          /\ UNCHANGED mutex
    /\ UNCHANGED <<rotate_size, fd, calls, active, rotated, rotations, clock,
                   pid, open_failed>>

-----------------------------------------------------------------------------
(* Rotate                                                                  *)

\* Mutant: the name has the process but not the second.
NameOfProcess == [time |-> 0, pid |-> pid]

\* GenerateLogFileName.
LogFileName == [time |-> clock, pid |-> pid]

\* rename replaces a file that has the name already.
RenameSucceeds ==
    /\ active # Closed
    /\ rotated' = [name \in DOMAIN rotated \cup {LogFileName} |->
                      IF name = LogFileName THEN active ELSE rotated[name]]
    /\ rotations' = rotations \cup {[file |-> active, time |-> clock, pid |-> pid]}
    /\ active' = Closed
    /\ UNCHANGED <<sizes, faults, tainted>>

\* rename fails, and always when there is no active file; nobody looks.
RenameFails ==
    /\ IF active = Closed THEN UNCHANGED faults ELSE Fault
    /\ tainted' = (tainted \cup {active}) \ {Closed}
    /\ UNCHANGED files

\* rename, cur_file_size = 0 and Close.
MoveAside(t) ==
    /\ at[t] = "rotating"
    /\ RenameSucceeds \/ RenameFails
    /\ cur_file_size' = 0
    /\ fd' = Closed
    /\ at' = [at EXCEPT ![t] = "reopening"]
    /\ UNCHANGED <<rotate_size, mutex, calls, clock, pid, open_failed>>

\* Mutant: the early return of a failed open keeps the mutex.
UnlockUnlessFailed(t) == IF open_failed' THEN mutex' = mutex ELSE mutex' = NoThread

\* The lock_guard releases the mutex on every path.
Unlock(t) == mutex' = NoThread

\* Rotate's open, its early return when it fails, and the end of Append.
Reopen(t) ==
    /\ at[t] = "reopening"
    /\ OpenSucceeds \/ (OpenFails /\ UNCHANGED fd)
    /\ Unlock(t)
    /\ at' = [at EXCEPT ![t] = "idle"]
    /\ UNCHANGED <<rotate_size, cur_file_size, calls, clock, pid, tainted>>

-----------------------------------------------------------------------------
(* The process and its clock                                               *)

\* The process is killed and started again: Open finds the active file.
Restart ==
    /\ pid < MaxStarts
    /\ pid' = pid + 1
    /\ \/ OpenSucceeds /\ cur_file_size' = SizeFound
       \/ OpenFails /\ fd' = Closed /\ cur_file_size' = 0
    /\ tainted' = tainted \ {active}
    /\ mutex' = NoThread
    /\ at' = [t \in Threads |-> "idle"]
    /\ UNCHANGED <<rotate_size, calls, clock>>

Tick ==
    /\ clock < MaxTime
    /\ clock' = clock + 1
    /\ UNCHANGED <<rotate_size, fd, cur_file_size, mutex, at, calls, files, pid,
                   faults, tainted, open_failed>>

ThreadStep(t) == Write(t) \/ MoveAside(t) \/ Reopen(t)

LogNext ==
    \/ \E t \in Threads : LogV(t) \/ ThreadStep(t)
    \/ Restart
    \/ Tick

LogSpec == LogInit /\ [][LogNext]_vars_of_log

-----------------------------------------------------------------------------
(* Properties *)

Files == 1 .. Len(sizes)

LogTypeOK ==
    /\ rotate_size \in RotateSizes
    /\ sizes \in Seq(Nat)
    /\ fd \in {Closed} \cup Files /\ active \in {Closed} \cup Files
    /\ cur_file_size \in 0 .. SizeModulus - 1
    /\ mutex \in Threads \cup {NoThread}
    /\ at \in [Threads -> {"idle", "waiting", "rotating", "reopening"}]
    /\ calls \in [Threads -> 0 .. MaxCalls]
    /\ \A name \in DOMAIN rotated : rotated[name] \in Files
    /\ tainted \subseteq Files

\* Outside the mutex fd_ is open on the file that has the active name, and
\* cur_file_size is its size.  A failed write or rename disturbs the size, and
\* only until the next rotation or restart.
SizeIsTracked ==
    mutex = NoThread /\ fd # Closed =>
        /\ active = fd
        /\ fd \notin tainted => cur_file_size = sizes[fd]

\* A file that is moved aside is past rotate_size: in particular the counter
\* that wraps around zero when a write fails in an empty file moves aside no
\* other file than that one.
RotatedAreFull ==
    \A r \in rotations : r.file \notin tainted => sizes[r.file] > rotate_size

\* The directory loses a file only to a rotation of the same process in the
\* same second, the names having no finer parts.
OnlySameSecondLoses ==
    \A file \in Files :
        \/ file = active
        \/ \E name \in DOMAIN rotated : rotated[name] = file
        \/ \E r, s \in rotations : r.file = file /\ s.file > file
                                    /\ s.time = r.time /\ s.pid = r.pid

\* Messages are dropped at the test of fd_ only while a thread is between
\* Rotate's close and its open, or after an open that failed.
ClosedOnlyInRotation ==
    fd = Closed => open_failed \/ (mutex # NoThread /\ at[mutex] = "reopening")

\* A call that had passed the test of fd_ when an open failed opens the file
\* again, because the failed write takes cur_file_size from 0 past rotate_size.
WaiterReopens ==
    [][\A t \in Threads :
          at[t] = "waiting" /\ fd = Closed /\ at'[t] # "waiting" /\ pid' = pid
              => at'[t] = "rotating"]_vars_of_log

\* Append returns, when the mutex is free at last for each who waits for it.
AppendReturns == \A t \in Threads : at[t] # "idle" ~> at[t] = "idle"

\* Whatever fails and whenever the process dies, the descriptor and the size
\* are those of the active file, but for a rotation in progress and after an
\* open that failed.
DescriptorIsTracked == SizeIsTracked /\ ClosedOnlyInRotation

\* A rotation moves full files aside, and replaces no other of the directory
\* than one of the same second.
RotationKeepsFiles == RotatedAreFull /\ OnlySameSecondLoses
=============================================================================

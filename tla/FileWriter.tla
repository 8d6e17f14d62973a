----------------------------- MODULE FileWriter -----------------------------
(***************************************************************************)
(* FileWriter (src/src/file/file.cpp): a buffer of BufferSize bytes in     *)
(* front of write(2), which may write a part of what it is given, be       *)
(* interrupted, or fail.  A step is one call of write, or what the code    *)
(* does between two of them; one thread uses a writer.                     *)
(*                                                                         *)
(* A byte carries its number in the stream of everything handed to Append, *)
(* and an item that tells what it is to the caller.  An interrupted write  *)
(* (EINTR) changes nothing and is called again: it is a stuttering step.   *)
(***************************************************************************)
EXTENDS Integers, Sequences, SequencesExt

CONSTANTS BufferSize,  \* kMaxFileBufferSize
          MaxFailures  \* bound on the calls of write that fail

ASSUME BufferSizeAssumption == BufferSize \in Nat \ {0}
ASSUME MaxFailuresAssumption == MaxFailures \in Nat

VARIABLES
    file,      \* the bytes that reached the file
    buffer,    \* buffer_[0 .. current_pos_ - 1]
    pending,   \* what Writen has still to write
    rest,      \* the data of an Append that follows what pending writes
    call,      \* the call in progress; "rest" is the second Writen of Append
    result,    \* whether the last call that returns a status returned kSuccess
    is_open,   \* fd_ > -1
    appended,  \* the number of bytes handed to Append
    failures   \* the number of calls of write that failed

file_vars == <<file, buffer, pending, rest, call, result, is_open, appended, failures>>

FileInit ==
    /\ file = <<>> /\ buffer = <<>> /\ pending = <<>> /\ rest = <<>>
    /\ call = "none"
    /\ result = TRUE
    /\ is_open = TRUE
    /\ appended = 0
    /\ failures = 0

Numbered(items) ==
    [i \in 1 .. Len(items) |-> [number |-> appended + i, item |-> items[i]]]

\* Mutant: the room left does not depend on what is buffered.
RoomOfEmptyBuffer == BufferSize

Room == BufferSize - Len(buffer)

\* What fits goes to the buffer; when something is left, the full buffer is
\* written first.
AppendBytes(items) ==
    LET data == Numbered(items)
    IN  /\ call = "none"
        /\ appended' = appended + Len(items)
        /\ IF Len(data) <= Room
           THEN /\ buffer' = buffer \o data
                /\ result' = TRUE
                /\ UNCHANGED <<pending, rest, call>>
           ELSE /\ pending' = buffer \o SubSeq(data, 1, Room)
                /\ rest' = SubSeq(data, Room + 1, Len(data))
                /\ buffer' = <<>>
                /\ call' = "append"
                /\ UNCHANGED result
        /\ UNCHANGED <<file, is_open, failures>>

FlushBuffer ==
    /\ call = "none"
    /\ call' = "flush"
    /\ pending' = buffer
    /\ buffer' = <<>>
    /\ UNCHANGED <<file, rest, result, is_open, appended, failures>>

\* Mutant: ptr does not advance past what was written.
WriteSameAgain(n) ==
    /\ file' = file \o SubSeq(pending, 1, n)
    /\ pending' = SubSeq(pending, 1, Len(pending) - n)
    /\ UNCHANGED <<buffer, rest, call, result, is_open, appended, failures>>

\* write(2) takes the first n bytes of what Writen has left.
WriteSome(n) ==
    /\ file' = file \o SubSeq(pending, 1, n)
    /\ pending' = SubSeq(pending, n + 1, Len(pending))
    /\ UNCHANGED <<buffer, rest, call, result, is_open, appended, failures>>

\* write(2) fails: whatever the call had left is dropped.  Close closes the
\* file all the same and returns nothing.
WriteFails ==
    /\ pending # <<>>
    /\ failures < MaxFailures
    /\ failures' = failures + 1
    /\ pending' = <<>>
    /\ rest' = <<>>
    /\ call' = "none"
    /\ result' = IF call = "close" THEN result ELSE FALSE
    /\ is_open' = (is_open /\ call # "close")
    /\ UNCHANGED <<file, buffer, appended>>

\* Mutant: what does not fit is not copied into the emptied buffer.
BufferNothing == buffer' = <<>>

BufferRest == buffer' = rest

\* Writen returns: to Append, which writes or buffers the rest, ...
AppendRest ==
    /\ call = "append" /\ pending = <<>>
    /\ rest' = <<>>
    /\ IF Len(rest) < BufferSize
       THEN /\ BufferRest
            /\ call' = "none"
            /\ result' = TRUE
            /\ UNCHANGED pending
       ELSE /\ pending' = rest
            /\ call' = "rest"
            /\ UNCHANGED <<buffer, result>>
    /\ UNCHANGED <<file, is_open, appended, failures>>

\* ... or to the end of Append, of FlushBuffer, or of Close.
Written ==
    /\ call \in {"rest", "flush", "close"} /\ pending = <<>>
    /\ call' = "none"
    /\ result' = IF call = "close" THEN result ELSE TRUE
    /\ is_open' = (is_open /\ call # "close")
    /\ UNCHANGED <<file, buffer, pending, rest, appended, failures>>

Close ==
    /\ call = "none"
    /\ call' = "close"
    /\ pending' = buffer
    /\ buffer' = <<>>
    /\ UNCHANGED <<file, rest, result, is_open, appended, failures>>

FileStep ==
    \/ \E n \in 1 .. Len(pending) : WriteSome(n)
    \/ WriteFails
    \/ AppendRest
    \/ Written

\* What an owner may do with a writer: nothing more once it is closed.
FileCall(Bytes) ==
    is_open /\ ((\E items \in Seq(Bytes) : AppendBytes(items)) \/ FlushBuffer \/ Close)

FileSpec(Bytes) == FileInit /\ [][FileCall(Bytes) \/ FileStep]_file_vars

-----------------------------------------------------------------------------
(* Properties *)

\* Everything on its way to the file, in the order it will get there.
Stream == file \o pending \o rest \o buffer

FileTypeOK ==
    /\ Len(buffer) <= BufferSize
    /\ call \in {"none", "append", "rest", "flush", "close"}
    /\ pending # <<>> => call # "none" /\ is_open
    /\ rest # <<>> => call = "append" /\ buffer = <<>>
    /\ {result, is_open} \subseteq BOOLEAN
    /\ appended \in Nat /\ failures \in 0 .. MaxFailures

\* Through partial writes, interrupts, failures and the two paths around the
\* buffer, no byte overtakes another or reaches the file twice.
KeptInOrder ==
    \A i, j \in 1 .. Len(Stream) : i < j => Stream[i].number < Stream[j].number

\* Only a failing write loses bytes: without one, what Append was given is in
\* the file, followed by what Writen, Append and the buffer still have.
OnlyFailureLoses ==
    failures = 0 =>
        /\ Len(Stream) = appended
        /\ \A i \in 1 .. Len(Stream) : Stream[i].number = i

\* The stream of bytes survives whatever write(2) does: its order always, and
\* all of it while write(2) does not fail.
StreamIsKept == KeptInOrder /\ OnlyFailureLoses
=============================================================================

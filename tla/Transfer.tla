------------------------------ MODULE Transfer ------------------------------
(***************************************************************************)
(* The bytes of READ and WRITE: the loops of processRead, processWrite and *)
(* writeFile, whose read() and write() may each take a part of what is     *)
(* asked, the one read() with which readFile takes its data, the file on   *)
(* the server and the server's descriptors.  How the two sides agree on    *)
(* what comes next in the stream, and what they do when nothing comes, is  *)
(* the subject of Session: here every field arrives.                       *)
(*                                                                         *)
(* Byte i of the buffer of call k is <<k, i>>.                             *)
(***************************************************************************)
EXTENDS Integers, Sequences

CONSTANTS
  Length,    \* of the file at first
  MaxSize,   \* of a buffer
  MaxOffset, \* of a call, which may lie behind the end of the file
  MaxCalls,  \* how many calls are made
  MaxFds,    \* how many descriptors the session's process can have open
  Faults     \* a subset of FaultKinds

FaultKinds ==
  { "diskFull",   \* write() on the file takes a part of its bytes, or fails
    "ioError",    \* read() on the file fails
    "shortRead" } \* the client's read() returns a first part of the data

ASSUME TransferAssumption ==
  /\ {Length, MaxSize, MaxOffset, MaxCalls, MaxFds} \subseteq Nat
  /\ Faults \subseteq FaultKinds

VARIABLES
  file,     \* the bytes of the file
  fds,      \* how many descriptors are open
  pc,       \* "idle", "loop" in a handler, "reply" when READ's data has been
            \* sent, or "torn": the call has left data in the stream
  op,       \* the call in progress, or the last one
  id,       \* its number
  size,     \* its parameters
  offset,
  at,       \* the position of fd
  sent,     \* how many bytes writeFile has written to the socket
  total_read, total_written, \* the counters of the handlers
  error,    \* their variable error
  data,     \* buf of processRead
  received, \* data of readFile
  result,   \* what the last call returned
  before,   \* the file when it began
  gap       \* it has written a chunk behind one of which it wrote a part

fileVars == <<file, fds>>
opVars   == <<op, id, size, offset, before>>
cntVars  == <<at, sent, total_read, total_written, gap>>
vars == <<fileVars, pc, opVars, cntVars, error, data, received, result>>

Byte == (0..MaxCalls) \X Nat

\* A byte that was never written, of a hole or of a fresh vector.
Zero == <<0, 0>>

TypeOK ==
  /\ {file, data, received, before} \subseteq Seq(Byte)
  /\ fds \in 0..MaxFds
  /\ gap \in BOOLEAN
  /\ pc \in {"idle", "loop", "reply", "torn"}
  /\ op \in {"READ", "WRITE"}
  /\ id \in 0..MaxCalls
  /\ size \in 0..MaxSize
  /\ {offset, at} \subseteq Nat
  /\ sent \in 0..size
  /\ total_read \in 0..size /\ total_written \in 0..total_read
  /\ error \in -1..MaxSize /\ result \in -1..MaxSize

\* The file's bytes from position p on, at most n of them.
Part(p, n) ==
  SubSeq(file, p + 1, IF p + n <= Len(file) THEN p + n ELSE Len(file))

\* Bytes i+1 to i+n of the buffer of this call.
Buffer(i, n) == [j \in 1..n |-> <<id, i + j>>]

\* f with `bytes' from position p on, and a hole before them if f ends before p.
Overwrite(f, p, bytes) ==
  LET end == p + Len(bytes)
  IN [i \in 1..(IF end > Len(f) THEN end ELSE Len(f)) |->
        IF i > p /\ i <= end THEN bytes[i - p]
        ELSE IF i <= Len(f) THEN f[i] ELSE Zero]

Init ==
  /\ file = [i \in 1..Length |-> <<0, i>>]
  /\ fds = 0
  /\ pc = "idle" /\ op = "READ" /\ id = 0 /\ size = 0 /\ offset = 0
  /\ at = 0 /\ sent = 0 /\ total_read = 0 /\ total_written = 0
  /\ error = 0 /\ data = <<>> /\ received = <<>> /\ result = 0
  /\ before = file /\ gap = FALSE

-----------------------------------------------------------------------------
\* Mutant of Start: lseek() is forgotten.
StartUnsought(c, n, p) ==
  /\ pc = "idle" /\ id < MaxCalls
  /\ op' = c /\ id' = id + 1 /\ size' = n /\ offset' = p /\ before' = file
  /\ data' = <<>> /\ received' = <<>> /\ error' = 0
  /\ sent' = 0 /\ total_read' = 0 /\ total_written' = 0 /\ gap' = FALSE
  /\ IF fds < MaxFds
     THEN fds' = fds + 1 /\ at' = 0 /\ pc' = "loop" /\ UNCHANGED result
     ELSE result' = -1 /\ UNCHANGED <<fds, at, pc>>
  /\ UNCHANGED file

\* A call reaches its handler, which opens the file and seeks.  With no
\* descriptor left open() fails; a file that is missing ends the call as well.
Start(c, n, p) ==
  /\ pc = "idle" /\ id < MaxCalls
  /\ op' = c /\ id' = id + 1 /\ size' = n /\ offset' = p /\ before' = file
  /\ data' = <<>> /\ received' = <<>> /\ error' = 0
  /\ sent' = 0 /\ total_read' = 0 /\ total_written' = 0 /\ gap' = FALSE
  /\ IF fds < MaxFds
     THEN fds' = fds + 1 /\ at' = p /\ pc' = "loop" /\ UNCHANGED result
     ELSE result' = -1 /\ UNCHANGED <<fds, at, pc>>
  /\ UNCHANGED file

InLoop(c) == pc = "loop" /\ op = c

\* Mutant of AtEnd: a read() of nothing is no reason to stop.
AtEndGoOn ==
  /\ at >= Len(file)
  /\ error' = 0
  /\ UNCHANGED <<pc, data, at, total_read>>

\* The file ends before the buffer is full.
AtEnd ==
  /\ at >= Len(file)
  /\ error' = total_read /\ pc' = "reply"
  /\ UNCHANGED <<data, at, total_read>>

\* processRead: read() returns some of the bytes that are left, or 0.
ReadSome ==
  /\ InLoop("READ") /\ total_read # size
  /\ \/ \E n \in 1..(size - total_read) :
          /\ at + n <= Len(file)
          /\ data' = data \o Part(at, n)
          /\ at' = at + n /\ total_read' = total_read + n /\ error' = n
          /\ UNCHANGED pc
     \/ AtEnd
  /\ UNCHANGED <<fileVars, opVars, sent, total_written, gap, received, result>>

ReadFails ==
  /\ InLoop("READ") /\ total_read # size
  /\ "ioError" \in Faults
  /\ result' = -1 /\ error' = -1 /\ pc' = "idle"
  /\ UNCHANGED <<fileVars, opVars, cntVars, data, received>>

\* Mutant of ReadDone: one read() is enough.
ReadDoneEarly ==
  /\ InLoop("READ") /\ (total_read = size \/ error > 0)
  /\ error' = total_read /\ pc' = "reply"
  /\ UNCHANGED <<fileVars, opVars, cntVars, data, received, result>>

\* All of it has been read, and is sent; fd is never closed.
ReadDone ==
  /\ InLoop("READ") /\ total_read = size
  /\ error' = total_read /\ pc' = "reply"
  /\ UNCHANGED <<fileVars, opVars, cntVars, data, received, result>>

\* readFile sizes its vector by what was sent, fills it with one read() and
\* returns it with the number of bytes it got, if that is less than the error.
ReceiveData ==
  /\ pc = "reply"
  /\ \E n \in 0..total_read :
       /\ n = total_read \/ (n > 0 /\ "shortRead" \in Faults)
       /\ received' = [i \in 1..total_read |-> IF i <= n THEN data[i] ELSE Zero]
       /\ result' = n
       /\ pc' = IF n = total_read THEN "idle" ELSE "torn"
  /\ UNCHANGED <<fileVars, opVars, cntVars, error, data>>

\* Mutant of SendSome: write() is asked for the whole buffer again.
SendWhole ==
  /\ InLoop("WRITE") /\ sent # size
  /\ \E n \in 1..size : sent' = sent + n
  /\ UNCHANGED <<fileVars, pc, opVars, at, total_read, total_written, gap>>
  /\ UNCHANGED <<error, data, received, result>>

\* writeFile: write() takes some of the bytes that are left.
SendSome ==
  /\ InLoop("WRITE")
  /\ \E n \in 1..(size - sent) : sent' = sent + n
  /\ UNCHANGED <<fileVars, pc, opVars, at, total_read, total_written, gap>>
  /\ UNCHANGED <<error, data, received, result>>

\* Mutant of Chunk: the chunk is taken from behind its end.
ChunkBehind(n) == Buffer(total_read + n, n)

\* &data[0] + total_read - error, once total_read counts it.
Chunk(n) == Buffer(total_read, n)

\* processWrite: read() returns n of the bytes that have come, and write() puts m
\* of them into the file, all of them while there is room.  The loop goes on with
\* the next chunk all the same, at the position that the short write() has left.
WriteSome ==
  /\ InLoop("WRITE") /\ total_read # size
  /\ \E n \in 1..(sent - total_read) : \E m \in 1..n :
       /\ m = n \/ "diskFull" \in Faults
       /\ file' = Overwrite(file, at, SubSeq(Chunk(n), 1, m))
       /\ at' = at + m
       /\ total_read' = total_read + n /\ total_written' = total_written + m
       /\ error' = m
  /\ gap' = (gap \/ total_written < total_read)
  /\ UNCHANGED <<fds, pc, opVars, sent, data, received, result>>

\* The error goes out at once, without close() and without the rest of the data.
WriteFails ==
  /\ InLoop("WRITE") /\ total_read # size
  /\ "diskFull" \in Faults
  /\ \E n \in 1..(sent - total_read) :
       /\ total_read' = total_read + n
       /\ pc' = IF total_read' = size THEN "idle" ELSE "torn"
  /\ error' = -1 /\ result' = -1
  /\ UNCHANGED <<fileVars, opVars, at, sent, total_written, gap, data, received>>

WriteDone ==
  /\ InLoop("WRITE") /\ total_read = size
  /\ result' = total_written /\ pc' = "idle" /\ fds' = fds - 1
  /\ UNCHANGED <<file, opVars, cntVars, error, data, received>>

Progress ==
  \/ ReadSome \/ ReadDone \/ ReceiveData
  \/ SendSome \/ WriteSome \/ WriteDone

Finished == pc = "torn" \/ (pc = "idle" /\ id = MaxCalls)

Next ==
  \/ \E c \in {"READ", "WRITE"}, n \in 0..MaxSize, p \in 0..MaxOffset : Start(c, n, p)
  \/ Progress
  \/ ReadFails
  \/ WriteFails
  \/ Finished /\ UNCHANGED vars

\* Both ends of a transfer run; no error has to occur.
Spec == Init /\ [][Next]_vars /\ WF_vars(Progress)
-----------------------------------------------------------------------------
(* Properties.                                                             *)

Returned(c) == pc \in {"idle", "torn"} /\ op = c /\ id > 0 /\ result >= 0

\* However read() divides the file for processRead and the data for readFile, the
\* bytes that readFile counts are the file's from the offset on: all that are
\* asked for and that the file has, or else what it lacks is still in the stream.
ReadIsFile ==
  Returned("READ") =>
    /\ SubSeq(received, 1, result) = Part(offset, result)
    /\ pc = "torn" \/ result = Len(Part(offset, size))

\* The n bytes from the offset on are n of the first m of the buffer, in order:
\* the first n, unless a short write() was followed by another one.
Placed(n, m) ==
  /\ \A i \in 1..n :
       /\ offset + i <= Len(file)
       /\ file[offset + i][1] = id /\ file[offset + i][2] \in i..m
       /\ ~ gap => file[offset + i] = <<id, i>>
  /\ \A i \in 2..n : file[offset + i - 1][2] < file[offset + i][2]
  /\ gap => n < m

\* A WRITE that succeeds has put as many bytes of its buffer at its offset as it
\* returns, in order and none twice, however read() and write() divide them.  They
\* are its first bytes unless a short write() was followed by another one, and in
\* that case the count is less than what was asked for.
WrittenIsThere == Returned("WRITE") => Placed(result, size)

\* No call changes the file outside of its range, but for the hole that a WRITE
\* leaves before it when the file ended there, and READ does not at all.  What a
\* WRITE leaves in its range, also when it fails, are bytes of its buffer.
OnlyItsRange ==
  /\ Len(file) >= Len(before)
  /\ \A i \in 1..Len(file) :
       \/ i <= Len(before) /\ file[i] = before[i]
       \/ /\ op = "WRITE" /\ total_written > 0 /\ i <= offset + total_written
          /\ IF i > offset THEN file[i][1] = id ELSE i > Len(before) /\ file[i] = Zero

\* Every call returns, or tears its stream: the loops end.
TransfersEnd == pc = "loop" ~> pc \in {"idle", "torn"}
=============================================================================

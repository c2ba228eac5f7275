---------------------------- MODULE Transfer_proofs ----------------------------
(***************************************************************************)
(* Theorems about Transfer, for files and buffers of every size, every     *)
(* offset, any number of calls, and every way of dividing the reads and    *)
(* the writes.                                                             *)
(***************************************************************************)
EXTENDS Transfer, SequenceTheorems, TLAPS

-----------------------------------------------------------------------------
(* The inductive invariant.                                                *)

\* processRead has the part of the file between its offset and its position, and
\* has sent all there is.
Reading ==
  /\ pc \in {"loop", "reply"} /\ op = "READ" =>
       /\ at = offset + total_read
       /\ total_read > 0 => at <= Len(file)
       /\ data = Part(offset, total_read)
       /\ Len(data) = total_read
  /\ pc = "reply" =>
       op = "READ" /\ (total_read = size \/ at >= Len(file))

\* processWrite has put into the file bytes that it has read, at its position, and
\* all of them unless a write() came out short.
Writing ==
  pc = "loop" /\ op = "WRITE" =>
    /\ at = offset + total_written
    /\ total_read <= sent
    /\ Placed(total_written, total_read)

\* A handler holds a descriptor.
Holding == pc = "loop" => fds > 0

Correct == ReadIsFile /\ WrittenIsThere /\ OnlyItsRange

TransferInv == TypeOK /\ Reading /\ Writing /\ Holding /\ Correct

-----------------------------------------------------------------------------
(* Sequences of bytes.                                                     *)

LEMMA FunctionIsSeq ==
  ASSUME NEW S, NEW n \in Nat, NEW s \in [1..n -> S]
  PROVE  s \in Seq(S) /\ Len(s) = n
  <1>1. s \in Seq(S)
    BY SeqDef
  <1>2. Len(s) \in Nat /\ 1..Len(s) = 1..n
    BY <1>1, LenProperties
  <1>3. QED
    BY <1>1, <1>2

\* What read() returns is as long as it says.
LEMMA PartIs ==
  ASSUME file \in Seq(Byte), NEW p \in Nat, NEW n \in Nat, p + n <= Len(file)
  PROVE  /\ Part(p, n) \in Seq(Byte) /\ Len(Part(p, n)) = n
         /\ \A i \in 1..n : Part(p, n)[i] = file[p + i]
  <1>1. \A i \in (p + 1)..(p + n) : file[i] \in Byte
    BY ElementOfSeq, LenProperties
  <1>2. /\ SubSeq(file, p + 1, p + n) \in Seq(Byte)
        /\ Len(SubSeq(file, p + 1, p + n)) = IF p + 1 <= p + n THEN (p + n) - (p + 1) + 1 ELSE 0
        /\ \A i \in 1..((p + n) - (p + 1) + 1) :
             SubSeq(file, p + 1, p + n)[i] = file[(p + 1) + i - 1]
    BY <1>1, SubSeqProperties
  <1>3. QED
    BY <1>2 DEF Part

\* Two reads, one after the other, return what one would.
LEMMA PartGrows ==
  ASSUME file \in Seq(Byte), NEW p \in Nat, NEW k \in Nat, NEW n \in Nat,
         p + k + n <= Len(file)
  PROVE  Part(p, k) \o Part(p + k, n) = Part(p, k + n)
  <1>1. Len(file) \in Nat
    BY LenProperties
  <1>2. /\ p + 1 \in 1..Len(file) + 1
        /\ p + k \in (p + 1) - 1..Len(file)
        /\ p + k + n \in p + k..Len(file)
    BY <1>1
  <1>3. SubSeq(file, p + 1, p + k) \o SubSeq(file, (p + k) + 1, p + k + n)
          = SubSeq(file, p + 1, p + k + n)
    BY <1>2, ConcatAdjacentSubSeq
  <1>4. /\ Part(p, k) = SubSeq(file, p + 1, p + k)
        /\ Part(p + k, n) = SubSeq(file, (p + k) + 1, p + k + n)
        /\ Part(p, k + n) = SubSeq(file, p + 1, p + k + n)
    BY <1>1 DEF Part
  <1>5. QED
    BY <1>3, <1>4

\* At the end of the file there is no more to read.
LEMMA PartEnds ==
  ASSUME file \in Seq(Byte), NEW p \in Nat, NEW k \in Nat, NEW n \in Nat,
         p + k >= Len(file), k <= n
  PROVE  Part(p, n) = Part(p, k)
  <1>1. Len(file) \in Nat
    BY LenProperties
  <1>2. Part(p, k) = SubSeq(file, p + 1, Len(file))
    BY <1>1 DEF Part
  <1>3. Part(p, n) = SubSeq(file, p + 1, Len(file))
    BY <1>1 DEF Part
  <1>4. QED
    BY <1>2, <1>3

LEMMA PartEmpty ==
  ASSUME file \in Seq(Byte), NEW p \in Nat
  PROVE  Part(p, 0) = <<>>
  <1>1. Len(file) \in Nat
    BY LenProperties
  <1>2. CASE p <= Len(file)
    <2>1. Part(p, 0) = SubSeq(file, p + 1, p)
      BY <1>1, <1>2 DEF Part
    <2>2. QED
      BY <2>1, SubSeqEmpty
  <1>3. CASE p > Len(file)
    <2>1. Part(p, 0) = SubSeq(file, p + 1, Len(file))
      BY <1>1, <1>3 DEF Part
    <2>2. Len(file) < p + 1
      BY <1>1, <1>3
    <2>3. QED
      BY <1>1, <2>1, <2>2, SubSeqEmpty
  <1>4. QED
    BY <1>1, <1>2, <1>3

LEMMA ZeroIsByte == Zero \in Byte
  BY TransferAssumption DEF Zero, Byte

LEMMA BufferIs ==
  ASSUME id \in 0..MaxCalls, NEW i \in Nat, NEW n \in Nat
  PROVE  /\ Buffer(i, n) \in Seq(Byte) /\ Len(Buffer(i, n)) = n
         /\ \A j \in 1..n : Buffer(i, n)[j] = <<id, i + j>>
  <1>1. \A j \in 1..n : <<id, i + j>> \in Byte
    BY DEF Byte
  <1>2. Buffer(i, n) \in [1..n -> Byte]
    BY <1>1 DEF Buffer
  <1>3. \A j \in 1..n : Buffer(i, n)[j] = <<id, i + j>>
    BY DEF Buffer
  <1>4. QED
    BY <1>2, <1>3, FunctionIsSeq

\* The first m bytes of the chunk that processWrite hands to write().
LEMMA ChunkIs ==
  ASSUME id \in 0..MaxCalls, total_read \in Nat, NEW n \in Nat, NEW m \in 0..n
  PROVE  /\ SubSeq(Chunk(n), 1, m) \in Seq(Byte)
         /\ Len(SubSeq(Chunk(n), 1, m)) = m
         /\ \A j \in 1..m : SubSeq(Chunk(n), 1, m)[j] = <<id, total_read + j>>
  <1>1. \A j \in 1..m : Chunk(n)[j] \in Byte /\ Chunk(n)[j] = <<id, total_read + j>>
    <2>1. \A j \in 1..n : Chunk(n)[j] = <<id, total_read + j>>
      BY BufferIs DEF Chunk
    <2>2. \A j \in 1..n : <<id, total_read + j>> \in Byte
      BY DEF Byte
    <2>3. 1..m \subseteq 1..n
      OBVIOUS
    <2>4. QED
      BY <2>1, <2>2, <2>3
  <1>2. /\ SubSeq(Chunk(n), 1, m) \in Seq(Byte)
        /\ Len(SubSeq(Chunk(n), 1, m)) = IF 1 <= m THEN m - 1 + 1 ELSE 0
        /\ \A j \in 1..(m - 1 + 1) : SubSeq(Chunk(n), 1, m)[j] = Chunk(n)[1 + j - 1]
    BY <1>1, SubSeqProperties
  <1>3. QED
    BY <1>1, <1>2

\* A write() behind the end of the file fills the hole with zeros.
LEMMA OverwriteIs ==
  ASSUME NEW f \in Seq(Byte), NEW p \in Nat, NEW bytes \in Seq(Byte)
  PROVE  LET end == p + Len(bytes)
             g == Overwrite(f, p, bytes)
         IN /\ g \in Seq(Byte)
            /\ Len(g) = IF end > Len(f) THEN end ELSE Len(f)
            /\ \A i \in 1..Len(g) :
                 g[i] = IF i > p /\ i <= end THEN bytes[i - p]
                        ELSE IF i <= Len(f) THEN f[i] ELSE Zero
  <1> DEFINE end == p + Len(bytes)
             len == IF end > Len(f) THEN end ELSE Len(f)
             byte(i) == IF i > p /\ i <= end THEN bytes[i - p]
                        ELSE IF i <= Len(f) THEN f[i] ELSE Zero
             g == Overwrite(f, p, bytes)
  <1>1. Len(f) \in Nat /\ Len(bytes) \in Nat /\ len \in Nat /\ p \in Nat
    BY LenProperties
  <1>2. g = [i \in 1..len |-> byte(i)]
    BY DEF Overwrite
  <1>3. ASSUME NEW i \in 1..len
        PROVE  byte(i) \in Byte
    <2>1. CASE i > p /\ i <= end
      <3>1. i - p \in 1..Len(bytes)
        BY <1>1, <2>1
      <3>2. QED
        BY <2>1, <3>1, ElementOfSeq
    <2>2. CASE ~ (i > p /\ i <= end) /\ i <= Len(f)
      <3>1. i \in 1..Len(f)
        BY <1>1, <2>2
      <3>2. QED
        BY <2>2, <3>1, ElementOfSeq
    <2>3. CASE ~ (i > p /\ i <= end) /\ ~ (i <= Len(f))
      BY <2>3, ZeroIsByte
    <2>4. QED
      BY <2>1, <2>2, <2>3
  <1> HIDE DEF byte, len
  <1>4. g \in [1..len -> Byte]
    BY <1>2, <1>3
  <1>5. g \in Seq(Byte) /\ Len(g) = len
    BY <1>1, <1>4, FunctionIsSeq
  <1>6. \A i \in 1..Len(g) : g[i] = byte(i)
    BY <1>2, <1>5
  <1>7. QED
    BY <1>5, <1>6 DEF len, byte

\* The file after a write() of processWrite.
LEMMA WriteSomeIs ==
  ASSUME TypeOK, NEW n \in 1..(sent - total_read), NEW m \in 1..n,
         file' = Overwrite(file, at, SubSeq(Chunk(n), 1, m))
  PROVE  /\ file' \in Seq(Byte) /\ Len(file) \in Nat
         /\ Len(file') = IF at + m > Len(file) THEN at + m ELSE Len(file)
         /\ \A j \in 1..Len(file') :
              file'[j] = IF j > at /\ j <= at + m THEN <<id, total_read + (j - at)>>
                         ELSE IF j <= Len(file) THEN file[j] ELSE Zero
  <1> DEFINE bytes == SubSeq(Chunk(n), 1, m)
  <1>1. /\ id \in 0..MaxCalls /\ total_read \in Nat /\ file \in Seq(Byte)
        /\ at \in Nat /\ n \in Nat /\ m \in 0..n /\ Len(file) \in Nat
    BY LenProperties, TransferAssumption DEF TypeOK
  <1>2. /\ bytes \in Seq(Byte) /\ Len(bytes) = m
        /\ \A j \in 1..m : bytes[j] = <<id, total_read + j>>
    BY <1>1, ChunkIs
  <1> HIDE DEF bytes
  <1>3. /\ Overwrite(file, at, bytes) \in Seq(Byte)
        /\ Len(Overwrite(file, at, bytes)) = IF at + m > Len(file) THEN at + m ELSE Len(file)
        /\ \A i \in 1..Len(Overwrite(file, at, bytes)) :
             Overwrite(file, at, bytes)[i]
               = IF i > at /\ i <= at + m THEN bytes[i - at]
                 ELSE IF i <= Len(file) THEN file[i] ELSE Zero
    BY <1>1, <1>2, OverwriteIs
  <1>4. file' = Overwrite(file, at, bytes)
    BY DEF bytes
  <1>5. \A j \in 1..Len(file') : j > at /\ j <= at + m => j - at \in 1..m
    BY <1>1, <1>3, <1>4
  <1>6. QED
    BY <1>1, <1>2, <1>3, <1>4, <1>5

\* What readFile takes of the data with one read().
LEMMA ReceivedIs ==
  ASSUME NEW d \in Seq(Byte), NEW n \in 0..Len(d)
  PROVE  LET r == [i \in 1..Len(d) |-> IF i <= n THEN d[i] ELSE Zero]
         IN /\ r \in Seq(Byte) /\ SubSeq(r, 1, n) \in Seq(Byte)
            /\ Len(SubSeq(r, 1, n)) = n
            /\ \A i \in 1..n : SubSeq(r, 1, n)[i] = d[i]
  <1> DEFINE r == [i \in 1..Len(d) |-> IF i <= n THEN d[i] ELSE Zero]
  <1>1. Len(d) \in Nat /\ n \in Nat /\ \A i \in 1..Len(d) : d[i] \in Byte
    BY LenProperties, ElementOfSeq
  <1>2. r \in [1..Len(d) -> Byte]
    BY <1>1, ZeroIsByte
  <1>3. r \in Seq(Byte) /\ Len(r) = Len(d)
    BY <1>1, <1>2, FunctionIsSeq
  <1>4. \A i \in 1..n : r[i] \in Byte /\ r[i] = d[i]
    BY <1>1, <1>2
  <1> HIDE DEF r
  <1>5. /\ SubSeq(r, 1, n) \in Seq(Byte)
        /\ Len(SubSeq(r, 1, n)) = IF 1 <= n THEN n - 1 + 1 ELSE 0
        /\ \A i \in 1..(n - 1 + 1) : SubSeq(r, 1, n)[i] = r[1 + i - 1]
    BY <1>1, <1>4, SubSeqProperties
  <1>6. QED
    BY <1>1, <1>3, <1>4, <1>5 DEF r

-----------------------------------------------------------------------------
(* Type correctness.                                                       *)

LEMMA TypeInit == Init => TypeOK
  <1>1. SUFFICES ASSUME Init PROVE TypeOK
    OBVIOUS
  <1>2. Length \in Nat /\ MaxSize \in Nat /\ MaxCalls \in Nat /\ MaxFds \in Nat
    BY TransferAssumption
  <1>3. \A i \in 1..Length : <<0, i>> \in Byte
    BY <1>2 DEF Byte
  <1>4. file \in [1..Length -> Byte]
    BY <1>1, <1>3 DEF Init
  <1>5. file \in Seq(Byte) /\ before = file
    BY <1>1, <1>2, <1>4, FunctionIsSeq DEF Init
  <1>6. data \in Seq(Byte) /\ received \in Seq(Byte)
    BY <1>1, EmptySeq DEF Init
  <1>7. size \in 0..MaxSize /\ fds \in 0..MaxFds /\ id \in 0..MaxCalls /\ sent \in 0..size
        /\ total_read \in 0..size /\ total_written \in 0..total_read
        /\ error \in -1..MaxSize /\ result \in -1..MaxSize /\ {offset, at} \subseteq Nat
    BY <1>1, <1>2 DEF Init
  <1>8. gap \in BOOLEAN /\ pc \in {"idle", "loop", "reply", "torn"} /\ op \in {"READ", "WRITE"}
    BY <1>1 DEF Init
  <1>9. QED
    BY <1>5, <1>6, <1>7, <1>8 DEF TypeOK

LEMMA StartTypes ==
  ASSUME TypeOK, NEW c \in {"READ", "WRITE"}, NEW n \in 0..MaxSize,
         NEW p \in 0..MaxOffset, Start(c, n, p)
  PROVE  TypeOK'
  <1>1. MaxSize \in Nat /\ MaxCalls \in Nat /\ MaxFds \in Nat /\ MaxOffset \in Nat
    BY TransferAssumption
  <1>2. {file', data', received', before'} \subseteq Seq(Byte)
    BY <1>1, EmptySeq DEF Start, TypeOK
  <1>3. fds' \in 0..MaxFds /\ pc' \in {"idle", "loop", "reply", "torn"}
        /\ result' \in -1..MaxSize /\ at' \in Nat
    BY <1>1 DEF Start, TypeOK
  <1>4. /\ op' = c /\ id' = id + 1 /\ size' = n /\ offset' = p /\ sent' = 0
        /\ total_read' = 0 /\ total_written' = 0 /\ error' = 0 /\ gap' = FALSE
        /\ id < MaxCalls
    BY DEF Start
  <1>5. size' \in 0..MaxSize /\ id' \in 0..MaxCalls /\ sent' \in 0..size' /\ total_read' \in 0..size'
        /\ total_written' \in 0..total_read' /\ error' \in -1..MaxSize
        /\ offset' \in Nat
    BY <1>1, <1>4 DEF TypeOK
  <1>6. gap' \in BOOLEAN /\ op' \in {"READ", "WRITE"}
    BY <1>4
  <1>7. QED
    BY <1>2, <1>3, <1>5, <1>6 DEF TypeOK

LEMMA ReadTypes ==
  ASSUME TypeOK, Reading, ReadSome \/ ReadFails \/ ReadDone \/ ReceiveData
  PROVE  TypeOK'
  <1>1. /\ MaxSize \in Nat /\ Len(file) \in Nat /\ size \in 0..MaxSize /\ total_read \in 0..size
        /\ total_written \in 0..total_read
    BY TransferAssumption, LenProperties DEF TypeOK
  <1>2. CASE ReadFails \/ ReadDone
    <2>1. error' \in -1..MaxSize /\ result' \in -1..MaxSize
          /\ pc' \in {"idle", "reply"}
      BY <1>1, <1>2 DEF ReadFails, ReadDone, TypeOK
    <2>2. UNCHANGED <<fileVars, opVars, cntVars, data, received>>
      BY <1>2 DEF ReadFails, ReadDone
    <2>3. QED
      BY <2>1, <2>2 DEF fileVars, opVars, cntVars, TypeOK
  <1>3. CASE ReceiveData
    <2>1. PICK n \in 0..total_read :
            /\ received' = [i \in 1..total_read |-> IF i <= n THEN data[i] ELSE Zero]
            /\ result' = n /\ pc' = IF n = total_read THEN "idle" ELSE "torn"
      BY <1>3 DEF ReceiveData
    <2>2. Len(data) = total_read /\ data \in Seq(Byte)
      BY <1>3 DEF ReceiveData, Reading, TypeOK
    <2>3. received' \in Seq(Byte)
      BY <2>1, <2>2, ReceivedIs
    <2>4. result' \in -1..MaxSize /\ pc' \in {"idle", "torn"}
      BY <1>1, <2>1
    <2>5. UNCHANGED <<fileVars, opVars, cntVars, error, data>>
      BY <1>3 DEF ReceiveData
    <2>6. QED
      BY <2>3, <2>4, <2>5 DEF fileVars, opVars, cntVars, TypeOK
  <1>4. CASE ReadSome
    <2>1. UNCHANGED <<fileVars, opVars, sent, total_written, gap, received, result>>
      BY <1>4 DEF ReadSome
    <2>2. CASE AtEnd
      BY <1>1, <2>1, <2>2 DEF AtEnd, fileVars, opVars, TypeOK
    <2>3. ASSUME NEW n \in 1..(size - total_read),
                 at + n <= Len(file), data' = data \o Part(at, n), at' = at + n,
                 total_read' = total_read + n, error' = n, UNCHANGED pc
          PROVE  TypeOK'
      <3>1. n \in Nat /\ at \in Nat /\ file \in Seq(Byte) /\ data \in Seq(Byte)
        BY DEF TypeOK
      <3>2. data' \in Seq(Byte)
        BY <2>3, <3>1, PartIs, ConcatProperties
      <3>3. total_read' \in 0..size /\ total_written \in 0..total_read'
            /\ error' \in -1..MaxSize /\ at' \in Nat
        BY <1>1, <2>3, <3>1
      <3>4. QED
        BY <2>1, <2>3, <3>2, <3>3 DEF fileVars, opVars, TypeOK
    <2>4. QED
      BY <1>4, <2>2, <2>3 DEF ReadSome
  <1>5. QED
    BY <1>2, <1>3, <1>4

LEMMA WriteTypes ==
  ASSUME TypeOK, Holding, SendSome \/ WriteSome \/ WriteFails \/ WriteDone
  PROVE  TypeOK'
  <1>1. /\ MaxSize \in Nat /\ fds \in 0..MaxFds /\ sent \in 0..size
        /\ size \in 0..MaxSize /\ total_read \in 0..size /\ total_written \in 0..total_read
        /\ at \in Nat /\ MaxFds \in Nat
    BY TransferAssumption DEF TypeOK
  <1>2. CASE SendSome
    <2>1. sent' \in 0..size
      BY <1>1, <1>2 DEF SendSome
    <2>2. QED
      BY <1>2, <2>1 DEF SendSome, fileVars, opVars, TypeOK
  <1>3. CASE WriteSome
    <2> DEFINE Chunked(n, m) ==
                 /\ file' = Overwrite(file, at, SubSeq(Chunk(n), 1, m))
                 /\ at' = at + m
                 /\ total_read' = total_read + n /\ total_written' = total_written + m
                 /\ error' = m
    <2>0. PICK n \in 1..(sent - total_read) : \E m \in 1..n : Chunked(n, m)
      BY <1>3 DEF WriteSome
    <2>1. PICK m \in 1..n : Chunked(n, m)
      BY <2>0
    <2>2. UNCHANGED <<fds, pc, opVars, sent, data, received, result>>
          /\ gap' = (gap \/ total_written < total_read)
      BY <1>3 DEF WriteSome
    <2>3. file' \in Seq(Byte)
      BY <1>1, <2>1, WriteSomeIs
    <2>4. /\ total_read' \in 0..size /\ total_written' \in 0..total_read'
          /\ error' \in -1..MaxSize /\ at' \in Nat
      BY <1>1, <2>1
    <2>5. gap' \in BOOLEAN
      BY <2>2
    <2>6. QED
      BY <2>2, <2>3, <2>4, <2>5 DEF opVars, TypeOK
  <1>4. CASE WriteFails
    <2>1. total_read' \in 0..size /\ total_written \in 0..total_read'
      BY <1>1, <1>4 DEF WriteFails
    <2>2. pc' \in {"idle", "torn"} /\ error' = -1 /\ result' = -1
          /\ UNCHANGED <<fileVars, opVars, at, sent, total_written, gap, data, received>>
      BY <1>4 DEF WriteFails
    <2>3. QED
      BY <1>1, <2>1, <2>2 DEF fileVars, opVars, TypeOK
  <1>5. CASE WriteDone
    <2>1. fds' \in 0..MaxFds
      BY <1>1, <1>5 DEF WriteDone, InLoop, Holding
    <2>2. result' \in -1..MaxSize /\ pc' = "idle"
          /\ UNCHANGED <<file, opVars, cntVars, error, data, received>>
      BY <1>1, <1>5 DEF WriteDone
    <2>3. QED
      BY <2>1, <2>2 DEF opVars, cntVars, TypeOK
  <1>6. QED
    BY <1>2, <1>3, <1>4, <1>5

LEMMA TypeStep ==
  ASSUME TypeOK, Reading, Holding, [Next]_vars
  PROVE  TypeOK'
  <1>1. CASE UNCHANGED vars
    BY <1>1 DEF vars, fileVars, opVars, cntVars, TypeOK
  <1>2. QED
    BY <1>1, StartTypes, ReadTypes, WriteTypes DEF Next, Progress

-----------------------------------------------------------------------------
(* What a step does.                                                       *)

LEMMA TypeFacts ==
  ASSUME TypeOK
  PROVE  /\ file \in Seq(Byte) /\ Len(file) \in Nat /\ data \in Seq(Byte)
         /\ before \in Seq(Byte) /\ Len(before) \in Nat
         /\ offset \in Nat /\ at \in Nat /\ size \in Nat /\ id \in Nat
         /\ total_read \in 0..size /\ total_written \in 0..total_read /\ sent \in 0..size
         /\ total_read \in Nat /\ total_written \in Nat /\ sent \in Nat /\ fds \in Nat
         /\ gap \in BOOLEAN
  BY LenProperties, TransferAssumption DEF TypeOK

\* Nothing is left of the last call when another begins.
LEMMA StartKeeps ==
  ASSUME TransferInv, NEW c \in {"READ", "WRITE"}, NEW n \in 0..MaxSize,
         NEW p \in 0..MaxOffset, Start(c, n, p)
  PROVE  Reading' /\ Writing' /\ Holding' /\ Correct'
  <1>1. /\ op' = c /\ offset' = p /\ size' = n /\ before' = file /\ file' = file
        /\ data' = <<>> /\ sent' = 0 /\ total_read' = 0 /\ total_written' = 0 /\ gap' = FALSE
        /\ \/ fds' = fds + 1 /\ at' = p /\ pc' = "loop"
           \/ result' = -1 /\ pc' = "idle"
    BY DEF Start
  <1>2. Len(file) \in Nat /\ fds \in Nat /\ p \in Nat /\ file \in Seq(Byte)
    BY TypeFacts, TransferAssumption DEF TransferInv
  <1>3. Part(p, 0)' = <<>>
    <2>1. Part(p, 0) = <<>>
      BY <1>2, PartEmpty
    <2>2. QED
      BY <1>1, <2>1 DEF Part
  <1>4. Reading'
    BY <1>1, <1>2, <1>3, EmptySeq DEF Reading
  <1>5. Writing' /\ Holding'
    BY <1>1, <1>2 DEF Writing, Holding, Placed
  <1>6. ReadIsFile' /\ WrittenIsThere'
    BY <1>1 DEF ReadIsFile, WrittenIsThere, Returned
  <1>7. OnlyItsRange'
    BY <1>1, <1>2 DEF OnlyItsRange
  <1>8. QED
    BY <1>4, <1>5, <1>6, <1>7 DEF Correct

\* processRead changes no byte of the file, and has read what lies before its
\* position; what readFile counts of it are the first bytes.
LEMMA ReadKeeps ==
  ASSUME TransferInv, ReadSome \/ ReadFails \/ ReadDone \/ ReceiveData
  PROVE  Reading' /\ Writing' /\ Holding' /\ Correct'
  <1>1. /\ UNCHANGED <<file, fds, op, id, size, offset, total_written, before, gap>>
        /\ op = "READ" /\ pc \in {"loop", "reply"}
    BY DEF ReadSome, ReadFails, ReadDone, ReceiveData, fileVars, opVars, cntVars, InLoop,
           TransferInv, Reading
  <1>2. Writing' /\ WrittenIsThere' /\ OnlyItsRange'
    BY <1>1 DEF Writing, WrittenIsThere, OnlyItsRange, Returned, TransferInv, Correct
  <1>3. Holding'
    BY <1>1 DEF Holding, TransferInv, ReadSome, AtEnd, ReadFails, ReadDone, ReceiveData
  <1>4. /\ at = offset + total_read /\ data = Part(offset, total_read)
        /\ Len(data) = total_read /\ (total_read > 0 => at <= Len(file))
    BY <1>1 DEF Reading, TransferInv
  <1>5. \A n \in Nat : Part(offset, n)' = Part(offset, n)
    BY <1>1 DEF Part
  <1>6. TypeOK
    BY DEF TransferInv
  <1>7. CASE ReadFails
    BY <1>2, <1>3, <1>7 DEF ReadFails, Reading, ReadIsFile, Returned, Correct
  <1>8. CASE ReadDone
    <2>1. pc' = "reply" /\ UNCHANGED <<data, at, total_read>> /\ total_read = size
      BY <1>8 DEF ReadDone, cntVars
    <2>2. Reading'
      BY <1>1, <1>4, <1>5, <1>6, <2>1, TypeFacts DEF Reading
    <2>3. ReadIsFile'
      BY <2>1 DEF ReadIsFile, Returned
    <2>4. QED
      BY <1>2, <1>3, <2>2, <2>3 DEF Correct
  <1>9. CASE ReceiveData
    <2>1. PICK n \in 0..total_read :
            /\ received' = [i \in 1..total_read |-> IF i <= n THEN data[i] ELSE Zero]
            /\ result' = n /\ pc' = IF n = total_read THEN "idle" ELSE "torn"
      BY <1>9 DEF ReceiveData
    <2>2. total_read = size \/ at >= Len(file)
      BY <1>9 DEF ReceiveData, TransferInv, Reading
    <2>3. /\ SubSeq(received', 1, n) \in Seq(Byte) /\ Len(SubSeq(received', 1, n)) = n
          /\ \A i \in 1..n : SubSeq(received', 1, n)[i] = data[i]
      BY <1>4, <1>6, <2>1, TypeFacts, ReceivedIs
    <2>4. n \in Nat /\ n <= total_read /\ total_read <= size
      BY <1>6, <2>1, TypeFacts
    <2>5. SubSeq(received', 1, n) = Part(offset, n)
      <3>1. CASE n = 0
        BY <1>6, <2>3, <3>1, PartEmpty, TypeFacts, EmptySeq
      <3>2. CASE n > 0
        <4>1. offset + n <= Len(file) /\ offset + total_read <= Len(file)
          BY <1>4, <1>6, <2>4, <3>2, TypeFacts
        <4>2. /\ Part(offset, n) \in Seq(Byte) /\ Len(Part(offset, n)) = n
              /\ \A i \in 1..n : Part(offset, n)[i] = file[offset + i]
          BY <1>6, <2>4, <4>1, TypeFacts, PartIs
        <4>3. \A i \in 1..total_read : Part(offset, total_read)[i] = file[offset + i]
          BY <1>6, <4>1, TypeFacts, PartIs
        <4>4. \A i \in 1..n : SubSeq(received', 1, n)[i] = Part(offset, n)[i]
          BY <1>4, <2>3, <2>4, <4>2, <4>3
        <4>5. QED
          BY <2>3, <4>2, <4>4, SeqEqual
      <3>3. QED
        BY <2>4, <3>1, <3>2
    <2>6. Part(offset, size) = Part(offset, total_read)
      BY <1>4, <1>6, <2>2, <2>4, TypeFacts, PartEnds
    <2>7. ReadIsFile'
      <3>1. UNCHANGED <<offset, size>> /\ size \in Nat
        BY <1>1, <1>6, TypeFacts
      <3>2. SubSeq(received', 1, n) = Part(offset, n)'
        BY <1>5, <2>4, <2>5
      <3>3. pc' = "torn" \/ n = Len(Part(offset, size)')
        BY <1>4, <1>5, <2>1, <2>6, <3>1
      <3>4. QED
        BY <2>1, <3>2, <3>3 DEF ReadIsFile
    <2>8. Reading'
      BY <2>1 DEF Reading
    <2>9. QED
      BY <1>2, <1>3, <2>7, <2>8 DEF Correct
  <1>10. ASSUME ReadSome, AtEnd
         PROVE  Reading' /\ ReadIsFile'
    <2>1. pc' = "reply" /\ UNCHANGED <<data, at, total_read>> /\ at >= Len(file)
      BY <1>10 DEF AtEnd
    <2>2. QED
      BY <1>1, <1>4, <1>5, <1>6, <2>1, TypeFacts DEF Reading, ReadIsFile, Returned
  <1>11. ASSUME NEW n \in 1..(size - total_read), pc = "loop",
                at + n <= Len(file), data' = data \o Part(at, n), at' = at + n,
                total_read' = total_read + n, UNCHANGED pc
         PROVE  Reading' /\ ReadIsFile'
    <2>1. n \in Nat /\ offset \in Nat /\ total_read \in Nat /\ at \in Nat
          /\ file \in Seq(Byte) /\ data \in Seq(Byte)
      BY <1>6, TypeFacts
    <2>2. data' = Part(offset, total_read + n)
      BY <1>4, <1>11, <2>1, PartGrows
    <2>3. Len(data') = total_read + n
      <3>1. Part(at, n) \in Seq(Byte) /\ Len(Part(at, n)) = n
        BY <1>11, <2>1, PartIs
      <3>2. Len(data \o Part(at, n)) = Len(data) + Len(Part(at, n))
        BY <2>1, <3>1, ConcatProperties
      <3>3. QED
        BY <1>4, <1>11, <3>1, <3>2
    <2>4. Part(offset, total_read)' = Part(offset, total_read + n)
      BY <1>1, <1>11 DEF Part
    <2>5. at' = offset' + total_read' /\ at' <= Len(file')
      BY <1>1, <1>4, <1>11, <2>1
    <2>6. QED
      BY <1>11, <2>2, <2>3, <2>4, <2>5 DEF Reading, ReadIsFile, Returned
  <1>12. CASE ReadSome
    <2>1. pc = "loop"
      BY <1>12 DEF ReadSome, InLoop
    <2>2. Reading' /\ ReadIsFile'
      BY <1>10, <1>11, <1>12, <2>1 DEF ReadSome
    <2>3. QED
      BY <1>2, <1>3, <2>2 DEF Correct
  <1>13. QED
    BY <1>7, <1>8, <1>9, <1>12

\* processWrite has put bytes of its buffer where it stands, in order.
LEMMA WriteKeeps ==
  ASSUME TransferInv, SendSome \/ WriteSome \/ WriteFails \/ WriteDone
  PROVE  Reading' /\ Writing' /\ Holding' /\ Correct'
  <1>1. UNCHANGED <<op, id, size, offset, before>> /\ op = "WRITE" /\ pc = "loop"
    BY DEF SendSome, WriteSome, WriteFails, WriteDone, opVars, InLoop
  <1>2. Reading' /\ ReadIsFile'
    BY <1>1 DEF Reading, ReadIsFile, Returned, SendSome, WriteSome, WriteFails, WriteDone
  <1>3. /\ at = offset + total_written /\ total_read <= sent
        /\ Placed(total_written, total_read) /\ fds > 0
    BY <1>1 DEF Writing, Holding, TransferInv
  <1>4. TypeOK /\ OnlyItsRange
    BY DEF TransferInv, Correct
  <1>5. CASE SendSome
    <2>1. /\ UNCHANGED <<file, fds, pc, at, total_read, total_written, result, gap>>
          /\ sent' >= sent
      BY <1>4, <1>5, TypeFacts DEF SendSome, fileVars
    <2>2. total_read' <= sent'
      BY <1>3, <1>4, <2>1, TypeFacts, <1>5 DEF SendSome
    <2>3. Placed(total_written, total_read)'
      BY <1>1, <1>3, <2>1 DEF Placed
    <2>4. Writing' /\ Holding'
      BY <1>1, <1>3, <2>1, <2>2, <2>3 DEF Writing, Holding
    <2>5. WrittenIsThere' /\ OnlyItsRange'
      BY <1>1, <1>4, <2>1 DEF WrittenIsThere, OnlyItsRange, Returned
    <2>6. QED
      BY <1>2, <2>4, <2>5 DEF Correct
  <1>6. CASE WriteSome
    <2> DEFINE Chunked(n, m) ==
                 /\ file' = Overwrite(file, at, SubSeq(Chunk(n), 1, m))
                 /\ at' = at + m
                 /\ total_read' = total_read + n /\ total_written' = total_written + m
    <2>1. PICK n \in 1..(sent - total_read) : \E m \in 1..n : Chunked(n, m)
      BY <1>6 DEF WriteSome
    <2>2. PICK m \in 1..n : Chunked(n, m)
      BY <2>1
    <2>3. UNCHANGED <<fds, pc, sent>> /\ gap' = (gap \/ total_written < total_read)
      BY <1>6 DEF WriteSome
    <2>4. /\ Len(file) \in Nat /\ Len(file') \in Nat
          /\ Len(file') = IF at + m > Len(file) THEN at + m ELSE Len(file)
          /\ \A j \in 1..Len(file') :
               file'[j] = IF j > at /\ j <= at + m THEN <<id, total_read + (j - at)>>
                          ELSE IF j <= Len(file) THEN file[j] ELSE Zero
      BY <1>4, <2>2, WriteSomeIs, LenProperties
    <2>5. /\ n \in Nat /\ m \in Nat /\ m <= n /\ m > 0 /\ id \in Nat
          /\ offset \in Nat /\ total_written \in Nat /\ total_read \in Nat
          /\ total_written <= total_read /\ total_read + n <= sent
          /\ at = offset + total_written /\ at \in Nat
      <3>1. /\ offset \in Nat /\ at \in Nat /\ id \in Nat /\ total_written \in 0..total_read
            /\ total_written \in Nat /\ total_read \in Nat /\ sent \in Nat
        BY <1>4, TypeFacts
      <3>2. n \in 1..(sent - total_read) /\ m \in 1..n
        BY <2>1, <2>2
      <3>3. QED
        BY <1>3, <3>1, <3>2
    <2>6. at' = offset' + total_written' /\ total_read' <= sent'
      BY <1>1, <2>2, <2>3, <2>5
    <2>7. ASSUME NEW i \in 1..total_written
          PROVE  /\ offset + i \in 1..Len(file)
                 /\ offset + i <= at /\ file'[offset + i] = file[offset + i]
                 /\ file[offset + i][1] = id /\ file[offset + i][2] \in i..total_read
                 /\ ~ gap => file[offset + i] = <<id, i>>
      <3>1. /\ offset + i <= Len(file)
            /\ file[offset + i][1] = id /\ file[offset + i][2] \in i..total_read
            /\ ~ gap => file[offset + i] = <<id, i>>
        BY <1>3 DEF Placed
      <3>2. /\ offset + i \in 1..Len(file) /\ offset + i \in 1..Len(file')
            /\ offset + i <= at
        BY <2>4, <2>5, <3>1
      <3>3. file'[offset + i] = file[offset + i]
        <4>1. /\ ~ (offset + i > at) /\ offset + i <= Len(file)
          BY <2>5, <3>2
        <4>2. QED
          BY <2>4, <3>2, <4>1
      <3>4. QED
        BY <3>1, <3>2, <3>3
    <2>8. ASSUME NEW i \in (total_written + 1)..(total_written + m)
          PROVE  /\ offset + i \in 1..Len(file')
                 /\ file'[offset + i] = <<id, total_read + (i - total_written)>>
      <3>1. /\ i \in Nat /\ offset + i > at /\ offset + i <= at + m
            /\ (offset + i) - at = i - total_written
        BY <2>5
      <3>2. offset + i \in 1..Len(file')
        BY <2>4, <2>5, <3>1
      <3>3. QED
        BY <2>4, <3>1, <3>2
    <2>9. Placed(total_written, total_read)'
      <3> DEFINE w == total_written + m
                 r == total_read + n
                 f == file'
                 Good(i) == /\ offset + i <= Len(f)
                            /\ f[offset + i][1] = id /\ f[offset + i][2] \in i..r
                            /\ ~ gap' => f[offset + i] = <<id, i>>
      <3>1. ASSUME NEW i \in 1..w
            PROVE  Good(i)
        <4>1. CASE i <= total_written
          <5>1. i \in 1..total_written
            BY <2>5, <4>1
          <5>2. /\ offset + i <= Len(f) /\ f[offset + i][1] = id
                /\ f[offset + i][2] \in i..total_read
                /\ ~ gap => f[offset + i] = <<id, i>>
            <6>1. offset + i \in 1..Len(file) /\ f[offset + i] = file[offset + i]
              BY <2>7, <5>1
            <6>2. offset + i <= Len(f)
              BY <2>4, <2>5, <6>1
            <6>3. QED
              BY <2>7, <5>1, <6>1, <6>2
          <5>3. i..total_read \subseteq i..r
            BY <2>5, <5>1
          <5>4. QED
            BY <2>3, <5>2, <5>3
        <4>2. CASE i > total_written
          <5>1. i \in (total_written + 1)..(total_written + m)
            BY <2>5, <4>2
          <5>2. /\ offset + i \in 1..Len(f)
                /\ f[offset + i] = <<id, total_read + (i - total_written)>>
            BY <2>8, <5>1
          <5>3. total_read + (i - total_written) \in i..r
            BY <2>5, <5>1
          <5>4. ~ gap' => total_read + (i - total_written) = i
            <6>1. ~ gap' => ~ (total_written < total_read)
              BY <2>3
            <6>2. ~ (total_written < total_read) => total_written = total_read
              BY <2>5
            <6>3. total_written = total_read => total_read + (i - total_written) = i
              BY <2>5, <5>1
            <6>4. QED
              BY <6>1, <6>2, <6>3
          <5>5. QED
            BY <2>4, <2>5, <5>2, <5>3, <5>4
        <4>3. QED
          BY <2>5, <4>1, <4>2
      <3>2. ASSUME NEW i \in 2..w
            PROVE  f[offset + i - 1][2] < f[offset + i][2]
        <4>1. i \in Nat /\ offset + i - 1 = offset + (i - 1)
          BY <2>5
        <4>2. CASE i <= total_written
          <5>1. i \in 1..total_written /\ i - 1 \in 1..total_written /\ i \in 2..total_written
            BY <2>5, <4>2
          <5>2. f[offset + i] = file[offset + i] /\ f[offset + (i - 1)] = file[offset + (i - 1)]
            BY <2>7, <5>1
          <5>3. file[offset + i - 1][2] < file[offset + i][2]
            BY <1>3, <5>1 DEF Placed
          <5>4. QED
            BY <4>1, <5>2, <5>3
        <4>3. CASE i = total_written + 1
          <5>1. i - 1 \in 1..total_written /\ i \in (total_written + 1)..(total_written + m)
            BY <2>5, <4>3
          <5>2. f[offset + (i - 1)][2] \in (i - 1)..total_read
            BY <2>7, <5>1
          <5>3. f[offset + i][2] = total_read + 1
            BY <2>5, <2>8, <4>3, <5>1
          <5>4. QED
            BY <2>5, <4>1, <5>2, <5>3
        <4>4. CASE i > total_written + 1
          <5>1. /\ i - 1 \in (total_written + 1)..(total_written + m)
                /\ i \in (total_written + 1)..(total_written + m)
            BY <2>5, <4>4
          <5>2. /\ f[offset + (i - 1)][2] = total_read + ((i - 1) - total_written)
                /\ f[offset + i][2] = total_read + (i - total_written)
            BY <2>8, <5>1
          <5>3. QED
            BY <2>5, <4>1, <5>1, <5>2
        <4>5. QED
          BY <2>5, <4>1, <4>2, <4>3, <4>4
      <3>3. gap' => w < r
        <4>1. gap' => total_written < total_read
          BY <1>3, <2>3 DEF Placed
        <4>2. total_written < total_read => w < r
          BY <2>5
        <4>3. QED
          BY <4>1, <4>2
      <3>4. total_written' = w /\ total_read' = r
        BY <2>2
      <3> HIDE DEF w, r
      <3>5. QED
        BY <1>1, <3>1, <3>2, <3>3, <3>4 DEF Placed
    <2>10. Writing' /\ Holding'
      BY <1>1, <1>3, <2>3, <2>6, <2>9 DEF Writing, Holding
    <2>11. OnlyItsRange'
      <3>1. Len(file') >= Len(before')
        BY <1>1, <1>4, <2>4, <2>5, TypeFacts DEF OnlyItsRange
      <3>2. ASSUME NEW i \in 1..Len(file')
            PROVE  \/ i <= Len(before') /\ file'[i] = before'[i]
                   \/ /\ op' = "WRITE" /\ total_written' > 0 /\ i <= offset' + total_written'
                      /\ IF i > offset' THEN file'[i][1] = id'
                         ELSE i > Len(before') /\ file'[i] = Zero
        <4>1. /\ total_written' > 0 /\ offset' + total_written' = at + m
              /\ total_written' = total_written + m
          BY <1>1, <2>2, <2>5
        <4> DEFINE new == i > at /\ i <= at + m
        <4>0. /\ i \in Nat /\ i > 0 /\ i <= Len(file')
              /\ new => file'[i] = <<id, total_read + (i - at)>>
              /\ ~ new /\ i <= Len(file) => file'[i] = file[i]
              /\ ~ new /\ ~ (i <= Len(file)) => file'[i] = Zero
          <5>1. i \in Nat /\ i > 0 /\ i <= Len(file')
            BY <2>4
          <5>2. file'[i] = IF new THEN <<id, total_read + (i - at)>>
                           ELSE IF i <= Len(file) THEN file[i] ELSE Zero
            BY <2>4
          <5> HIDE DEF new
          <5>3. QED
            BY <5>1, <5>2
        <4>2. CASE new
          <5>1. file'[i][1] = id
            BY <4>0, <4>2
          <5>2. i > offset'
            BY <1>1, <2>5, <4>2
          <5>3. QED
            BY <1>1, <4>1, <4>2, <5>1, <5>2
        <4>3. CASE ~ new /\ i <= Len(file)
          <5>1. file'[i] = file[i] /\ i \in 1..Len(file)
            <6>1. file'[i] = file[i]
              BY <4>0, <4>3
            <6>2. i \in 1..Len(file)
              BY <2>4, <4>0, <4>3
            <6>3. QED
              BY <6>1, <6>2
          <5>2. \/ i <= Len(before) /\ file[i] = before[i]
                \/ /\ op = "WRITE" /\ total_written > 0 /\ i <= offset + total_written
                   /\ IF i > offset THEN file[i][1] = id ELSE i > Len(before) /\ file[i] = Zero
            BY <1>4, <5>1 DEF OnlyItsRange
          <5>3. i <= offset + total_written => i <= offset' + total_written'
            BY <1>1, <2>5, <4>1
          <5>4. QED
            BY <1>1, <4>1, <5>1, <5>2, <5>3
        <4>4. CASE ~ new /\ i > Len(file)
          <5>1. file'[i] = Zero /\ i <= at /\ Len(file') = at + m
            <6>1. ~ (i <= Len(file))
              BY <2>4, <4>0, <4>4
            <6>2. file'[i] = Zero
              BY <4>0, <4>4, <6>1
            <6>3. Len(file') = at + m
              BY <2>4, <2>5, <4>0, <6>1
            <6>4. i <= at
              BY <2>5, <4>0, <4>4, <6>3
            <6>5. QED
              BY <6>2, <6>3, <6>4
          <5>2. total_written = 0
            <6>1. SUFFICES ASSUME total_written > 0 PROVE FALSE
              BY <2>5
            <6>2. total_written \in 1..total_written
              BY <2>5, <6>1
            <6>3. at <= Len(file)
              BY <1>3, <2>5, <2>7, <6>2
            <6>4. QED
              BY <2>4, <2>5, <4>4, <5>1, <6>3
          <5>3. i <= offset' /\ i > Len(before')
            BY <1>1, <1>4, <2>4, <2>5, <4>4, <5>1, <5>2, TypeFacts DEF OnlyItsRange
          <5>4. i <= at + m
            BY <2>5, <5>1
          <5>5. ~ (i > offset')
            BY <1>1, <2>5, <5>3
          <5>6. QED
            BY <1>1, <4>1, <5>1, <5>3, <5>4, <5>5
        <4>5. QED
          BY <2>4, <4>2, <4>3, <4>4
      <3>3. QED
        BY <3>1, <3>2 DEF OnlyItsRange
    <2>12. WrittenIsThere'
      BY <1>1, <2>3 DEF WrittenIsThere, Returned
    <2>13. QED
      BY <1>2, <2>10, <2>11, <2>12 DEF Correct
  <1>7. CASE WriteFails
    <2>1. /\ UNCHANGED <<file, total_written>> /\ result' = -1
          /\ pc' \in {"idle", "torn"}
      BY <1>7 DEF WriteFails, fileVars
    <2>2. QED
      BY <1>1, <1>2, <1>4, <2>1 DEF Writing, Holding, Correct, WrittenIsThere,
                                    OnlyItsRange, Returned
  <1>8. CASE WriteDone
    <2>1. /\ UNCHANGED <<file, total_written, gap>> /\ result' = total_written
          /\ pc' = "idle" /\ total_read = size
      BY <1>8 DEF WriteDone, cntVars
    <2>2. Writing' /\ Holding' /\ OnlyItsRange'
      BY <1>1, <1>4, <2>1 DEF Writing, Holding, OnlyItsRange
    <2>3. Placed(result, size)'
      BY <1>1, <1>3, <2>1 DEF Placed
    <2>4. QED
      BY <1>2, <2>2, <2>3 DEF Correct, WrittenIsThere
  <1>9. QED
    BY <1>5, <1>6, <1>7, <1>8

LEMMA TransferStep == TransferInv /\ [Next]_vars => TransferInv'
  <1>1. SUFFICES ASSUME TransferInv, [Next]_vars PROVE TransferInv'
    OBVIOUS
  <1>2. TypeOK'
    BY <1>1, TypeStep DEF TransferInv
  <1>3. Reading' /\ Writing' /\ Holding' /\ Correct'
    <2>1. CASE UNCHANGED vars
      <3>1. UNCHANGED <<file, fds, pc, op, id, size, offset, at, sent, total_read,
                        total_written, data, received, result, before, gap>>
        BY <2>1 DEF vars, fileVars, opVars, cntVars
      <3>2. QED
        BY <1>1, <3>1 DEF TransferInv, Reading, Writing, Holding, Correct, ReadIsFile,
           WrittenIsThere, OnlyItsRange, Placed, Returned, Part
    <2>2. QED
      BY <1>1, <2>1, StartKeeps, ReadKeeps, WriteKeeps DEF Next, Progress
  <1>4. QED
    BY <1>2, <1>3 DEF TransferInv

LEMMA TransferInit == Init => TransferInv
  <1>1. SUFFICES ASSUME Init PROVE TransferInv
    OBVIOUS
  <1>2. TypeOK
    BY <1>1, TypeInit
  <1>3. Len(file) \in Nat /\ before = file
    BY <1>1, <1>2, TypeFacts DEF Init
  <1>4. Reading /\ Writing /\ Holding
    <2>1. Reading
      <3>1. Part(0, 0) = <<>>
        BY <1>2, TypeFacts, PartEmpty
      <3>2. QED
        BY <1>1, <3>1, EmptySeq DEF Init, Reading
    <2>2. QED
      BY <1>1, <2>1 DEF Init, Writing, Holding
  <1>5. ReadIsFile /\ WrittenIsThere
    BY <1>1 DEF Init, ReadIsFile, WrittenIsThere, Returned
  <1>6. OnlyItsRange
    BY <1>3 DEF OnlyItsRange
  <1>7. QED
    BY <1>2, <1>4, <1>5, <1>6 DEF TransferInv, Correct

LEMMA TransferInvariant == Spec => []TransferInv
  BY TransferInit, TransferStep, PTL DEF Spec

-----------------------------------------------------------------------------

\* The counters of the loops stay inside their buffers and a session never has
\* more descriptors open than it may (processRead, processWrite, writeFile).
THEOREM TypeCorrect == Spec => []TypeOK
  <1>1. TransferInv => TypeOK
    BY DEF TransferInv
  <1>2. QED
    BY <1>1, TransferInvariant, PTL

\* What readFile counts are the bytes of the file from the offset on, and all of them
\* unless some are still in the stream, however read() divides the file for
\* processRead and the data for readFile.
THEOREM ReadsTheFile == Spec => []ReadIsFile
  <1>1. TransferInv => ReadIsFile
    BY DEF TransferInv, Correct
  <1>2. QED
    BY <1>1, TransferInvariant, PTL

\* processWrite has put into the file as many bytes of its buffer as it says, in
\* order, and the first ones unless it went on behind a short write().
THEOREM WritesItsBytes == Spec => []WrittenIsThere
  <1>1. TransferInv => WrittenIsThere
    BY DEF TransferInv, Correct
  <1>2. QED
    BY <1>1, TransferInvariant, PTL

\* No handler changes a byte of the file outside of the range it has written, but for
\* the hole before it (lseek() in processWrite takes any offset).
THEOREM KeepsToItsRange == Spec => []OnlyItsRange
  <1>1. TransferInv => OnlyItsRange
    BY DEF TransferInv, Correct
  <1>2. QED
    BY <1>1, TransferInvariant, PTL
=============================================================================

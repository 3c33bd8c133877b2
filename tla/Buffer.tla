--------------------------------- MODULE Buffer ---------------------------------
(***************************************************************************)
(* A Buffer: a vector of bytes with a read and a write offset.  A write    *)
(* makes room first: it uses the space behind the write offset, or moves   *)
(* the unread bytes to the front, or enlarges the vector, which never      *)
(* exceeds Limit.  If the room is still too small the assertion of         *)
(* MoveWriteOffset fails: "failed", and nothing more is modelled.          *)
(***************************************************************************)
EXTENDS Naturals, Sequences

CONSTANTS
  Byte,      (* the bytes                                                  *)
  Newline,   (* the byte memchr looks for                                  *)
  Zero,      (* the byte resize fills with                                 *)
  Default,   (* BUFFER_DEFAULT_SIZE                                        *)
  Limit,     (* 1024 * 1024                                                *)
  Writes     (* what callers write                                         *)

ASSUME BufferAssumption ==
  /\ Newline \in Byte /\ Zero \in Byte
  /\ Default \in Nat \ {0}
  /\ Limit \in Nat /\ Limit >= Default
  /\ Writes \subseteq Seq(Byte) \ {<<>>}

VARIABLES
  size,      (* _buffer.size()                                             *)
  data,      (* what the vector holds                                      *)
  reader,    (* _reader_idx                                                *)
  writer,    (* _writer_idx                                                *)
  failed,    (* an assertion has failed                                    *)
  io         (* history: the last operation and the bytes it was given or  *)
             (* returned                                                   *)

bufferVars == <<size, data, reader, writer, failed, io>>

BufferInit ==
  /\ size = Default
  /\ data = [i \in 0 .. Default - 1 |-> Zero]
  /\ reader = 0 /\ writer = 0
  /\ failed = FALSE
  /\ io = <<"none", <<>>>>

ReadAbleSize == writer - reader
TailIdleSize == size - writer

(* The n bytes at the read offset.                                          *)
ReadAsString(n) == [i \in 1 .. n |-> data[reader + i - 1]]

-------------------------------------------------------------------------------
(* EnsureWriteSpace(len): the cases, and what the vector and the offsets    *)
(* are after it.                                                            *)

Layout(n, d, r, w) == [size |-> n, data |-> d, reader |-> r, writer |-> w]

Move(from, n) == [i \in 0 .. size - 1 |-> IF i < n THEN data[from + i] ELSE data[i]]

Largest(a, b) == IF a >= b THEN a ELSE b

Enlarged(len) ==
  LET wanted == Largest(2 * size, writer + len)
  IN  IF wanted > Limit THEN Limit ELSE wanted

EnsureWriteSpaceKeepsOffsets(len) ==
  IF len <= TailIdleSize THEN Layout(size, data, reader, writer)
  ELSE IF len <= reader + TailIdleSize
       THEN Layout(size, Move(reader, ReadAbleSize), 0, writer)
       ELSE Layout(Enlarged(len),
                   [i \in 0 .. Enlarged(len) - 1 |-> IF i < size THEN data[i] ELSE Zero],
                   reader, writer)

EnsureWriteSpaceWithoutWriter(len) ==
  IF len <= size - ReadAbleSize
  THEN Layout(size, Move(reader, ReadAbleSize), 0, ReadAbleSize)
  ELSE LET n == Largest(2 * size, len)
           m == IF n > Limit THEN Limit ELSE n
       IN  Layout(m, [i \in 0 .. m - 1 |-> IF i < size THEN data[i] ELSE Zero],
                  reader, writer)

EnsureWriteSpace(len) ==
  IF len <= TailIdleSize THEN Layout(size, data, reader, writer)
  ELSE IF len <= reader + TailIdleSize
       THEN Layout(size, Move(reader, ReadAbleSize), 0, ReadAbleSize)
       ELSE Layout(Enlarged(len),
                   [i \in 0 .. Enlarged(len) - 1 |-> IF i < size THEN data[i] ELSE Zero],
                   reader, writer)

WriteAndPush(s) ==
  LET b == EnsureWriteSpace(Len(s))
  IN  /\ ~failed
      /\ size' = b.size
      /\ reader' = b.reader
      /\ IF Len(s) <= b.size - b.writer
         THEN /\ data' = [i \in 0 .. b.size - 1 |->
                            IF b.writer <= i /\ i < b.writer + Len(s)
                            THEN s[i - b.writer + 1] ELSE b.data[i]]
              /\ writer' = b.writer + Len(s)
              /\ io' = <<"put", s>>
              /\ UNCHANGED failed
         ELSE /\ failed' = TRUE
              /\ data' = b.data /\ writer' = b.writer
              /\ UNCHANGED io

-------------------------------------------------------------------------------
(* Reading n bytes and moving the read offset: MoveReadOffset asserts that  *)
(* they are there, and every caller asks for no more.                       *)
Pop(op, n) ==
  /\ ~failed
  /\ io' = <<op, ReadAsString(n)>>
  /\ reader' = reader + n
  /\ UNCHANGED <<size, data, writer, failed>>

ReadAndPop(n) == Pop("get", n)

FindCRLF(n) ==
  /\ n <= ReadAbleSize
  /\ data[reader + n - 1] = Newline
  /\ \A i \in 1 .. n - 1 : data[reader + i - 1] # Newline

NoCRLF == \A i \in 1 .. ReadAbleSize : data[reader + i - 1] # Newline

GetLineAndPop ==
  \/ \E n \in 1 .. size : FindCRLF(n) /\ Pop("line", n)
  \/ NoCRLF /\ Pop("line", 0)

Clear ==
  /\ ~failed
  /\ reader' = 0 /\ writer' = 0
  /\ io' = <<"clear", <<>>>>
  /\ IF size > Default
     THEN size' = Default /\ data' = [i \in 0 .. Default - 1 |-> Zero]
     ELSE UNCHANGED <<size, data>>
  /\ UNCHANGED failed

BufferNext ==
  \/ \E s \in Writes : WriteAndPush(s)
  \/ \E n \in 1 .. ReadAbleSize : ReadAndPop(n)
  \/ GetLineAndPop
  \/ Clear

BufferSpec == BufferInit /\ [][BufferNext]_bufferVars

-------------------------------------------------------------------------------
(* The offsets are in order and inside the vector, which stays below Limit. *)
BufferTypes ==
  /\ size \in Default .. Limit
  /\ data \in [0 .. size - 1 -> Byte]
  /\ reader \in Nat /\ writer \in Nat
  /\ reader <= writer /\ writer <= size
  /\ failed \in BOOLEAN
  /\ io \in {"none", "put", "get", "line", "clear"} \X Seq(Byte)

(* The offsets, the moves and the enlargements never lose, reorder or       *)
(* invent a byte: the readable bytes are the queue of what was written.     *)
Bytes == INSTANCE ByteQueue WITH queue <- ReadAsString(ReadAbleSize)

BufferIsQueue == Bytes!QueueSpec

(* EnsureWriteSpace gives the room it is asked for unless the vector it     *)
(* would take, unread bytes AND the consumed ones before them, exceeds      *)
(* Limit (moving the bytes first is not tried when enlarging).              *)
FailsOnlyAtLimit ==
  [][failed' # failed => \E s \in Writes : /\ writer + Len(s) > Limit
                                           /\ ReadAbleSize + Len(s) > size]_bufferVars

===============================================================================

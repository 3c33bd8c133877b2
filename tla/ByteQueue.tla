------------------------------- MODULE ByteQueue -------------------------------
(***************************************************************************)
(* What a Buffer promises: a queue of bytes, written at its end, read and  *)
(* removed at its front, by number or by line.                             *)
(***************************************************************************)
EXTENDS Naturals, Sequences

CONSTANTS Byte, Newline

VARIABLES
  queue,    (* the bytes written and not yet read                          *)
  io        (* the last operation, with the bytes it was given or returned *)

queueVars == <<queue, io>>

QueueInit == queue = <<>> /\ io = <<"none", <<>>>>

Put ==
  /\ io'[1] = "put" /\ io'[2] \in Seq(Byte)
  /\ queue' = queue \o io'[2]

Remove(op, n) ==
  /\ io' = <<op, SubSeq(queue, 1, n)>>
  /\ queue' = SubSeq(queue, n + 1, Len(queue))

Get(n) == Remove("get", n)

(* The first line with its newline, or nothing while there is none.         *)
GetLine ==
  \/ \E n \in 1 .. Len(queue) :
       /\ queue[n] = Newline /\ \A i \in 1 .. n - 1 : queue[i] # Newline
       /\ Remove("line", n)
  \/ /\ \A i \in 1 .. Len(queue) : queue[i] # Newline
     /\ Remove("line", 0)

Empty == queue' = <<>> /\ io' = <<"clear", <<>>>>

QueueNext ==
  \/ Put
  \/ \E n \in 0 .. Len(queue) : Get(n)
  \/ GetLine
  \/ Empty

QueueSpec == QueueInit /\ [][QueueNext]_queueVars

===============================================================================

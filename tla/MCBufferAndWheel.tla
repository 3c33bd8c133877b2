--------------------------- MODULE MCBufferAndWheel ---------------------------
(* The two data structures a connection rests on, for TLC: a small wheel,    *)
(* or short writes into a small buffer.  They share nothing, so a behaviour  *)
(* is one of the wheel or one of the buffer.                                 *)
EXTENDS TimerWheel, Buffer

CONSTANTS o1, o2, id1, id2, MaxWrite

Objects == {o1, o2}
Ids     == {id1, id2}
Strings == UNION {[1 .. n -> Byte \ {Zero}] : n \in 1 .. MaxWrite}

VARIABLE tried   \* which of them

allVars == <<vars, bufferVars, tried>>

WheelStep(A)  == tried = "wheel" /\ A /\ UNCHANGED <<bufferVars, tried>>
BufferStep(A) == tried = "buffer" /\ A /\ UNCHANGED <<vars, tried>>

EitherInit == tried \in {"wheel", "buffer"} /\ Init /\ BufferInit

(* A failed assertion of the buffer ends the process.                        *)
Ended == tried = "buffer" /\ failed /\ UNCHANGED allVars

EitherNext == WheelStep(Next) \/ BufferStep(BufferNext) \/ Ended

EitherSpec ==
  /\ EitherInit /\ [][EitherNext]_allVars
  /\ WF_allVars(WheelStep(CountExpiration)) /\ WF_allVars(WheelStep(OnTime))
===============================================================================

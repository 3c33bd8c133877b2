----------------------------- MODULE MCLoopThread -----------------------------
(* One client, a second producer and one loop thread for TLC.               *)
EXTENDS LoopThread

CONSTANTS main, other

Producers == {main, other}
Clients   == {main}
===============================================================================

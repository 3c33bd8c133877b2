----------------------------- MODULE MCWrkThread -----------------------------
(* A thread with a connection or two for TLC.                               *)
EXTENDS WrkThread, TLC

CONSTANTS c1, c2

Conns == {c1, c2}

Scripts == {[conns |-> {c1}, delay |-> FALSE, pipeline |-> 2, troubles |-> 2],
            [conns |-> {c1}, delay |-> TRUE, pipeline |-> 1, troubles |-> 2],
            [conns |-> Conns, delay |-> TRUE, pipeline |-> 1, troubles |-> 1]}
===============================================================================

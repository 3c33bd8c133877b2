------------------------------ MODULE MCWrkStats ------------------------------
(* Two threads for TLC.                                                     *)
EXTENDS WrkStats

CONSTANTS t1, t2

Threads == {t1, t2}
===============================================================================

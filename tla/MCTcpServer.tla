------------------------------ MODULE MCTcpServer ------------------------------
(* A few connections and worker loops, or none, for TLC.                     *)
EXTENDS TcpServer
===============================================================================

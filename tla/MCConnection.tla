----------------------------- MODULE MCConnection -----------------------------
(* A few connections and descriptors for TLC.                               *)
EXTENDS Connection, TLC

CONSTANTS c1, c2, f1

Conns == {c1, c2}
OneFd == {f1}

ConnSymmetry == Permutations(Conns)
===============================================================================

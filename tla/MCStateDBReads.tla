--------------------------- MODULE MCStateDBReads ---------------------------
(* Two accounts, one storage slot, one storage value.                      *)
EXTENDS StateDBReads, TLC

CONSTANTS a1, a2, s1, x1

MCAddrs == {a1, a2}
====

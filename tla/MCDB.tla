-------------------------------- MODULE MCDB --------------------------------
(* Model-checking instance of DB: two keys and two values.                 *)
EXTENDS DB, TLC

CONSTANTS k1, k2

\* Keys are interchangeable: no action or property names one.
MCSymmetry == Permutations({k1, k2})
====

---------------------------- MODULE MCStateRoots ----------------------------
(* Two root hashes, two CleanPtrs, a root file of up to three records and  *)
(* an LRU of one entry: a second commit evicts the first root's entry.     *)
EXTENDS StateRoots, TLC

CONSTANTS h1, h2, c1, c2

MCHashes == {h1, h2}
MCCptrs == {c1, c2}
MCSymmetry == Permutations(MCHashes) \cup Permutations(MCCptrs)
====

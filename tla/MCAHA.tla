------------------------------- MODULE MCAHA -------------------------------
(* Model-checking instance of AHA: two tiers of capacity 2 and 3 (the     *)
(* shape of the default [4, 8, 12, 16] scaled down), two branches.        *)
EXTENDS AHA, TLC

\* Two tiers: arrays of 2 children go to tier 1, of 3 to tier 2.
MCAhaLens == <<2, 3>>
\* One child more than the last tier: a branch the AHA cannot store.
MCMaxArrOverflow == 4
\* Branch identities and reference items are interchangeable: no action or
\* property names a particular one.
CONSTANTS h1, h2, b1, b2
MCItems == {h1, h2}
MCBranches == {b1, b2}
MCSymmetry == Permutations(MCItems) \cup Permutations(MCBranches)
====

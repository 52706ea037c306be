------------------------------ MODULE MCMerkle ------------------------------
(* Model-checking instance of Merkle: four keys whose paths exercise every *)
(* restructuring of insert and delete.                                     *)
(*   <<0>>     -> nibbles 0,0      <<1>> -> 0,1   (split at depth 1)       *)
(*   <<0, 0>>  -> nibbles 0,0,0,0  (<<0>> is its prefix: value slot 16)    *)
(*   <<0, 16>> -> nibbles 0,0,1,0  (with the two above, a branch of three  *)
(*                                  entries, so a delete can keep it)      *)
(* Writing <<0>> again once the other two sit under a short [0,0] or [0]  *)
(* reaches the assert of merkle.rs 199.                                    *)
EXTENDS Merkle

MCKeys == {<<0>>, <<1>>, <<0, 0>>, <<0, 16>>}

\* The refinement run keeps three keys: the primed evaluation of the
\* refinement mapping is costly, and the three keys still split at depth 1
\* and use the value slot.
MCKeysRefine == {<<0>>, <<1>>, <<0, 0>>}

=============================================================================

------------------------------ MODULE KVStore ------------------------------
(***************************************************************************)
(* What the versioned store promises its callers (spec.md sections 2, 4.5  *)
(* and 8): a live view that reads see, edited one key at a time; a commit  *)
(* that publishes the live view as a new immutable version; and reopening  *)
(* any published version, which then reads exactly as it did when it was   *)
(* published.                                                              *)
(***************************************************************************)
CONSTANTS Keys, Vals, Missing

VARIABLES
    live,       \* what find() returns for each key
    committed,  \* the contents of the current committed root
    snapshots   \* the contents of every version that can be reopened

kvVars == <<live, committed, snapshots>>

EmptyMap == [k \in Keys |-> Missing]

Init ==
    /\ live = EmptyMap
    /\ committed = EmptyMap
    /\ snapshots = {EmptyMap}

\* insert (a value) or delete (Missing) of key k: only k's entry changes.
Write(k) ==
    /\ live' \in {[live EXCEPT ![k] = v] : v \in Vals \cup {Missing}}
    /\ UNCHANGED <<committed, snapshots>>

Publish ==
    /\ committed' = live
    /\ snapshots' = snapshots \cup {live}
    /\ UNCHANGED live

\* Reopen a published version: live and committed both become it.
Reopen ==
    /\ live' \in snapshots
    /\ committed' = live'
    /\ UNCHANGED snapshots

Next ==
    \/ \E k \in Keys : Write(k)
    \/ Publish
    \/ Reopen

Spec == Init /\ [][Next]_kvVars

=============================================================================

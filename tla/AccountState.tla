---------------------------- MODULE AccountState ----------------------------
(***************************************************************************)
(* What the account layer promises its callers: the Ethereum world-state   *)
(* semantics the StateDB API mirrors (spec.md section 1; the workload of   *)
(* tests/statedb_tests.rs is geth's).  Every setter is seen by the next    *)
(* getter; create_account gives a new account (Account::new, no storage); *)
(* remove_account zeroes the balance and the account disappears at the    *)
(* next commit; revert(sid) restores the state snapshot sid was taken in;  *)
(* opening a root shows what that root holds.                              *)
(***************************************************************************)
EXTENDS Naturals, Sequences

CONSTANTS Addrs, SKeys, Vals, Empty, Missing

VARIABLES
    view,       \* view[a]: Missing, or the account the getters should show
    snaps       \* snaps[i]: view when snapshot i - 1 was taken

accVars == <<view, snaps>>

\* An account: balance, nonce, storage, and whether it is removed at commit.
Entries == [bal : Nat, nonce : Nat, st : [SKeys -> Vals \cup {Empty}], removed : BOOLEAN]
Views == [Addrs -> Entries \cup {Missing}]

NewAccount == [bal |-> 0, nonce |-> 0, st |-> [k \in SKeys |-> Empty], removed |-> FALSE]

\* A setter on an absent account first creates it.
Touch(e) == IF e = Missing THEN NewAccount ELSE e

\* The getters: an absent account reads as zero and empty storage.
Balance(a) == IF view[a] = Missing THEN 0 ELSE view[a].bal
Nonce(a) == IF view[a] = Missing THEN 0 ELSE view[a].nonce
Storage(a, k) == IF view[a] = Missing THEN Empty ELSE view[a].st[k]

Init ==
    /\ view = [a \in Addrs |-> Missing]
    /\ snaps = <<>>

Change(a, f(_)) ==
    /\ view' = [view EXCEPT ![a] = f(Touch(@))]
    /\ UNCHANGED snaps

Credit(a) == Change(a, LAMBDA e : [e EXCEPT !.bal = @ + 1])
Debit(a) == Change(a, LAMBDA e : IF e.bal >= 1 THEN [e EXCEPT !.bal = @ - 1] ELSE e)
SetNonceTo(a, n) == Change(a, LAMBDA e : [e EXCEPT !.nonce = n])
Store(a, k, v) == Change(a, LAMBDA e : [e EXCEPT !.st[k] = v])

Create(a) ==
    /\ view' = [view EXCEPT ![a] = NewAccount]
    /\ UNCHANGED snaps

Remove(a) ==
    /\ view' = [view EXCEPT ![a] = IF @ = Missing THEN @ ELSE [@ EXCEPT !.bal = 0, !.removed = TRUE]]
    /\ UNCHANGED snaps

Snap ==
    /\ snaps' = Append(snaps, view)
    /\ UNCHANGED view

\* Snapshot ids taken after sid restore the state at the revert, as the
\* drained deltas do; only the snapshot sid itself is meant to be used.
RevertTo(sid) ==
    /\ sid < Len(snaps)
    /\ view' = snaps[sid + 1]
    /\ snaps' = [i \in DOMAIN snaps |-> IF i > sid THEN snaps[sid + 1] ELSE snaps[i]]

Forget ==
    /\ snaps' = <<>>
    /\ UNCHANGED view

\* commit: removed accounts are gone; the snapshots are discarded.
Publish ==
    /\ view' = [a \in Addrs |-> IF view[a] # Missing /\ view[a].removed THEN Missing ELSE view[a]]
    /\ snaps' = <<>>

\* open_root, open_root_hash or reopening: the view is what the root holds.
Open(v) ==
    /\ view' = v
    /\ snaps' = <<>>

Next ==
    \/ \E a \in Addrs :
          \/ Credit(a) \/ Debit(a) \/ Create(a) \/ Remove(a)
          \/ \E n \in Nat : SetNonceTo(a, n)
          \/ \E k \in SKeys, v \in Vals \cup {Empty} : Store(a, k, v)
    \/ Snap \/ Forget \/ Publish
    \/ \E sid \in Nat : RevertTo(sid)
    \/ \E v \in Views : Open(v)

Spec == Init /\ [][Next]_accVars

====

---------------------------- MODULE StateDBReads ----------------------------
(***************************************************************************)
(* StateDB composed with AccountState, what its API promises: every StateDB *)
(* operation is paired with the step of the promise it stands for, and the *)
(* getters' answers (BalanceRead, NonceRead, StateRead) are compared with  *)
(* the promised view.  view and snaps are history variables: no StateDB    *)
(* guard reads them.                                                       *)
(***************************************************************************)
EXTENDS StateDB

VARIABLES view, snaps

Acc == INSTANCE AccountState

allVars == <<vars, view, snaps>>

\* The account view a root holds: the accounts of its trie, with the
\* storage of their subtries.
Contents(trie) ==
    [a \in Addrs |-> IF trie[a] = Missing THEN Missing
                     ELSE [bal |-> trie[a].bal, nonce |-> trie[a].nonce,
                           st |-> trie[a].root, removed |-> FALSE]]

\* Switching to root: a switch to the open root keeps everything.
OpenView(root) ==
    IF cur = root THEN UNCHANGED <<view, snaps>> ELSE Acc!Open(Contents(TrieAt(root)))

ReadsInit == Init /\ Acc!Init

ReadsNext ==
    \/ \E a \in Addrs :
          \/ (GetObj(a) \/ EvictObj(a)) /\ UNCHANGED <<view, snaps>>
          \/ AddBalance(a) /\ Acc!Credit(a)
          \/ SubBalance(a) /\ Acc!Debit(a)
          \/ CreateAccount(a) /\ Acc!Create(a)
          \/ RemoveAccount(a) /\ Acc!Remove(a)
          \/ \E n \in Nonces : SetNonce(a, n) /\ Acc!SetNonceTo(a, n)
          \/ \E k \in SKeys : (GetState(a, k) \/ EvictState(<<a, k>>)) /\ UNCHANGED <<view, snaps>>
          \/ \E k \in SKeys, v \in Vals \cup {Empty} : SetState(a, k, v) /\ Acc!Store(a, k, v)
    \/ Snapshot /\ Acc!Snap
    \/ Finalise /\ Acc!Forget
    \/ \E sid \in 0..MaxSnaps - 1 : Revert(sid) /\ Acc!RevertTo(sid)
    \/ CommitWrite /\ Acc!Publish
    \/ CommitFlush /\ UNCHANGED <<view, snaps>>
    \/ \E root \in {0} \cup {journal[i][2] : i \in DOMAIN journal} :
          OpenRoot(root) /\ OpenView(root)
    \/ \E i \in DOMAIN journal :
          OpenRootHash(i) /\ IF journal[i][1] = HashOf(Committed) THEN UNCHANGED <<view, snaps>>
                             ELSE OpenView(journal[i][2])
    \/ Restart /\ Acc!Open(Contents(TrieAt(IF journal = <<>> THEN 0 ELSE Last(journal)[2])))

ReadsSpec == ReadsInit /\ [][ReadsNext]_allVars

-----------------------------------------------------------------------------

\* The getters answer with the latest state the caller made: get_balance,
\* get_nonce (lines 324-341) and get_state (lines 360-373) return what the
\* setters, create_account, remove_account, revert, commit and open_root
\* before them promise, whatever obj_clean, obj_dirty and state_clean held.
ReadYourWrites ==
    \A a \in Addrs :
        /\ BalanceRead(a) = Acc!Balance(a)
        /\ NonceRead(a) = Acc!Nonce(a)
        /\ \A k \in SKeys : StateRead(a, k) = Acc!Storage(a, k)

====

------------------------------ MODULE StateDB ------------------------------
(***************************************************************************)
(* The account state layer (src/statedb.rs): StateDB over an account trie *)
(* and one storage trie per account, all in one node store, with the      *)
(* object caches obj_clean / obj_dirty, the storage cache state_clean, the *)
(* snapshot deltas and the root-hash journal.                              *)
(*                                                                         *)
(* The tries are abstracted to the key/value behaviour Merkle is checked  *)
(* to refine (run merkle_refines_kv).  A storage root is named by its     *)
(* contents, since a published root never changes what it reads as.  An   *)
(* account root is its position in aroots (0 is the empty trie), because  *)
(* durability is about which account roots have their nodes on disk.      *)
(* A root hash is the contents it hashes (keccak is injective here).      *)
(* Account fields are balance and nonce; set_codehash has the control of   *)
(* set_nonce and is left out.                                              *)
(***************************************************************************)
EXTENDS Naturals, Sequences, SequencesExt, FiniteSets

CONSTANTS
    Addrs,      \* account addresses
    SKeys,      \* storage keys
    Vals,       \* nonempty storage values
    Empty,      \* Vec::new(): a missing or zero storage value
    Missing,    \* an address the account trie does not hold
    NoObj,      \* an address an object map does not hold
    NoRec,      \* an address a snapshot delta has not recorded
    NoneObj,    \* a delta entry None: the object did not exist
    NotCached,  \* a storage slot state_clean does not hold
    MaxBal,     \* bound on balances (BigUint in the code)
    Nonces,     \* nonces set_nonce may set
    MaxSnaps,   \* bound on the length of deltas
    MaxCommits  \* bound on the records of the root journal

VARIABLES
    aroots,     \* aroots[c]: the account trie published at CleanPtr c
    cur,        \* the merkle's root_cptr (0: the empty trie)
    flushedN,   \* the node file's durable prefix, in account roots
    journal,    \* the root file: <<root hash, CleanPtr>> records
    objClean,   \* obj_clean
    objDirty,   \* obj_dirty
    stateClean, \* state_clean, keyed by <<addr, key>>
    deltas,     \* deltas: one map addr -> Option<StateObject> per snapshot
    flushPending  \* commit has appended its root, store.flush() not yet run

vars == <<aroots, cur, flushedN, journal, objClean, objDirty, stateClean,
          deltas, flushPending>>

Storages == [SKeys -> Vals \cup {Empty}]
EmptyStorage == [k \in SKeys |-> Empty]
\* What the account trie holds for an address: RLP(account) and RLP(rootptr).
\* root is the rootptr kept in extra; rhash the storage root hash inside
\* the account (the storage contents it hashes).
Accounts == [bal : 0..MaxBal, nonce : Nonces, root : Storages, rhash : Storages]
\* StateObject: account, rootptr, state_dirty (NoObj for an absent key) and deleted.
Objects == [bal : 0..MaxBal, nonce : Nonces, root : Storages, rhash : Storages,
            sdirty : [SKeys -> Vals \cup {Empty, NoObj}], deleted : BOOLEAN]
NoWrites == [k \in SKeys |-> NoObj]
NoAccounts == [a \in Addrs |-> Missing]

\* The account trie at CleanPtr c.
TrieAt(c) == IF c = 0 THEN NoAccounts ELSE aroots[c]
Committed == TrieAt(cur)

\* StateObject::new(decode(value), decode(extra)).
Decode(e) == [bal |-> e.bal, nonce |-> e.nonce, root |-> e.root, rhash |-> e.rhash,
              sdirty |-> NoWrites, deleted |-> FALSE]
\* StateObject::new(Account::new(), 0).
FreshObj == [bal |-> 0, nonce |-> 0, root |-> EmptyStorage, rhash |-> EmptyStorage,
             sdirty |-> NoWrites, deleted |-> FALSE]

\* The object get_obj returns: obj_dirty, else obj_clean, else the trie's.
CurObj(a) ==
    IF objDirty[a] # NoObj THEN objDirty[a]
    ELSE IF objClean[a] # NoObj THEN objClean[a]
    ELSE IF Committed[a] # Missing THEN Decode(Committed[a])
    ELSE NoObj

\* get_obj: on a miss of both maps, a found account is inserted in obj_clean.
LoadClean(a) ==
    IF objDirty[a] = NoObj /\ objClean[a] = NoObj /\ Committed[a] # Missing
    THEN [objClean EXCEPT ![a] = Decode(Committed[a])]
    ELSE objClean

\* deltas.last_mut() entry(addr).or_insert(o).
Record(ds, a, o) ==
    IF ds # <<>> /\ Last(ds)[a] = NoRec
    THEN [ds EXCEPT ![Len(ds)] = [@ EXCEPT ![a] = o]]
    ELSE ds

\* An object made dirty without popping it from obj_clean.
EnsureDirtyKeepsClean(a) ==
    LET o == CurObj(a) IN
    [clean  |-> objClean,
     dirty  |-> [objDirty EXCEPT ![a] = IF o = NoObj THEN FreshObj ELSE o],
     deltas |-> Record(deltas, a, IF o = NoObj THEN NoneObj ELSE o)]

\* ensure_dirty_obj: move the object to obj_dirty (popping obj_clean or
\* reading the trie, else a fresh object) and record its prior value in the
\* last delta.  Returns the new obj_clean, obj_dirty and deltas.
EnsureDirty(a) ==
    LET o == CurObj(a) IN
    [clean  |-> IF objDirty[a] = NoObj THEN [objClean EXCEPT ![a] = NoObj] ELSE objClean,
     dirty  |-> [objDirty EXCEPT ![a] = IF o = NoObj THEN FreshObj ELSE o],
     deltas |-> Record(deltas, a, IF o = NoObj THEN NoneObj ELSE o)]

\* A setter: ensure_dirty_obj, then f changes the dirty object.
Mutate(a, f(_)) ==
    LET e == EnsureDirty(a) IN
    /\ objClean' = e.clean
    /\ objDirty' = [e.dirty EXCEPT ![a] = f(@)]
    /\ deltas' = e.deltas

Idle == ~flushPending

\* The account trie's hash: what RLP(account) holds, rootptr excluded.
HashOf(trie) ==
    [a \in Addrs |-> IF trie[a] = Missing THEN Missing
                     ELSE [bal |-> trie[a].bal, nonce |-> trie[a].nonce, rhash |-> trie[a].rhash]]

\* What get_balance and get_nonce return: the object get_obj finds, else 0.
BalanceRead(a) == IF CurObj(a) = NoObj THEN 0 ELSE CurObj(a).bal
NonceRead(a) == IF CurObj(a) = NoObj THEN 0 ELSE CurObj(a).nonce

\* What get_state returns: state_clean's entry, else the key in the
\* subtrie at the rootptr of get_obj's object, else empty.
StateRead(a, k) ==
    IF stateClean[<<a, k>>] # NotCached THEN stateClean[<<a, k>>]
    ELSE IF CurObj(a) = NoObj THEN Empty
    ELSE CurObj(a).root[k]

-----------------------------------------------------------------------------
(* Operations                                                              *)

\* get_balance / get_nonce / get_codehash: get_obj, which may fill obj_clean.
GetObj(a) ==
    /\ Idle
    /\ objClean' = LoadClean(a)
    /\ UNCHANGED <<aroots, cur, flushedN, journal, objDirty, stateClean, deltas, flushPending>>

\* add_balance (amount 1).
AddBalance(a) ==
    /\ Idle
    /\ LET o == CurObj(a) IN (IF o = NoObj THEN 0 ELSE o.bal) < MaxBal
    /\ Mutate(a, LAMBDA o : [o EXCEPT !.bal = @ + 1])
    /\ UNCHANGED <<aroots, cur, flushedN, journal, stateClean, flushPending>>

\* sub_balance without the amount <= balance check.
SubBalanceNoCheck(a) ==
    /\ Idle
    /\ Mutate(a, LAMBDA o : [o EXCEPT !.bal = @ - 1])
    /\ UNCHANGED <<aroots, cur, flushedN, journal, stateClean, flushPending>>

\* sub_balance (amount 1): subtracts only when the balance covers it.
SubBalance(a) ==
    /\ Idle
    /\ Mutate(a, LAMBDA o : IF 1 <= o.bal THEN [o EXCEPT !.bal = @ - 1] ELSE o)
    /\ UNCHANGED <<aroots, cur, flushedN, journal, stateClean, flushPending>>

\* set_nonce.
SetNonce(a, n) ==
    /\ Idle
    /\ Mutate(a, LAMBDA o : [o EXCEPT !.nonce = n])
    /\ UNCHANGED <<aroots, cur, flushedN, journal, stateClean, flushPending>>

\* set_state: records the write in the object's state_dirty.
SetState(a, k, v) ==
    /\ Idle
    /\ Mutate(a, LAMBDA o : [o EXCEPT !.sdirty[k] = v])
    /\ UNCHANGED <<aroots, cur, flushedN, journal, stateClean, flushPending>>

\* get_state: state_clean, else the subtrie at the rootptr of get_obj's
\* object (which may fill obj_clean); no object reads as empty and is
\* not cached.
GetState(a, k) ==
    /\ Idle
    /\ IF stateClean[<<a, k>>] # NotCached
       THEN UNCHANGED <<objClean, stateClean>>
       ELSE /\ objClean' = LoadClean(a)
            /\ stateClean' = IF CurObj(a) = NoObj THEN stateClean
                             ELSE [stateClean EXCEPT ![<<a, k>>] = CurObj(a).root[k]]
    /\ UNCHANGED <<aroots, cur, flushedN, journal, objDirty, deltas, flushPending>>

\* create_account: Account::new() (balance, nonce and roothash reset), no
\* pending writes, not deleted; rootptr is kept.
CreateAccount(a) ==
    /\ Idle
    /\ Mutate(a, LAMBDA o : [o EXCEPT !.bal = 0, !.nonce = 0, !.rhash = EmptyStorage,
                                       !.sdirty = NoWrites, !.deleted = FALSE])
    /\ UNCHANGED <<aroots, cur, flushedN, journal, stateClean, flushPending>>

\* remove_account: marks the object in obj_dirty, else the one popped from
\* obj_clean, deleted with a zero balance; no delta is recorded.
RemoveAccount(a) ==
    /\ Idle
    /\ LET kill(o) == [o EXCEPT !.deleted = TRUE, !.bal = 0] IN
       IF objDirty[a] # NoObj
       THEN /\ objDirty' = [objDirty EXCEPT ![a] = kill(@)]
            /\ UNCHANGED objClean
       ELSE IF objClean[a] # NoObj
       THEN /\ objDirty' = [objDirty EXCEPT ![a] = kill(objClean[a])]
            /\ objClean' = [objClean EXCEPT ![a] = NoObj]
       ELSE UNCHANGED <<objClean, objDirty>>
    /\ UNCHANGED <<aroots, cur, flushedN, journal, stateClean, deltas, flushPending>>

\* snapshot: a new empty delta; its id is deltas.len() - 1.
Snapshot ==
    /\ Idle /\ Len(deltas) < MaxSnaps
    /\ deltas' = Append(deltas, [a \in Addrs |-> NoRec])
    /\ UNCHANGED <<aroots, cur, flushedN, journal, objClean, objDirty, stateClean, flushPending>>

\* revert(sid): drain deltas[len-1] down to deltas[sid], so the earliest
\* record of an address is applied last and wins; the drained maps stay.
Revert(sid) ==
    /\ Idle /\ sid < Len(deltas)
    /\ objDirty' =
         [a \in Addrs |->
            LET idx == {i \in sid + 1..Len(deltas) : deltas[i][a] # NoRec} IN
            IF idx = {} THEN objDirty[a]
            ELSE LET o == deltas[Min(idx)][a] IN IF o = NoneObj THEN NoObj ELSE o]
    /\ deltas' = [i \in 1..Len(deltas) |-> IF i > sid THEN [a \in Addrs |-> NoRec] ELSE deltas[i]]
    /\ UNCHANGED <<aroots, cur, flushedN, journal, objClean, stateClean, flushPending>>

\* finalise: clears the deltas.
Finalise ==
    /\ Idle
    /\ deltas' = <<>>
    /\ UNCHANGED <<aroots, cur, flushedN, journal, objClean, objDirty, stateClean, flushPending>>

\* The object commit leaves for an address: when it has storage writes and
\* is not deleted, its subtrie gets them (an empty value deletes the key)
\* rootptr the subtrie's new root and roothash its hash; state_dirty is
\* drained.
Flushed(o) ==
    IF (\E k \in SKeys : o.sdirty[k] # NoObj) /\ ~o.deleted
    THEN LET r == [k \in SKeys |-> IF o.sdirty[k] = NoObj THEN o.root[k] ELSE o.sdirty[k]] IN
         [o EXCEPT !.root = r, !.rhash = r, !.sdirty = NoWrites]
    ELSE o

\* state_clean after the subtrie loop: written slots are cached, emptied
\* ones removed.
StateAfter ==
    [ak \in Addrs \X SKeys |->
        LET o == objDirty[ak[1]] IN
        IF o = NoObj \/ o.deleted \/ o.sdirty[ak[2]] = NoObj THEN stateClean[ak]
        ELSE IF o.sdirty[ak[2]] = Empty THEN NotCached ELSE o.sdirty[ak[2]]]

\* The account trie after the second loop: deleted objects are deleted,
\* the others inserted.
TrieAfter ==
    [a \in Addrs |->
        LET o == objDirty[a] IN
        IF o = NoObj THEN Committed[a]
        ELSE IF o.deleted THEN Missing
        ELSE [bal |-> o.bal, nonce |-> o.nonce, root |-> Flushed(o).root,
              rhash |-> Flushed(o).rhash]]

\* The loop dirtied the merkle's root: an insert, or a delete of a present
\* account (a delete that finds nothing on a clean tree is undone).
RootDirtied ==
    \E a \in Addrs : objDirty[a] # NoObj /\ (~objDirty[a].deleted \/ Committed[a] # Missing)

\* merkle.commit: root_cptr when nothing is dirty, 0 for an emptied trie,
\* else the new root written at the node file's tail.
NewRoot ==
    IF ~RootDirtied THEN cur
    ELSE IF TrieAfter = NoAccounts THEN 0 ELSE Len(aroots) + 1

\* merkle.hash() of the root at CleanPtr c once the trie file is tries.
RootHash(c, tries) == HashOf(IF c = 0 THEN NoAccounts ELSE tries[c])

\* merkle.hash() after merkle.commit: the hash add_root_ptr records.
CommitHash == RootHash(NewRoot, aroots')

\* commit, lines 421-488: the storage subtries, the account trie,
\* merkle.commit, deltas.clear() and add_root_ptr(merkle.hash(), cptr),
\* which writes and flushes the root file.
CommitWrite ==
    /\ Idle /\ Len(journal) < MaxCommits
    /\ aroots' = IF NewRoot > Len(aroots) THEN Append(aroots, TrieAfter) ELSE aroots
    /\ cur' = NewRoot
    /\ stateClean' = StateAfter
    /\ objClean' = [a \in Addrs |->
                      IF objDirty[a] # NoObj /\ ~objDirty[a].deleted
                      THEN Flushed(objDirty[a]) ELSE objClean[a]]
    /\ objDirty' = [a \in Addrs |-> NoObj]
    /\ deltas' = <<>>
    /\ journal' = Append(journal, <<CommitHash, NewRoot>>)
    /\ flushPending' = TRUE
    /\ UNCHANGED flushedN

\* commit, line 489: self.store.lock().unwrap().flush().
CommitFlush ==
    /\ flushPending
    /\ flushedN' = Len(aroots)
    /\ flushPending' = FALSE
    /\ UNCHANGED <<aroots, cur, journal, objClean, objDirty, stateClean, deltas>>

\* open_root that replaces the Merkle but keeps obj_clean.
OpenRootKeepsClean(root) ==
    IF cur = root THEN UNCHANGED <<cur, objClean, objDirty, stateClean, deltas>>
    ELSE /\ cur' = root
         /\ UNCHANGED objClean /\ objDirty' = [a \in Addrs |-> NoObj]
         /\ stateClean' = [ak \in Addrs \X SKeys |-> NotCached]
         /\ deltas' = <<>>

\* open_root(root): unless already open, a new Merkle and cleared caches.
OpenRootBody(root) ==
    IF cur = root THEN UNCHANGED <<cur, objClean, objDirty, stateClean, deltas>>
    ELSE /\ cur' = root
         /\ objClean' = [a \in Addrs |-> NoObj] /\ objDirty' = [a \in Addrs |-> NoObj]
         /\ stateClean' = [ak \in Addrs \X SKeys |-> NotCached]
         /\ deltas' = <<>>

OpenRoot(root) ==
    /\ Idle
    /\ OpenRootBody(root)
    /\ UNCHANGED <<aroots, flushedN, journal, flushPending>>

\* open_root_hash(h) for the hash of journal record i: nothing when h is
\* the open root's hash, else open_root of the CleanPtr get_root_ptr finds
\* (any record with that hash). A miss of get_root_ptr (StateRoots) changes
\* nothing here, so it is a stuttering step.
OpenRootHash(i) ==
    /\ Idle
    /\ IF journal[i][1] = HashOf(Committed) THEN UNCHANGED <<cur, objClean, objDirty, stateClean, deltas>>
       ELSE OpenRootBody(journal[i][2])
    /\ UNCHANGED <<aroots, flushedN, journal, flushPending>>

\* The process ends, by Drop (which flushes the node store) or a crash,
\* and StateDB::open reopens the directory: the root is the last journal
\* record's CleanPtr, or 0 when there is none, and every cache is empty.
\* A crash while flushPending is what RootDurable is about.
Restart ==
    /\ Idle
    /\ cur' = IF journal = <<>> THEN 0 ELSE Last(journal)[2]
    /\ objClean' = [a \in Addrs |-> NoObj] /\ objDirty' = [a \in Addrs |-> NoObj]
    /\ stateClean' = [ak \in Addrs \X SKeys |-> NotCached]
    /\ deltas' = <<>>
    /\ UNCHANGED <<aroots, flushedN, journal, flushPending>>

\* The LruCache of obj_clean or state_clean drops an entry to stay within
\* its byte budget; which entry and when depends on entry sizes, so any
\* entry may be gone between two operations.
EvictObj(a) ==
    /\ Idle /\ objClean[a] # NoObj
    /\ objClean' = [objClean EXCEPT ![a] = NoObj]
    /\ UNCHANGED <<aroots, cur, flushedN, journal, objDirty, stateClean, deltas, flushPending>>

EvictState(ak) ==
    /\ Idle /\ stateClean[ak] # NotCached
    /\ stateClean' = [stateClean EXCEPT ![ak] = NotCached]
    /\ UNCHANGED <<aroots, cur, flushedN, journal, objClean, objDirty, deltas, flushPending>>

\* StateDB::open on a new directory.
Init ==
    /\ aroots = <<>> /\ cur = 0 /\ flushedN = 0 /\ journal = <<>>
    /\ objClean = [a \in Addrs |-> NoObj] /\ objDirty = [a \in Addrs |-> NoObj]
    /\ stateClean = [ak \in Addrs \X SKeys |-> NotCached]
    /\ deltas = <<>> /\ flushPending = FALSE

Next ==
    \/ \E a \in Addrs :
          \/ GetObj(a) \/ AddBalance(a) \/ SubBalance(a) \/ CreateAccount(a)
          \/ RemoveAccount(a) \/ EvictObj(a)
          \/ \E n \in Nonces : SetNonce(a, n)
          \/ \E k \in SKeys : GetState(a, k) \/ EvictState(<<a, k>>)
          \/ \E k \in SKeys, v \in Vals \cup {Empty} : SetState(a, k, v)
    \/ Snapshot \/ Finalise
    \/ \E sid \in 0..MaxSnaps - 1 : Revert(sid)
    \/ CommitWrite \/ CommitFlush
    \/ \E root \in {0} \cup {journal[i][2] : i \in DOMAIN journal} : OpenRoot(root)
    \/ \E i \in DOMAIN journal : OpenRootHash(i)
    \/ Restart

Spec == Init /\ [][Next]_vars

-----------------------------------------------------------------------------
(* Properties                                                              *)

TypeOK ==
    /\ aroots \in Seq([Addrs -> Accounts \cup {Missing}])
    /\ cur \in 0..Len(aroots) /\ flushedN \in 0..Len(aroots)
    /\ objClean \in [Addrs -> Objects \cup {NoObj}]
    /\ objDirty \in [Addrs -> Objects \cup {NoObj}]
    /\ stateClean \in [Addrs \X SKeys -> Vals \cup {Empty, NotCached}]
    /\ \A i \in DOMAIN deltas : deltas[i] \in [Addrs -> Objects \cup {NoRec, NoneObj}]

\* obj_clean caches the open root's accounts (get_obj, lines 252-271): an
\* entry equals what the account trie decodes to, and an address is never
\* in obj_clean and obj_dirty at once (ensure_dirty_obj pops obj_clean,
\* commit refills it, open_root clears it), whatever setters, reverts,
\* commits, reopenings and evictions came before.
ObjCleanCoherent ==
    \A a \in Addrs :
        objClean[a] # NoObj =>
            /\ objDirty[a] = NoObj
            /\ Committed[a] # Missing
            /\ objClean[a] = Decode(Committed[a])

\* Spec section 5: at every point where the process may die, the last
\* root-file record names a root whose nodes are already on disk
\* (commit, lines 488-489).
RootDurable ==
    journal # <<>> => Last(journal)[2] <= flushedN

====

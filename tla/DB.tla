--------------------------------- MODULE DB ---------------------------------
(***************************************************************************)
(* The DB facade of src/db.rs: the merkle, the value cache and the root    *)
(* journal, used by one thread.  Backend (merkle/backend.rs 3) has no Send *)
(* bound, so NodeStore, Merkle, DB and WriteBatch cannot leave the thread  *)
(* that opened the DB, and spec section 5 says there are no parallel       *)
(* writers.  Every call therefore runs to its end before the next; the     *)
(* mutexes are never contended and are not modelled.  Staging inserts on   *)
(* any number of WriteBatches changes nothing shared, so a batch is chosen *)
(* when its commit starts.  The only thing that cuts a call short is a     *)
(* crash, and WriteBatch::commit is split at the points where one changes  *)
(* what survives: after merkle.commit and after the node flush.            *)
(*                                                                         *)
(* The trie is abstracted to the key/value behaviour Merkle is shown to    *)
(* refine (KVStore, run merkle_refines_kv): a live map, and the published  *)
(* roots as a sequence of maps.  A root's CleanPtr is abstracted to its    *)
(* position in that sequence, which grows with the node file's tail; 0 is *)
(* the empty trie.                                                         *)
(***************************************************************************)
EXTENDS Naturals, Sequences, SequencesExt, FiniteSets

CONSTANTS
    Keys,       \* keys of the store
    Vals,       \* values a batch writes
    Missing,    \* find returned None
    NotCached,  \* a key with no value-cache entry
    MaxCommits  \* bound on the batches committed (root file records)

ASSUME MaxCommits \in Nat

VARIABLES
    pubs,       \* pubs[r]: the contents of published root r (node file)
    flushed,    \* roots 1..flushed are on disk (the node file's durable tail)
    journal,    \* the root file: one CleanPtr per record, durable once flushed
    live,       \* the merkle's live view
    mroot,      \* Merkle::root_cptr
    cache,      \* db_value_cache: key -> cached find result
    pc,         \* "idle", or the step a WriteBatch::commit is at
    wroot       \* the root the commit under way got from merkle.commit

vars == <<pubs, flushed, journal, live, mroot, cache, pc, wroot>>

EmptyMap == [k \in Keys |-> Missing]
Content(r) == IF r = 0 THEN EmptyMap ELSE pubs[r]

\* The batches a writer can stage: WriteBatch::insert of some keys, or
\* none at all.
Batches == UNION {[D -> Vals] : D \in SUBSET Keys}

\* DB::open reads the last 8 bytes of the root file, or 0 when it is empty.
Recovered == IF journal = <<>> THEN 0 ELSE Last(journal)

-----------------------------------------------------------------------------
(* Calls that run between commits.                                         *)

\* DB::get with the value cache on (the default db_value_cache_size is
\* 16 MiB): a hit returns the cached result, a miss finds the key in the
\* merkle and caches what it found.
Get(k) ==
    /\ pc = "idle"
    /\ cache' = IF cache[k] # NotCached THEN cache ELSE [cache EXCEPT ![k] = live[k]]
    /\ UNCHANGED <<pubs, flushed, journal, live, mroot, pc, wroot>>

\* open_root without the cache clear of line 90.
OpenRootNoClear(r) ==
    /\ pc = "idle"
    /\ r # mroot
    /\ mroot' = r
    /\ live' = Content(r)
    /\ UNCHANGED <<pubs, flushed, journal, cache, pc, wroot>>

\* DB::open_root: return when the merkle is already at that root (line 84);
\* else replace the merkle by Merkle::new at the root (87) and clear the
\* value cache (90).
OpenRootReplace(r) ==
    /\ pc = "idle"
    /\ r # mroot
    /\ mroot' = r
    /\ live' = Content(r)
    /\ cache' = [k \in Keys |-> NotCached]
    /\ UNCHANGED <<pubs, flushed, journal, pc, wroot>>

\* DB::flush (also run by Drop): the root file, then the node store.
\* The root file has nothing buffered: every append is flushed at once.
Flush ==
    /\ pc = "idle"
    /\ flushed' = Len(pubs)
    /\ UNCHANGED <<pubs, journal, live, mroot, cache, pc, wroot>>

-----------------------------------------------------------------------------
(* WriteBatch::commit.                                                     *)

\* The root offset taken one record too far: the node file's tail after
\* the append.
MerkleCommitReturnsTail(b) ==
    /\ pc = "idle"
    /\ Len(journal) < MaxCommits /\ Len(pubs) < MaxCommits
    /\ live' = [k \in Keys |-> IF k \in DOMAIN b THEN b[k] ELSE live[k]]
    /\ cache' = [k \in Keys |-> IF k \in DOMAIN b THEN b[k] ELSE cache[k]]
    /\ pubs' = Append(pubs, live')
    /\ mroot' = Len(pubs') + 1
    /\ wroot' = Len(pubs') + 1
    /\ pc' = "flush_nodes"
    /\ UNCHANGED <<flushed, journal>>

\* Lines 160-174: insert every staged pair into the merkle and the cache,
\* then merkle.commit appends the dirty nodes and returns the new root (any
\* insert dirtied the root); with nothing inserted it returns root_cptr
\* unchanged (merkle.rs 540-543).  Bound: fewer than MaxCommits roots in
\* the node file and in the root file.
MerkleCommit(b) ==
    /\ pc = "idle"
    /\ Len(journal) < MaxCommits /\ Len(pubs) < MaxCommits
    /\ live' = [k \in Keys |-> IF k \in DOMAIN b THEN b[k] ELSE live[k]]
    /\ cache' = [k \in Keys |-> IF k \in DOMAIN b THEN b[k] ELSE cache[k]]
    /\ IF DOMAIN b = {}
       THEN /\ wroot' = mroot
            /\ UNCHANGED <<pubs, mroot>>
       ELSE /\ pubs' = Append(pubs, live')
            /\ mroot' = Len(pubs')
            /\ wroot' = Len(pubs')
    /\ pc' = "flush_nodes"
    /\ UNCHANGED <<flushed, journal>>

\* The node store flush left out.
FlushNodesSkipped ==
    /\ pc = "flush_nodes"
    /\ pc' = "journal"
    /\ UNCHANGED <<pubs, flushed, journal, live, mroot, cache, wroot>>

\* Line 177: flush the node store before publishing the root.
FlushNodes ==
    /\ pc = "flush_nodes"
    /\ flushed' = Len(pubs)
    /\ pc' = "journal"
    /\ UNCHANGED <<pubs, journal, live, mroot, cache, wroot>>

\* Lines 179-185: append the root at the root file's tail, flush it, and
\* return the root.
AppendRoot ==
    /\ pc = "journal"
    /\ journal' = Append(journal, wroot)
    /\ pc' = "idle"
    /\ UNCHANGED <<pubs, flushed, live, mroot, cache, wroot>>

-----------------------------------------------------------------------------
(* A crash of the process, then DB::open on the same path.                 *)

\* What was not flushed is lost: the node file keeps its durable prefix.
\* DB::open reads the last journal record and builds Merkle::new over it;
\* a root past the surviving tail decodes as garbage, read here as empty.
Restart ==
    /\ pubs' = SubSeq(pubs, 1, flushed)
    /\ mroot' = Recovered
    /\ live' = IF Recovered <= flushed THEN Content(Recovered) ELSE EmptyMap
    /\ cache' = [k \in Keys |-> NotCached]
    /\ pc' = "idle"
    /\ UNCHANGED <<flushed, journal, wroot>>

Init ==
    /\ pubs = <<>>
    /\ flushed = 0
    /\ journal = <<>>
    /\ live = EmptyMap
    /\ mroot = 0
    /\ cache = [k \in Keys |-> NotCached]
    /\ pc = "idle"
    /\ wroot = 0

Next ==
    \/ \E k \in Keys : Get(k)
    \/ \E r \in 0..Len(pubs) : OpenRootReplace(r)
    \/ Flush
    \/ \E b \in Batches : MerkleCommit(b)
    \/ FlushNodes
    \/ AppendRoot
    \/ Restart

Spec == Init /\ [][Next]_vars

-----------------------------------------------------------------------------
(* Properties                                                              *)

TypeOK ==
    /\ pubs \in Seq([Keys -> Vals \cup {Missing}])
    /\ flushed \in 0..Len(pubs)
    /\ live \in [Keys -> Vals \cup {Missing}]
    /\ mroot \in 0..Len(pubs)
    /\ cache \in [Keys -> Vals \cup {Missing, NotCached}]
    /\ pc \in {"idle", "flush_nodes", "journal"}
    /\ wroot \in 0..MaxCommits
    /\ ToSet(journal) \subseteq 0..MaxCommits

\* Value cache coherence (spec P6): every cached find result equals what
\* find on the merkle returns now, across gets that fill the cache
\* (db.rs 100-106), commits that write it with the batch (164-167),
\* open_root, which must clear it when it replaces the merkle (87-90), and
\* restarts.
CacheCoherent == \A k \in Keys : cache[k] \in {NotCached, live[k]}

\* Crash safety of the root journal (spec section 5): at every moment the
\* root the last journal record names is on disk, so DB::open after a crash
\* finds its nodes.  WriteBatch::commit flushes the node store (db.rs 177)
\* before it appends and flushes the root (181-182).
RootDurable == Recovered <= flushed

====

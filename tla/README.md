# TLA+ models of ficusdb

ficusdb (`src/ficusdb/src`) is a versioned key/value store laid out as an
Ethereum Merkle Patricia Trie. This directory holds the TLA+ modules that model
it, the TLC configurations that check them, and `PROJECT.json`. That file lists
every component, run, mutant, hazard and the source lines each definition
translates.

## The system and how its parts interact

| Part | Source | State | Operations |
|---|---|---|---|
| Page-cached file | `backend/file.rs` | `file_tail`, `buff_tail`, clean page LRU, dirty page map, the OS file | `read`, `write`, `flush` (write_at every dirty page, then `set_len`), `tail` |
| AHA tiered store | `merkle/aha.rs` | tier sizes, one file per tier, `recycled` and `pending_recycle` lists | `write_aha`, `read_aha`, `commit`, `flush` |
| Node codec | `merkle/node.rs`, `merkle/utils.rs` | none | storage encoding, canonical RLP, reference item, `to_path`, `to_compact` |
| Node store | `merkle/store.rs` | dirty arena `Vec<Option<Node>>`, clean LRU, node file, optional AHA | `add_node`, `get_clean`, `cow_clean`, arena ops, `load_children_hash`, `load_aha`, `write_aha`, `commit`, `flush` |
| Trie engine | `merkle/merkle.rs` | `root_cptr`, `root_dptr`, plus the shared store | `find`, `insert`, `delete` / `delete_rec`, `commit` / `commit_order`, `hash` |
| DB facade and root journal | `db.rs` | merkle, root file, value cache | `open`, `open_root`, `get`, `WriteBatch::insert`, `WriteBatch::commit`, `flush` |
| Account layer | `statedb.rs` | object caches, storage cache, snapshot deltas, root-hash journal with an LRU | account setters and getters, `set_state`, `get_state`, `create_account`, `remove_account`, `snapshot`, `revert`, `commit`, `open_root_hash` |

How they interact:
- A write batch inserts into the trie's dirty arena through copy-on-write copies of committed nodes.
- Commit writes the dirty subgraph children-first to the node file, which is append-only, and publishes the root's offset (CleanPtr 0 is the empty trie).
- `DB` then flushes the node file and appends the root to the journal.
- `StateDB` runs one storage trie per account over the same node store before it commits the account trie.
- Every public operation holds the store's mutex, but nothing runs concurrently. `Backend` has no `Send` bound (`merkle/backend.rs:3`), so `NodeStore`, `Merkle`, `DB` and `WriteBatch` cannot leave the thread that opened the database, and spec section 5 says there are no parallel writers. The mutexes are never contended.

## Modules

- **`Merkle`**: the trie engine over the node store with AHA disabled.
  - State:
    - `nodes`: the node file, with `nodes[c+1]` the record at CleanPtr `c`. Byte offsets are abstracted to record positions, so the first node written is at 0 as in the code.
    - `dirty`: the arena.
    - `rootCptr`, `rootDptr`.
    - `published`: the root identifiers commits returned.
  - Actions:
    - `Insert` translates `Merkle::insert`. The recursive `InsertLoop` is one loop iteration per call, including the split with its exact append order. It returns `Done(d)` when the loop breaks, or a panic at the `assert!` of `merkle.rs:199`.
    - `Delete` is `Merkle::delete` together with `DeleteRec`/`ShortResult`/`MergeShort` (`delete_rec`).
    - `Commit` is `Merkle::commit`: `CommitOrder` for `commit_order`, then `CommitNodes` for the pop loop with its `ptr_map`, `load_children_hash`, `calc_hash` and `add_node`, then `store.commit()`.
    - `OpenRoot` is `DB::open_root`: `Merkle::new` over a published root, with the `db.rs:84` early return.
  - A panic is a state: `panicked` becomes true and `Next` has no further step, since the process is gone. `InsertCompletes` says it never happens. This is why the Merkle configurations say `CHECK_DEADLOCK FALSE`: the post-panic state is the only one without a successor. The `unwrap()`s of `commit_order` and `commit` are covered by `DirtyTreeOK` instead.
  - Hashing is an injective tuple encoding. Raw RLP is `<<"B", refs>>` / `<<"S", ToCompact(path), ref>>`, a reference item is `Ref(raw)`, and the root hash is `Keccak(raw)`. Equal hashes therefore mean equal canonical tries.
  - `ToCompact` and `FromNibbles` compute `utils::to_compact` and `from_nibbles` byte by byte. The reference side uses the test's own `Nibbles::encode_compact` (`EncodeCompact`) on the path without its terminator. `HashMatchesReference` therefore also checks the hex-prefix encoding, for odd and even leaves and extensions and for the empty leaf path. `hex_to_compact`, `compact_to_hex` and `from_compact` are called nowhere.
  - The clean LRU is left out: it caches decoded copies of file records and changes no result.
  - `RefRaw`/`RefRootHash` define the canonical MPT of a key/value map: the trie `tests/eth_merkle.rs` builds, stated declaratively.
- **`KVStore`**: the abstract specification of what the trie promises.
  - A live map that reads see, changed one key per write.
  - `Publish`, which makes the live map a new immutable version.
  - `Reopen` of any published version.
- **`MCMerkle`**: the model-checking instance. It defines the keys (`MCKeys`, `MCKeysRefine`).
- **`AHA`**: the Aggregated Hash Array (`merkle/aha.rs`) as `NodeStore` drives it (`load_aha`, `write_aha`, `commit` in `store.rs`).
  - The trie is abstracted to what the AHA sees: a set of branch identities, each with a stored version `(aha_len, aha_ptr, items)`, where `items` are its children's reference items.
  - State:
    - `files[i]`: the records of tier `i`. A record is its items padded with `EmptyItem` to the tier capacity, and a pointer is a record index, since byte offsets are multiples of the stride.
    - `recycled`, `pending`: the code's `recycled` and `pending_recycle` stacks.
    - `view`: the versions in the open root.
    - `staged`: the versions the current batch wrote.
    - `roots`: every published view (`TypeOK` keeps the open one among them).
  - Actions:
    - `Write(b, items)` is one rewrite of a branch in a batch: `cow_clean`'s `load_aha` of the stored version (its panic in `read_aha` included), then `NodeStore::write_aha`, which runs `AggregatedHashArray::write_aha` (`WriteAha`, `NewCptr`, `Record`, `WriteAt`).
    - `Commit` is `Merkle::commit` with `aha.commit`.
    - `CommitNothing` is its early return when nothing is dirty.
  - The writer only extends its latest root; `open_root` of an older root between batches is left out (see the hazards below).
- **`DB`**: the facade of `db.rs`, used by one thread (see above). Every call runs to its end before the next, so the mutexes are not variables. Staging inserts into a `WriteBatch` changes nothing shared, so a batch is chosen when its commit starts.
  - The trie is abstracted to the behaviour `Merkle` is checked to refine (`merkle_refines_kv`): a live map `live`, and `pubs`, the published roots' contents. A root's `CleanPtr` is its position in `pubs`, which follows the node file's tail, and 0 is the empty trie.
  - State:
    - `flushed`: the node file's durable prefix.
    - `journal`: the root file.
    - `mroot`: the merkle's `root_cptr`.
    - `cache`: the value cache.
    - `pc`, `wroot`: the step a `WriteBatch::commit` has reached, and the root `merkle.commit` returned to it.
  - Actions: `Get` (`DB::get`), `OpenRootReplace` (`DB::open_root` with its early return and cache clear), `Flush` (`DB::flush` and `Drop`).
  - `WriteBatch::commit` is split only where a crash changes what survives: `MerkleCommit` (the inserts into merkle and cache, then `merkle.commit`), `FlushNodes`, `AppendRoot`.
  - `Restart` is a crash followed by `DB::open`. The node file keeps its flushed prefix, and the last journal record is reopened.
  - `truncate` is not a separate action. `std::fs::remove_file` on the database directory fails and the error is discarded (`db.rs:37`, and likewise `statedb.rs:188`). A truncating open therefore reopens the existing data, although spec section 6 says it removes the directory's files.
- **`MCDB`**: keys `k1`, `k2` with symmetry, values `v1`, `v2`, three commits.
- **`PageFile`**: `PageCachedFile` (`backend/file.rs`), under every node, AHA tier and journal file.
  - Bytes are a few small values, 0 included. The byte at address `a` is element `a + 1` of a sequence. `PAGE_SIZE` is the constant `PageSize`, because the module that declares it is not in the source tree.
  - State:
    - `disk`: the OS file's bytes; its length is the file's length.
    - `fileTail`, `buffTail`.
    - `clean`: the LRU as a sequence of `<<pid, page>>`, least recent first.
    - `dirty`: pid to page.
    - `flushing`: a flush is between its first `write_at` and its `set_len`.
    - `logical`, `flushedImg`: history variables. `logical` holds the bytes reads must return; `flushedImg` is `logical` as the last completed flush left it.
  - Actions:
    - `Read` is `read` with `get_page` (`FillPages`, `LoadPage`); only the LRU changes.
    - `Write` is `write` with `ensure_dirty_page` (`DirtyBase`).
    - `flush` is split into `FlushBegin`, one `FlushPage(p)` per `write_at` (the `HashMap` drain order is arbitrary), and `SetLen` (`set_len` and `file_tail = buff_tail`).
    - `CrashReopen` is a process crash followed by `PageCachedFile::new`. Both tails become the OS file's length and the caches are empty.
  - A process crash keeps what the OS accepted. Power loss is not modelled; the code never calls fsync.
- **`MCPageFile`**: instantiates `PageFile`.
- **`StateDB`**: the account layer of `statedb.rs`.
  - Both tries are abstracted to their contents, the behaviour `Merkle` is checked to refine. A storage root is named by its contents, since a published root never changes. An account root is its position in `aroots` (0 is the empty trie), because durability is about which roots have their nodes on disk. A root hash is what it hashes: balance, nonce and storage root hash, but not the `rootptr` kept in the value's `extra`.
  - State:
    - `aroots`, `cur`: the published account tries and the merkle's `root_cptr`.
    - `flushedN`: the node file's durable prefix, in account roots.
    - `journal`: the root file's 40-byte records, `<<hash, CleanPtr>>`.
    - `objClean`, `objDirty`, `stateClean`, `deltas`: the four caches. An object carries balance, nonce, `rootptr` (`root`), `roothash` (`rhash`), `state_dirty` (`sdirty`) and `deleted`.
    - `flushPending`: `commit` has appended its record and not yet flushed the node store.
  - Actions:
    - `GetObj` covers the getters. `AddBalance`, `SubBalance`, `SetNonce`, `SetState` and `CreateAccount` go through `EnsureDirty` (`ensure_dirty_obj`, which records the prior object in the last delta).
    - `GetState`, `RemoveAccount`, `Snapshot`, `Revert`, `Finalise`, `OpenRoot`, `OpenRootHash`.
    - `commit` is split in two. `CommitWrite` covers lines 421-488: the storage subtries (`Flushed`, `StateAfter`), the account trie (`TrieAfter`), `merkle.commit` (`NewRoot`) and `add_root_ptr`. `CommitFlush` is line 489.
    - `Restart` is `Drop` or a crash followed by `StateDB::open`: the last journal record is reopened and every cache is empty.
    - `EvictObj` and `EvictState` drop any entry of the two `LruCache`s. Which entry a byte-budgeted LRU drops depends on sizes, so any entry may go.
  - `BalanceRead`, `NonceRead` and `StateRead` are what `get_balance`, `get_nonce` and `get_state` return in the current state.
  - `set_codehash` has `set_nonce`'s control and is left out. `OpenRootHash` finds any record with the hash. A miss of `get_root_ptr` changes nothing in this model, so it is a stuttering step; `StateRoots` models when one happens.
- **`MCStateDB`**: addresses `a1`, `a2` with symmetry, one storage slot `s1`, one value `x1`.
- **`AccountState`**: the abstract specification of what the account layer promises its callers, the Ethereum world-state semantics it mirrors (spec section 1; the workload in `tests/statedb_tests.rs` is geth's).
  - State: `view`, the account each address should read as (balance, nonce, storage, and whether it is removed at the next commit); `snaps`, the view at each snapshot.
  - Actions: `Credit`, `Debit`, `SetNonceTo`, `Store`, `Create` (a new account with empty storage, as `Account::new` and the cleared `state_dirty` say), `Remove` (balance 0, gone at commit), `Snap`, `RevertTo`, `Forget`, `Publish`, `Open`.
- **`StateDBReads`**: `StateDB` composed with `AccountState`. Each `StateDB` action is paired with the abstract step it stands for; getters, evictions and the node flush pair with no step. `view` and `snaps` are history variables that no `StateDB` guard reads. Opening a root sets the view to what that root's trie holds (`Contents`).
- **`MCStateDBReads`**: addresses `a1`, `a2`, one slot, one value, no symmetry.
- **`StateRoots`**: `StateDBRoots` (`statedb.rs:114-170`), the root-hash index over the root file, as `open_root_hash` and `commit` use it.
  - State:
    - `recs`: the root file's 40-byte records `<<offset, hash, CleanPtr>>`, each at the byte offset of the file's tail when it was written. `add_root_ptr` flushes after every append, so all of them are on disk.
    - `flen`: the file's length in bytes. Bytes no record covers are zeros.
    - `lru`: the `roots` `LruCache` as a sequence, least recent first. Every entry has the same byte size, so a byte budget is a count, `RootCap`; 0 is a budget below one entry, where every insert is refused.
    - `cursor`: `cur_cptr`, a byte offset.
    - `openHash`: the hash of the root the `StateDB` has open, which `open_root_hash`'s early return compares with.
  - Actions:
    - `AddRootPtr(h, c)` is `add_root_ptr` from `commit`. It appends, inserts into the LRU and opens the new root. A CleanPtr keeps the hash it was first published with.
    - `OpenRootHash(h)` is `open_root_hash`: the early return, then `get_root_ptr` (`GetRootPtrResult`), whose `while` loop is the recursive `ScanBack`, then the cursor reset at 0 and the `roots.get`.
    - `AddRootPtrCrash(h, c)` is `add_root_ptr` whose flush is cut by a crash after `write_at` and before `set_len` (`backend/file.rs:144-151`, as `PageFile` models it). The record is on disk, the file is rounded up to a whole page (`PageRound`), and the process restarts.
    - `Restart` is `StateDB::open` through `StateDBRoots::new` (`Reopen`): the last 40 bytes are read as the latest record (`ReadRec`), which is the only cached entry, and the cursor sits on it. A zero CleanPtr opens the empty root.
  - `ReadRec` reads 40 bytes at an offset: a record written there; zeros (`ZeroHash`, CleanPtr 0) where no record lies; else a torn read, a hash no root has. A run of reads that all return zeros inserts the same entry again and again. After the first insert that changes nothing, so `ScanBack` takes the whole run in one step (`ZeroRun`). This keeps the recursion shallow across a page of padding. `ScanBack` stops with a panic when the cursor is between 0 and 40. There `cur_cptr -= 40` underflows: a debug build panics, and in a release build the wrapped read returns no bytes and `buf[..32]` panics. A panic in `OpenRootHash` ends the process, which restarts.
- **`MCStateRoots`**: hashes `h1`, `h2` and CleanPtrs `c1`, `c2` with symmetry; `RecSize = 40` and `PageSize = 4096`, as in the code and spec 4.1.
- **`MCAHA`**: tiers `<<2, 3>>`, two items and two branches, with symmetry over both. Nothing in the model names a particular item or branch.

## Runs

| Run | Config | Checks | Shows |
|---|---|---|---|
| `merkle_hash` | `MCMerkle.cfg` | `TypeOK`, `HashMatchesReference`, `DirtyTreeOK` | Until an insert panics (see `merkle_prefix_update`), after every step `hash()` of the committed root equals the canonical MPT's root hash of the committed contents (spec P1, P2, P10). The reachable dirty subgraph is a tree, which is what `commit_order`'s and `commit`'s unwraps rely on. `TypeOK` also checks that every stored child pointer names an earlier record of the node file, and every dirty child an arena slot or a record. |
| `merkle_refines_kv` | `MCMerkleRefine.cfg` | `KVSpec` (the `KVStore` spec through `INSTANCE ... WITH`) | `find` on the live view, on the committed root and on every published root behaves as the abstract store: each insert or delete changes exactly one key, and no later batch, commit or reopen changes a published version (P5). |
| `aha_linear` | `MCAHA.cfg` | `TypeOK`, `AHAIntact`, `RecycleSafe` | With a writer that never reopens an older root: every AHA record of the open root or of the current batch reads back its branch's items (P7). No slot is pooled twice or while a version still uses it, and in particular a first write never recycles slot 0 (P8). |
| `aha_overflow` | `MCAHAOverflow.cfg` | `AhaLenStored` (violation expected) | A branch with more children than the biggest tier is stored with `aha_len` equal to its child count and pointer 0 (`store.rs:259` sets it before `write_aha` returns 0). Spec 4.2 says it stays `aha_len = 0`. In the code, the next CoW of that branch panics in `read_aha`. |
| `merkle_prefix_update` | `MCMerklePanic.cfg` | `InsertCompletes` (violation expected) | Insert `<<0>>`, commit, insert `<<0,0>>`, insert `<<0>>`: the last insert meets the short node `[0]` above the branch whose value slot holds `<<0>>`, with nothing after it but the terminator, and panics at the `assert!(i + 1 < path.len())` of `merkle.rs:199`. Spec 4.5 says keys are arbitrary bytes, and 4.5.2 says such a short is descended. |
| `db_cache_and_journal` | `MCDB.cfg` | `TypeOK`, `CacheCoherent`, `RootDurable` | Over gets, reopens of any published root, flushes and up to three batch commits, with a crash possible after `merkle.commit` or after the node flush: every cached value equals the merkle's (P6), and the root the journal names is always on disk, because the node flush precedes the root append. |
| `pagefile` | `MCPageFile.cfg` | `TypeOK`, `ViewIsLogical`, `FlushedSurvives`, `FlushCompletes` (under `FairSpec`) | Over reads, one- and two-byte writes (in-page, page-crossing, past the tail), page-by-page flushes and crashes: every byte below `buff_tail` reads as the last write left it, whether it comes from a dirty page, the LRU or the file (P9). A crash keeps every byte of the last completed flush, unless the interrupted flush had already replaced it. Every flush ends, by `set_len` or a crash, and then the OS file holds exactly the written bytes. |
| `pagefile_tail` | `MCPageFileTail.cfg` | `TailSurvives` (violation expected) | Write one byte, flush its page with `write_at`, then crash before `set_len`: the file is a whole page long. The comment at `file.rs:150` says flush keeps the length equal to the logical tail. After a reopen `file_tail` is page-rounded, so `DB::open` reads the root journal's last 8 bytes as zeros and opens the empty root. |
| `statedb` | `MCStateDB.cfg` | `TypeOK`, `ObjCleanCoherent` | Over balance changes, creations and removals of two accounts, a snapshot level with reverts and `finalise`, a commit, reopenings by pointer and by hash, restarts and evictions: an `obj_clean` entry always equals what the open root's trie decodes to, and is never also in `obj_dirty`. |
| `statedb_reads` | `MCStateDBReads.cfg` | `ReadYourWrites` (violation expected) | The getters should return the state the caller made (`AccountState`). After one `set_state(a, k, v)`, `get_state(a, k)` still returns the old value, because it never looks at `state_dirty` (`statedb.rs:362`). The same property fails four more ways. Each was confirmed by TLC under the run's constants, with the property narrowed to exclude the cases before it. `create_account` keeps the old storage (`:378`). A committed removal leaves the slots in `state_clean` (`:436` removes only written ones). `remove_account` of an uncached account does nothing (`:383`). And a `revert` across a removal does not undo it (`:384` records no delta). |
| `statedb_root_order` | `MCStateDBDurable.cfg` | `RootDurable` (violation expected) | `commit` writes and flushes the root record before the node store (`statedb.rs:488-489`), against spec section 5. A crash in between leaves the last record naming unwritten nodes. |
| `stateroots_lookup` | `MCStateRootsLookup.cfg` | `LookupComplete` (violation expected) | The shortest counterexample has one step: the first commit's root-file flush is cut by a crash, so the file is 4096 bytes long. `StateDB::open` reads zeros as the latest record and opens the empty root. `get_root_ptr` of the recorded root then scans 4056, 4016, ... 16 and panics when `cur_cptr -= 40` underflows (`statedb.rs:146`), and every later open is misaligned the same way. With crashes excluded the property fails a second way. Open an empty database and commit twice, with the second entry evicting the first from an LRU of one. `open_root_hash` of the first root's hash then does nothing. `new` put the cursor at 0, so `get_root_ptr` scans nothing and answers from the LRU. It has reset the cursor to the tail by then, so a second identical call succeeds. Spec 4.6 says the records exist to open a historical version by hash. |

Bounds and why they are enough:
- **Keys** (`MCKeys`):
  - `<<0>>` and `<<1>>` split at depth 1 under an extension.
  - `<<0,0>>` has `<<0>>` as a prefix, so `<<0>>` lands in the branch's value slot 16, under a short `[0]`; writing `<<0>>` again then reaches the panic.
  - `<<0,16>>` gives that branch a third entry, so deleting one of the three leaves two.
  - Together they reach every insert case: empty slot, branch descent, terminator slot, exact short, short descent, and split with and without a kept short and a prefix short. They reach every delete case: value, short mismatch and merge, value-slot clear, and a branch left with 0, 1 or 2 entries, with and without a short child. The 2-entry case is reached in five steps: insert `<<0>>`, `<<0,0>>`, `<<0,16>>`, commit, delete one.
- **Values:** one value. Overwrites with a second value change the hash, but a second value made the run take more than five minutes with these keys, and one value still reaches every control path of insert and delete.
- **Batch size:** `MaxDirty = 5` bounds the arena of one batch and `MaxNodes = 6` bounds the node file (a three-entry branch with its short and values needs six records). Operations are attempted only while both have room; commit is always enabled. Reopening older roots after several commits is reached.
- **Refinement run:** keys `<<0>>`, `<<1>>`, `<<0,0>>`, one value and `MaxNodes = 4`. TLC's evaluation of the primed refinement mapping is costly.
- **DB:**
  - `MaxCommits = 3` batches (empty ones included): a value cached under one root, a commit, and a reopen of an older root, with a crash possible between any two commit steps.
  - Two keys and two values make a stale cache entry read differently from the merkle. The keys are symmetric.
- **PageFile:** `PageSize = 2`, `MaxLen = 4` (two pages), `CleanCap = 1`, and byte values `{1, 2}`.
  - Two-byte writes cross a page boundary, and a write past the tail leaves a zero gap.
  - One LRU slot makes every second page evict the first, so pages are reloaded from the file.
  - Two pages let a crash fall between two `write_at` calls.
- **StateDB:** two addresses, one slot and one value, with `Nonces = {0}` (a nonce has the control of a balance).
  - `statedb` has balances up to 1, one snapshot level and one commit. Storage writes carry the empty value only (`Vals = {}`), so storage contents never tell two states apart. A nonempty value, or a second commit, each takes the run past five minutes. One commit still reaches every case of `ObjCleanCoherent`: a reopening of root 0 after it, and an `obj_clean` filled by the commit and then edited, reverted, evicted or removed.
  - The two violation runs use `Vals = {x1}` and two commits. `statedb_root_order` has no snapshots. `statedb_reads` has one snapshot level, so that a revert across a removal is reachable, and no symmetry.
- **StateRoots:** `RootCap = 1`, `MaxRecs = 3`, and the code's record and page sizes (4096 is not a multiple of 40, which is the point). With `RootCap = 4` and crashes excluded, `LookupComplete` holds (59 states), so each of the two failures needs its own cause. With one entry, the second commit evicts the first root, as about 200 commits after open do with the default `aha_cache_size` (16 MiB / 1024 bytes). With `RootCap = 0` the same lookup fails, and every other lookup fails too.
- **AHA:**
  - Two tiers make the "old slot in one tier, new slot in another" case happen, and two items make an overwritten record read differently.
  - `MaxSlots = 2` records per tier and `MaxRoots = 4` published roots allow a slot to be freed, pooled by a commit and reused two batches later.
  - The overflow run raises `MaxArr` to 4, one past the last tier.

Fairness is assumed in one place. `PageFile.FairSpec` makes `FlushPage` and `SetLen` weakly fair. `flush` is one call on the thread that holds `&mut self`, and the model splits it only so that a crash can fall between its `write_at` calls. Once it has begun, `Read` and `Write` are disabled, and the code keeps going until it returns. `CrashReopen` is not fair: a process need not die. `FlushCompletes` (`flushing ~> (~flushing /\ disk = logical)`) is checked under it.

Every other operation is a single atomic action, or, in `DB`, a call on the one thread that the model splits only at crash points, so nothing else has to happen eventually.

Each property has a mutant in `PROJECT.json`: a plausible bug in the mapped code that TLC finds.
- Stores nodes without stripping child references: breaks `TypeOK`.
- Never merges shorts in delete: breaks `HashMatchesReference`.
- Keeps a short whose child was deleted: breaks `DirtyTreeOK`, and would panic in `commit_order`.
- Starts a clean tree's first write from an empty node instead of a CoW copy: breaks `KVSpec`.
- `write_aha` recycles the old pointer even when `old_len = 0`: breaks `RecycleSafe` and `TypeOK`.
- `aha.commit` leaves `pending_recycle` uncleared: breaks `AHAIntact`.
- `merkle.commit` returns the node file's tail instead of the root's offset: breaks `TypeOK`.
- `open_root` does not clear the cache: breaks `CacheCoherent`.
- The node flush before the root append is dropped: breaks `RootDurable`.

- `ensure_dirty_page` starts a new dirty page from zeros instead of its current contents: breaks `ViewIsLogical`.
- `write` sets `buff_tail` to the write's end even when that is below it: breaks `TypeOK` (`file_tail <= buff_tail`).
- `set_len` uses the old `file_tail`: breaks `FlushedSurvives`.
- `flush` iterates the dirty map without draining it, so `set_len` is never reached: breaks `FlushCompletes`.
- `to_compact` shifts the leaf flag by 0 instead of 1: breaks `HashMatchesReference`.

- `sub_balance` without its `amount <= balance` check: breaks `TypeOK` in `statedb`.
- `open_root` that keeps `obj_clean`: breaks `ObjCleanCoherent`.
- `ensure_dirty_obj` that copies an object to `obj_dirty` without popping `obj_clean`: also breaks `ObjCleanCoherent`.

Found while modelling, and not checked by a run:
- **`open_root` of an older root in `AHA`.** The next batch recycles a slot that the older root's branch still points at (`aha.rs:100`), and a later write overwrites it. `AHAIntact` and `RecycleSafe` both fail then, but `load_aha`'s hash validation (`store.rs:223`) falls back to `load_children_hash`, so reads stay right and only the cost grows. The writer of the `AHA` runs therefore extends only its latest root.
- **The account layer's latest root after a crash.** The same crash that misaligns the cursor makes `StateDBRoots::new` read zero padding as the latest record (`statedb.rs:126`), so `StateDB::open` opens the empty trie although every record is on disk. The `stateroots_lookup` trace shows it, but no property states which root a reopen must open.

`PROJECT.json` lists each of these as a hazard.

Not modelled in `AHA`:
- A batch that deletes a branch and recreates it fresh leaks the old slot (`aha_len = 0` recycles nothing). This is a space leak only.
- `recycled` lives in memory, so a process restart forgets the pool. That is also a leak and never a reuse.

## Plan: what is not modelled yet, in order

1. **Node-file records**: `add_node`'s `u16` length prefix and `get_node` (`store.rs:44-70`) with sized values, to show a node over 65535 bytes decoding garbage after eviction.
2. **`MerkleAHA`**: `load_aha` validation composed with the trie. Shows that historical roots stay correct although slots are recycled in place.
3. **Shared node store**: storage subtries committing through the same `NodeStore` as the account trie, with `aha.commit` running before the account root is published (`statedb.rs:447`).

Statistics (`stats.rs`, `merkle/stats.rs`) are timers and counters only and are not modelled.

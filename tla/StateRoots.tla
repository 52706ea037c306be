----------------------------- MODULE StateRoots -----------------------------
(***************************************************************************)
(* The account layer's root-hash index (StateDBRoots, src/statedb.rs       *)
(* lines 114-170) as StateDB::open_root_hash uses it (lines 243-250).      *)
(*                                                                         *)
(* The root file holds 40-byte records <<root hash, CleanPtr>>, each at    *)
(* the byte offset the file's tail had when add_root_ptr wrote it, and     *)
(* cur_cptr is a byte offset.  Bytes no record covers are zeros.  The      *)
(* LruCache is bounded by bytes, and every entry (a 32-byte key and a u64) *)
(* has the same size, so it holds at most RootCap entries; RootCap = 0 is  *)
(* a budget too small for one entry, where every insert fails.             *)
(* add_root_ptr flushes the file, so every record is on disk; a crash      *)
(* inside that flush, after its write_at and before its set_len            *)
(* (backend/file.rs lines 144-151, the PageFile model), leaves the file    *)
(* rounded up to a whole page.                                             *)
(***************************************************************************)
EXTENDS Naturals, Sequences, SequencesExt

CONSTANTS
    Hashes,     \* root hashes of nonempty account tries
    Cptrs,      \* CleanPtrs of published roots
    EmptyHash,  \* keccak256(0x80): the hash of root 0
    ZeroHash,   \* 32 zero bytes read as a hash
    NullPtr,    \* CleanPtr 0: the empty trie
    RecSize,    \* 40, the bytes of a record
    PageSize,   \* PAGE_SIZE
    RootCap,    \* entries the roots LruCache holds
    MaxRecs,    \* bound on the records of the root file
    None,       \* get_root_ptr found nothing
    Panic       \* get_root_ptr panicked

VARIABLES
    recs,       \* root_file: <<offset, hash, cptr>> records, oldest first
    flen,       \* root_file.tail(): its length in bytes
    lru,        \* roots: <<key, cptr>> entries, least recent first
    cursor,     \* cur_cptr
    openHash    \* the hash of the root the StateDB has open

vars == <<recs, flen, lru, cursor, openHash>>

\* LruCache::insert: replaces an entry of the key and makes it the most
\* recent, then evicts the least recent while over budget; an entry over
\* the whole budget is refused.
LruInsert(c, k, v) ==
    IF RootCap = 0 THEN c
    ELSE LET c1 == Append(SelectSeq(c, LAMBDA e : e[1] # k), <<k, v>>) IN
         IF Len(c1) > RootCap THEN Tail(c1) ELSE c1

LruHas(c, k) == \E i \in DOMAIN c : c[i][1] = k
LruVal(c, k) == c[CHOOSE i \in DOMAIN c : c[i][1] = k][2]
\* LruCache::get makes the entry the most recent.
LruTouch(c, k) == Append(SelectSeq(c, LAMBDA e : e[1] # k), <<k, LruVal(c, k)>>)

\* root_file.read(off, 40) split into hash and CleanPtr: a record written
\* at off; zeros where no record lies; else bytes of two records or of a
\* record and zeros, a hash no root has (named by its offset).
ReadRec(rs, off) ==
    IF \E i \in DOMAIN rs : rs[i][1] = off
    THEN LET r == rs[CHOOSE i \in DOMAIN rs : rs[i][1] = off] IN <<r[2], r[3]>>
    ELSE IF \A i \in DOMAIN rs : rs[i][1] + RecSize <= off \/ off + RecSize <= rs[i][1]
    THEN <<ZeroHash, NullPtr>>
    ELSE <<<<"torn", off>>, NullPtr>>

\* The while loop of get_root_ptr: step the cursor back 40 bytes, read
\* the record there, insert it, and stop after the record with hash h or
\* at offset 0.  A cursor below 40 and above 0 makes cur_cptr -= 40
\* underflow: a panic in a debug build; in a release build a read past
\* the tail returns no bytes and buf[..32] panics.
\* A run of zero reads inserts the same entry again and again, which after
\* the first insert leaves the LRU as it is, so the run is taken in one
\* step: ZeroRun(cur) is how many reads below cur return zeros.
ZeroRun(cur) ==
    LET other == {j \in 1..cur \div RecSize : ReadRec(recs, cur - j * RecSize)[1] # ZeroHash}
    IN IF other = {} THEN cur \div RecSize ELSE Min(other) - 1

RECURSIVE ScanBack(_, _, _)
ScanBack(c, cur, h) ==
    IF cur = 0 THEN [lru |-> c, cur |-> 0, panic |-> FALSE]
    ELSE IF cur < RecSize THEN [lru |-> c, cur |-> cur, panic |-> TRUE]
    ELSE IF ZeroRun(cur) > 0
    THEN ScanBack(LruInsert(c, ZeroHash, NullPtr), cur - ZeroRun(cur) * RecSize, h)
    ELSE LET rec == ReadRec(recs, cur - RecSize)
             c1  == LruInsert(c, rec[1], rec[2])
         IN IF rec[1] = h THEN [lru |-> c1, cur |-> cur - RecSize, panic |-> FALSE]
            ELSE ScanBack(c1, cur - RecSize, h)

\* get_root_ptr(h): scan unless the cache holds h; a cursor that reached 0
\* restarts at the tail; the answer is the cache's entry for h.
GetRootPtrResult(h) ==
    LET s == IF LruHas(lru, h) THEN [lru |-> lru, cur |-> cursor, panic |-> FALSE]
             ELSE ScanBack(lru, cursor, h)
        hit == LruHas(s.lru, h)
    IN [lru |-> IF hit THEN LruTouch(s.lru, h) ELSE s.lru,
        cur |-> IF s.cur = 0 THEN flen ELSE s.cur,
        ans |-> IF s.panic THEN Panic ELSE IF hit THEN LruVal(s.lru, h) ELSE None]

\* The hash a CleanPtr was published with (a root's hash is fixed).
PublishedHash(c) == recs[CHOOSE i \in DOMAIN recs : recs[i][3] = c][2]

\* A length rounded up to whole pages.
PageRound(n) == ((n + PageSize - 1) \div PageSize) * PageSize

\* StateDBRoots::new over a file of records rs and length len, and the
\* StateDB opened at the root it returns: the last 40 bytes are the latest
\* record, the only cached entry, and the cursor is at it.
Reopen(rs, len) ==
    IF len < RecSize
    THEN /\ lru' = <<>> /\ cursor' = 0 /\ openHash' = EmptyHash
    ELSE LET last == ReadRec(rs, len - RecSize) IN
         /\ lru' = LruInsert(<<>>, last[1], last[2])
         /\ cursor' = len - RecSize
         /\ openHash' = IF last[2] = NullPtr THEN EmptyHash ELSE last[1]

-----------------------------------------------------------------------------

\* StateDB::commit, line 488: add_root_ptr(merkle.hash(), cptr) writes the
\* record at the tail, flushes the file and inserts the entry; the new
\* root is the open one.  The same root may be published again (a commit
\* with nothing dirty) and different roots may have the same contents.
AddRootPtr(h, c) ==
    /\ Len(recs) < MaxRecs
    /\ \A i \in DOMAIN recs : recs[i][3] = c => recs[i][2] = h
    /\ recs' = Append(recs, <<flen, h, c>>)
    /\ flen' = flen + RecSize
    /\ lru' = LruInsert(lru, h, c)
    /\ openHash' = h
    /\ UNCHANGED cursor

\* add_root_ptr whose flush is cut by a crash after write_at and before
\* set_len: the record is on disk in a page-rounded file, and the process
\* restarts over it.
AddRootPtrCrash(h, c) ==
    /\ Len(recs) < MaxRecs
    /\ \A i \in DOMAIN recs : recs[i][3] = c => recs[i][2] = h
    /\ recs' = Append(recs, <<flen, h, c>>)
    /\ flen' = PageRound(flen + RecSize)
    /\ Reopen(recs', flen')

\* open_root_hash(h): nothing when h is the open root's hash; otherwise
\* get_root_ptr, and open_root of the CleanPtr when one is found.  A panic
\* ends the process, which restarts.
OpenRootHash(h) ==
    /\ h # openHash
    /\ LET r == GetRootPtrResult(h) IN
       IF r.ans = Panic THEN Reopen(recs, flen)
       ELSE /\ lru' = r.lru
            /\ cursor' = r.cur
            /\ openHash' = IF r.ans = None THEN openHash ELSE PublishedHash(r.ans)
    /\ UNCHANGED <<recs, flen>>

\* The process ends (Drop, or a crash outside add_root_ptr) and restarts.
Restart ==
    /\ Reopen(recs, flen)
    /\ UNCHANGED <<recs, flen>>

\* StateDB::open on an empty directory: new over an empty root file.
Init ==
    /\ recs = <<>>
    /\ flen = 0
    /\ lru = <<>>
    /\ cursor = 0
    /\ openHash = EmptyHash

Next ==
    \/ \E h \in Hashes, c \in Cptrs : AddRootPtr(h, c) \/ AddRootPtrCrash(h, c)
    \/ \E h \in Hashes : OpenRootHash(h)
    \/ Restart

Spec == Init /\ [][Next]_vars

-----------------------------------------------------------------------------
(* Properties                                                              *)

TypeOK ==
    /\ recs \in Seq(Nat \X Hashes \X Cptrs)
    /\ Len(lru) <= RootCap
    /\ cursor \in 0..flen
    /\ openHash \in Hashes \cup {EmptyHash}

\* open_root_hash switches to any root the root file records (spec 4.6:
\* the records exist "to allow opening a historical version by hash"):
\* for every recorded hash other than the open one, get_root_ptr returns
\* a CleanPtr (statedb.rs 142-159), neither None nor a panic.
LookupComplete ==
    \A i \in DOMAIN recs :
        recs[i][2] # openHash => GetRootPtrResult(recs[i][2]).ans \in Cptrs

====

-------------------------------- MODULE AHA --------------------------------
(***************************************************************************)
(* The Aggregated Hash Array (src/merkle/aha.rs) as the node store drives  *)
(* it (NodeStore::load_aha / write_aha / commit in src/merkle/store.rs).   *)
(*                                                                         *)
(* Tier files hold fixed-stride records; a record is abstracted to the     *)
(* sequence of reference items it holds, padded with EmptyItem to the      *)
(* tier capacity, and a slot pointer to its record index (byte offset      *)
(* slot * C * 34, so slot 0 is offset 0).                                  *)
(*                                                                         *)
(* The trie is abstracted to what the AHA sees of it: a set of branches,   *)
(* each stored version of a branch being its (aha_len, aha_ptr) and the    *)
(* reference items of its children.  A batch rewrites some branches of the *)
(* open root: cow_clean runs load_aha on the stored version, commit runs   *)
(* write_aha on the rewritten one, and NodeStore::commit runs aha.commit.  *)
(***************************************************************************)
EXTENDS Naturals, Sequences, SequencesExt, FiniteSets, TLC

CONSTANTS
    AhaLens,    \* DBConfig.aha_lens: tier capacities, increasing
    Items,      \* reference items of children
    Branches,   \* branch identities of the trie
    MaxArr,     \* largest number of children a written branch has
    MaxSlots,   \* bound on the records of one tier file
    MaxRoots,   \* bound on the roots commits publish
    EmptyItem,  \* what a zero length byte in a record reads as
    NoVer       \* a branch not rewritten in the current batch

ASSUME /\ AhaLens \in Seq(Nat \ {0}) /\ Len(AhaLens) > 0
       /\ MaxArr \in Nat /\ MaxSlots \in Nat /\ MaxRoots \in Nat

VARIABLES
    files,      \* files[i]: the records of tier i (backend i)
    recycled,   \* recycled[i]: slots ready for reuse (a stack)
    pending,    \* pending_recycle[i]: slots freed in this batch
    view,       \* view[b]: the stored version of b in the open root
    staged,     \* staged[b]: b's version written by the current batch
    roots       \* every view a commit published

vars == <<files, recycled, pending, view, staged, roots>>

Tiers == 1..Len(AhaLens)

\* A stored branch: aha_len, aha_ptr and its children's reference items.
Version(len, ptr, items) == [len |-> len, ptr |-> ptr, items |-> items]
\* Branch::new: aha_len = 0, aha_ptr = 0.
FreshBranch == Version(0, 0, <<>>)

\* The child arrays a branch written by commit can have (a branch keeps at
\* least two entries after delete's collapse rules).
Arrays == UNION {[1..n -> Items] : n \in 2..MaxArr}

\* aha_index: the first tier whose capacity is >= len; Len(AhaLens) + 1
\* (one past the last tier) when none is.
AhaIndex(len) ==
    IF \E i \in Tiers : AhaLens[i] >= len
    THEN CHOOSE i \in Tiers : AhaLens[i] >= len /\ \A j \in 1..i - 1 : AhaLens[j] < len
    ELSE Len(AhaLens) + 1

\* The record write_aha stores: items, then zero padding to the capacity.
Record(items, i) == items \o [k \in 1..AhaLens[i] - Len(items) |-> EmptyItem]

\* read_aha(aha_len, aha_ptr): the first aha_len entries of the record.
\* self.aha_len[idx] with idx past the last tier panics.
ReadAha(len, ptr) ==
    LET idx == AhaIndex(len) IN
    IF idx > Len(AhaLens) THEN Assert(FALSE, "read_aha: aha_len[idx] out of bounds")
    ELSE SubSeq(files[idx][ptr + 1], 1, len)

\* NodeStore::load_aha on the branch cow_clean copies: reads the record when
\* aha_len > 0 (all children of a decoded branch are Ptr(Clean)).  The
\* validation against the branch's own hash compares the items read with
\* the branch's true items (the reference-item encoding is injective).
LoadAhaHit(v) == v.len > 0 /\ ReadAha(v.len, v.ptr) = v.items

\* new_cptr(idx): pop a recycled slot, else the tier's tail.
NewCptr(i) ==
    IF recycled[i] # <<>> THEN <<Last(recycled[i]), Front(recycled[i])>>
    ELSE <<Len(files[i]), recycled[i]>>

\* Write record rec at slot ptr of file f (in place, or at the tail).
WriteAt(f, ptr, rec) == IF ptr = Len(f) THEN Append(f, rec) ELSE [f EXCEPT ![ptr + 1] = rec]

WriteAhaAlwaysRecycle(items, old) ==
    LET oldIdx == AhaIndex(old.len)
        pend1  == IF TRUE
                  THEN IF old.len > 0 /\ oldIdx > Len(AhaLens)
                       THEN Assert(FALSE, "write_aha: pending_recycle[idx] out of bounds")
                       ELSE [pending EXCEPT ![oldIdx] = Append(@, old.ptr)]
                  ELSE pending
        idx    == AhaIndex(Len(items))
        nc     == NewCptr(idx)
    IN IF idx > Len(AhaLens)
       THEN [files |-> files, recycled |-> recycled, pending |-> pend1,
             ver |-> Version(Len(items), 0, items)]
       ELSE [files |-> [files EXCEPT ![idx] = WriteAt(@, nc[1], Record(items, idx))],
             recycled |-> [recycled EXCEPT ![idx] = nc[2]],
             pending |-> pend1,
             ver |-> Version(Len(items), nc[1], items)]

\* AggregatedHashArray::write_aha(hashs, old_len, old_cptr), entered from
\* NodeStore::write_aha, which has already set aha_len = Len(items): the old
\* slot goes to its tier's pending list, the new record to a recycled slot
\* or the tail, and an array past the last tier is not stored (pointer 0).
\* (The hashs.is_empty() early return is unreachable: branches have >= 2
\* children.)  Returns the new files, recycled, pending and version.
WriteAha(items, old) ==
    LET oldIdx == AhaIndex(old.len)
        pend1  == IF old.len > 0
                  THEN IF oldIdx > Len(AhaLens)
                       THEN Assert(FALSE, "write_aha: pending_recycle[idx] out of bounds")
                       ELSE [pending EXCEPT ![oldIdx] = Append(@, old.ptr)]
                  ELSE pending
        idx    == AhaIndex(Len(items))
        nc     == NewCptr(idx)
    IN IF idx > Len(AhaLens)
       THEN [files |-> files, recycled |-> recycled, pending |-> pend1,
             ver |-> Version(Len(items), 0, items)]
       ELSE [files |-> [files EXCEPT ![idx] = WriteAt(@, nc[1], Record(items, idx))],
             recycled |-> [recycled EXCEPT ![idx] = nc[2]],
             pending |-> pend1,
             ver |-> Version(Len(items), nc[1], items)]

\* Bounds: a write happens only while fewer than MaxRoots roots have been
\* published and when no tier file grows past MaxSlots records.
Room(w) == /\ Cardinality(roots) < MaxRoots
           /\ \A i \in Tiers : Len(w.files[i]) <= MaxSlots

\* A batch rewrites branch b (once per batch) with new children items:
\* cow_clean's load_aha on the stored version (when it was ever stored),
\* then commit's write_aha.  A fresh branch (made by a split) has
\* aha_len = 0 and is not loaded.
Write(b, items) ==
    /\ staged[b] = NoVer
    /\ view[b].len > 0 => LoadAhaHit(view[b]) \in BOOLEAN
    /\ LET w == WriteAha(items, view[b]) IN
       /\ Room(w)
       /\ files' = w.files
       /\ recycled' = w.recycled
       /\ pending' = w.pending
       /\ staged' = [staged EXCEPT ![b] = w.ver]
    /\ UNCHANGED <<view, roots>>

\* Merkle::commit with nothing dirty returns root_cptr at once: no store
\* commit, no AHA change.
CommitNothing ==
    /\ \A b \in Branches : staged[b] = NoVer
    /\ UNCHANGED vars

\* Merkle::commit publishes the batch; NodeStore::commit calls aha.commit,
\* which appends every tier's pending slots to its recycled stack.
CommitKeepsPending ==
    /\ \E b \in Branches : staged[b] # NoVer
    /\ view' = [b \in Branches |-> IF staged[b] # NoVer THEN staged[b] ELSE view[b]]
    /\ roots' = roots \cup {view'}
    /\ staged' = [b \in Branches |-> NoVer]
    /\ recycled' = [i \in Tiers |-> recycled[i] \o pending[i]]
    /\ UNCHANGED <<files, pending>>

Commit ==
    /\ \E b \in Branches : staged[b] # NoVer
    /\ view' = [b \in Branches |-> IF staged[b] # NoVer THEN staged[b] ELSE view[b]]
    /\ roots' = roots \cup {view'}
    /\ staged' = [b \in Branches |-> NoVer]
    /\ recycled' = [i \in Tiers |-> recycled[i] \o pending[i]]
    /\ pending' = [i \in Tiers |-> <<>>]
    /\ UNCHANGED files

Init ==
    /\ files = [i \in Tiers |-> <<>>]
    /\ recycled = [i \in Tiers |-> <<>>]
    /\ pending = [i \in Tiers |-> <<>>]
    /\ view = [b \in Branches |-> FreshBranch]
    /\ staged = [b \in Branches |-> NoVer]
    /\ roots = {[b \in Branches |-> FreshBranch]}

\* A single writer that extends its latest root.  open_root of an older
\* root between batches is left out: the next batch then recycles a slot
\* that root's branch still points at (aha.rs:100), and only load_aha's
\* hash validation (store.rs:223) keeps its reads right.
Next ==
    \/ \E b \in Branches, items \in Arrays : Write(b, items)
    \/ Commit
    \/ CommitNothing

Spec == Init /\ [][Next]_vars

-----------------------------------------------------------------------------
(* Properties                                                              *)

TypeOK ==
    /\ \A i \in Tiers : /\ files[i] \in Seq(Seq(Items \cup {EmptyItem}))
                        /\ ToSet(recycled[i]) \cup ToSet(pending[i]) \subseteq 0..Len(files[i]) - 1
    /\ \A b \in Branches : view[b].len \in Nat /\ (staged[b] = NoVer \/ staged[b].len \in Nat)
    /\ view \in roots

\* The versions the open root and the current batch will go on using.
Live == {IF staged[b] # NoVer THEN staged[b] ELSE view[b] : b \in Branches}
Current == {view[b] : b \in Branches} \cup {staged[b] : b \in {c \in Branches : staged[c] # NoVer}}

\* AHA round trip (spec P7): every branch of the open root and of the
\* current batch that has an AHA record reads back exactly its children's
\* reference items, whatever writes, commits and recycling came before;
\* write_aha's recycling (aha.rs 98-101), new_cptr's reuse (52-58) and
\* commit's release (139-146) must never hand out a slot still in use.
AHAIntact ==
    \A v \in Current :
        0 < v.len /\ AhaIndex(v.len) <= Len(AhaLens) => ReadAha(v.len, v.ptr) = v.items

\* Recycling is sound (spec 4.2 and P8): a slot is in a tier's recycled or
\* pending list at most once, and never while a version the batch will
\* publish still has its record there.  The first write of a branch
\* (old_len = 0) must not recycle its pointer 0.
RecycleSafe ==
    \A i \in Tiers :
        LET pool == recycled[i] \o pending[i] IN
        /\ Len(pool) = Cardinality(ToSet(pool))
        /\ \A v \in Live : v.len > 0 /\ AhaIndex(v.len) = i => v.ptr \notin ToSet(pool)

\* Spec 4.2: an array larger than the biggest tier is not stored and the
\* branch stays aha_len = 0 (NodeStore::write_aha, store.rs 259-262).
AhaLenStored ==
    \A v \in Current : AhaIndex(v.len) <= Len(AhaLens)

====

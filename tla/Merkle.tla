------------------------------- MODULE Merkle -------------------------------
(***************************************************************************)
(* The trie engine of ficusdb (src/merkle/merkle.rs) over its node store   *)
(* (src/merkle/store.rs) with AHA disabled (aha_lens = []).                *)
(*                                                                         *)
(* State: the append-only node file (nodes[c+1] is the node stored at      *)
(* CleanPtr c; offsets are abstracted to record positions, so the first    *)
(* node written has CleanPtr 0 exactly as in the code), the dirty arena    *)
(* (dirty[p+1] is DirtyPtr p), and the engine's (root_cptr, root_dptr).    *)
(* Every public operation runs to completion under the store lock, so     *)
(* each is one atomic action.                                              *)
(*                                                                         *)
(* Hashing is abstracted to an injective encoding: the canonical RLP of a  *)
(* node is the tuple Raw(n), a reference item is Ref(raw) (it stands for   *)
(* "raw if < 32 bytes else RLP(keccak(raw))", injective either way) and a  *)
(* root hash is Keccak(raw).  A short node's path enters its RLP in the   *)
(* hex-prefix compact form, computed as utils::to_compact computes it.     *)
(***************************************************************************)
EXTENDS Naturals, Sequences, SequencesExt, FiniteSets, TLC

CONSTANTS
    Keys,       \* keys written by callers: sequences of bytes (0..255)
    Vals,       \* values written by callers
    None,       \* Option::None (empty slot / empty dirty node)
    NoPtr,      \* root_dptr = None
    Missing,    \* find() returned None
    MaxDirty,   \* bound on the dirty arena of one batch
    MaxNodes    \* bound on the node file

ASSUME Keys \subseteq Seq(0..255) /\ Vals # {}

VARIABLES
    nodes,      \* node file: records in storage encoding, append-only
    dirty,      \* NodeStore.dirty: the copy-on-write arena
    rootCptr,   \* Merkle.root_cptr (0 = empty trie)
    rootDptr,   \* Merkle.root_dptr (NoPtr = None)
    published,  \* root identifiers returned by commit (what callers may reopen)
    panicked    \* an insert hit an assert: the process is gone

vars == <<nodes, dirty, rootCptr, rootDptr, published, panicked>>

NBRANCH == 16
Slots == 0..NBRANCH

\* utils::to_nibbles + to_path: two nibbles per byte, then terminator 16.
ToPath(key) ==
    [i \in 1..2 * Len(key) |->
        IF i % 2 = 1 THEN key[(i + 1) \div 2] \div 16 ELSE key[i \div 2] % 16]
    \o <<NBRANCH>>

\* Short::common_prefix_len: count matching nibbles up to the shorter length.
RECURSIVE PrefixFrom(_, _, _)
PrefixFrom(a, b, m) ==
    IF m < Len(a) /\ m < Len(b) /\ a[m + 1] = b[m + 1] THEN PrefixFrom(a, b, m + 1) ELSE m
CommonPrefixLen(a, b) == PrefixFrom(a, b, 0)

\* Child::Ptr(NodePtr::Dirty/Clean) and Child::Hash
Dirty(p) == [k |-> "dirty", p |-> p]
Clean(c) == [k |-> "clean", p |-> c]
HashRef(c, h) == [k |-> "hash", p |-> c, h |-> h]

ValueNode(v) == [type |-> "value", val |-> v]
ShortNode(path, child) == [type |-> "short", path |-> path, child |-> child, hash |-> <<>>]
NewBranch == [type |-> "branch", children |-> [i \in Slots |-> None], hash |-> <<>>]

\* Abstract canonical encodings (see header).
ValueRef(v) == <<"V", v>>
Ref(raw) == <<"R", raw>>
Keccak(raw) == <<"K", raw>>
EmptyRootHash == Keccak(<<"0x80">>)

\* utils::from_nibbles: each pair of nibbles is one byte.
FromNibbles(ns) ==
    IF Len(ns) % 2 = 1 THEN Assert(FALSE, "from_nibbles of an odd number of nibbles")
    ELSE [i \in 1..Len(ns) \div 2 |-> ns[2 * i - 1] * 16 + ns[2 * i]]

\* Mutant: the terminator flag shifted by 0 instead of 1.
ToCompactFlagLow(path) ==
    LET term == IF Len(path) > 0 /\ path[Len(path)] = NBRANCH THEN 1 ELSE 0
        len  == Len(path) - term
        head == IF len % 2 = 1 THEN <<term + 1>> ELSE <<term, 0>>
    IN FromNibbles(head \o SubSeq(path, 1, len))

\* utils::to_compact: a trailing 16 is the leaf flag (2), an odd length sets
\* flag 1 and puts the first nibble beside the flags, an even one pads
\* the flags with a 0 nibble.
ToCompact(path) ==
    LET term == IF Len(path) > 0 /\ path[Len(path)] = NBRANCH THEN 1 ELSE 0
        len  == Len(path) - term
        head == IF len % 2 = 1 THEN <<term * 2 + 1>> ELSE <<term * 2, 0>>
    IN FromNibbles(head \o SubSeq(path, 1, len))

\* Branch/Short::rlp_encode: every child must be a Hash.
Raw(n) ==
    IF n.type = "branch"
    THEN <<"B", [i \in Slots |-> IF n.children[i] = None THEN <<>> ELSE n.children[i].h]>>
    ELSE <<"S", ToCompact(n.path), n.child.h>>

\* Node::calc_hash
CalcHash(n) == IF n.type = "value" THEN ValueRef(n.val) ELSE Ref(Raw(n))

\* Node::hash: the value's RLP, or the reference item stored with the node.
StoredHash(n) == IF n.type = "value" THEN ValueRef(n.val) ELSE n.hash

\* Mutant: nodes are stored with the children commit resolved, unstripped.
EncodeKeepsRefs(n) == n

\* Child storage encoding keeps only the CleanPtr; decoding yields Ptr(Clean).
EncodeChild(c) == IF c = None THEN None ELSE Clean(c.p)
Encode(n) ==
    CASE n.type = "branch" -> [n EXCEPT !.children = [i \in Slots |-> EncodeChild(@[i])]]
      [] n.type = "short"  -> [n EXCEPT !.child = EncodeChild(@)]
      [] OTHER             -> n

GetClean(file, c) == file[c + 1]
GetDirty(d, p) == d[p + 1]
PutDirty(d, p, n) == [d EXCEPT ![p + 1] = n]

\* NodeStore::load_children_hash
LoadHash(file, c) ==
    IF c # None /\ c.k = "clean" THEN HashRef(c.p, StoredHash(GetClean(file, c.p))) ELSE c
LoadChildrenHash(file, n) ==
    CASE n.type = "branch" -> [n EXCEPT !.children = [i \in Slots |-> LoadHash(file, @[i])]]
      [] n.type = "short"  -> [n EXCEPT !.child = LoadHash(file, @)]
      [] OTHER             -> n

\* NodeStore::cow_clean (load_aha is a no-op without AHA): returns <<arena, dptr>>.
CowClean(d, c) == <<Append(d, GetClean(nodes, c)), Len(d)>>

\* The dirty pointer a traversal descends to: the child itself if dirty,
\* a CoW copy if clean or hashed, a fresh empty node if absent.
ToDirty(d, c) ==
    CASE c = None        -> <<Append(d, None), Len(d)>>
      [] c.k = "dirty"   -> <<d, c.p>>
      [] OTHER           -> CowClean(d, c.p)

-----------------------------------------------------------------------------
(* Merkle::find                                                            *)
RECURSIVE FindFrom(_, _, _, _)
FindFrom(d, ptr, path, i) ==
    LET n == IF ptr.k = "dirty" THEN GetDirty(d, ptr.p) ELSE GetClean(nodes, ptr.p)
        next(c) == IF c.k = "dirty" THEN c ELSE Clean(c.p)
    IN CASE n = None -> Missing
         [] n.type = "value" -> n.val
         [] n.type = "branch" ->
              IF n.children[path[i + 1]] = None THEN Missing
              ELSE FindFrom(d, next(n.children[path[i + 1]]), path, i + 1)
         [] OTHER ->
              LET shared == CommonPrefixLen(n.path, SubSeq(path, i + 1, Len(path)))
              IN IF shared = Len(n.path)
                 THEN FindFrom(d, next(n.child), path, i + shared)
                 ELSE Missing

Find(key) ==
    IF rootCptr = 0 /\ rootDptr = NoPtr THEN Missing
    ELSE FindFrom(dirty,
                  IF rootDptr # NoPtr THEN Dirty(rootDptr) ELSE Clean(rootCptr),
                  ToPath(key), 0)

\* What a reader of a committed root identifier sees.
FindAt(root, key) ==
    IF root = 0 THEN Missing ELSE FindFrom(<<>>, Clean(root), ToPath(key), 0)

\* Merkle::hash: only the committed root is hashed.
Hash ==
    IF rootCptr = 0 THEN EmptyRootHash
    ELSE Keccak(Raw(LoadChildrenHash(nodes, GetClean(nodes, rootCptr))))

-----------------------------------------------------------------------------
(* Merkle::insert: the descent loop, one recursive step per iteration.     *)
(* Returns the arena after the loop and whether an assert panicked; vd is  *)
(* the new value's DirtyPtr.                                               *)
Done(d) == [d |-> d, panic |-> FALSE]

RECURSIVE InsertLoop(_, _, _, _, _)
InsertLoop(d, cur, path, i, vd) ==
  IF i >= Len(path) THEN Done(d)
  ELSE
  LET n == GetDirty(d, cur) IN
  CASE n = None ->
         Done(PutDirty(d, cur, ShortNode(SubSeq(path, i + 1, Len(path)), Dirty(vd))))
    [] n.type = "value" -> Assert(FALSE, "insert reached a value node")
    [] n.type = "branch" ->
         LET bidx == path[i + 1] IN
         IF i + 1 = Len(path)
         THEN Done(PutDirty(d, cur, [n EXCEPT !.children[bidx] = Dirty(vd)]))
         ELSE LET r == ToDirty(d, n.children[bidx])
              IN InsertLoop(PutDirty(r[1], cur, [n EXCEPT !.children[bidx] = Dirty(r[2])]),
                            r[2], path, i + 1, vd)
    [] OTHER ->
         LET rest   == SubSeq(path, i + 1, Len(path))
             shared == CommonPrefixLen(n.path, rest)
             j      == i + shared
         IN
         IF j = Len(path) /\ shared = Len(n.path) THEN
             Done(PutDirty(d, cur, [n EXCEPT !.child = Dirty(vd)]))
         ELSE IF j < Len(path) /\ shared = Len(n.path) THEN
             \* assert!(i + 1 < path.len()): only the terminator is left when
             \* the key is a strict prefix of a key under this short
             IF j + 1 = Len(path) THEN [d |-> d, panic |-> TRUE]
             ELSE
             LET r == ToDirty(d, n.child)
             IN InsertLoop(PutDirty(r[1], cur, [n EXCEPT !.child = Dirty(r[2])]),
                           r[2], path, j, vd)
         ELSE
             \* split: a branch (and maybe a prefix short) before the short
             LET bidxShort == n.path[shared + 1]
                 bidxPath  == path[j + 1]
                 keepShort == shared + 1 < Len(n.path)
                 d1 == IF keepShort
                       THEN Append(d, [n EXCEPT !.path = SubSeq(n.path, shared + 2, Len(n.path))])
                       ELSE d
                 c1 == IF keepShort THEN Dirty(Len(d)) ELSE n.child
                 newShort == j + 1 < Len(path)
                 d2 == IF newShort
                       THEN Append(d1, ShortNode(SubSeq(path, j + 2, Len(path)), Dirty(vd)))
                       ELSE d1
                 c2 == IF newShort THEN Dirty(Len(d1)) ELSE Dirty(vd)
                 branch == [NewBranch EXCEPT !.children[bidxShort] = c1,
                                             !.children[bidxPath] = c2]
             IN IF shared > 0
                THEN Done(PutDirty(Append(d2, branch), cur,
                                   ShortNode(SubSeq(n.path, 1, shared), Dirty(Len(d2)))))
                ELSE Done(PutDirty(d2, cur, branch))

\* Mutant: a clean tree's first write starts from an empty node, no CoW.
DirtyRootNoCow ==
    IF rootDptr # NoPtr THEN <<dirty, rootDptr>> ELSE <<Append(dirty, None), Len(dirty)>>

\* The dirty root insert/delete start from: root_dptr, an empty dirty node,
\* or a CoW copy of the committed root.  Returns <<arena, dptr>>.
DirtyRoot ==
    IF rootDptr # NoPtr THEN <<dirty, rootDptr>>
    ELSE IF rootCptr = 0 THEN <<Append(dirty, None), Len(dirty)>>
    ELSE CowClean(dirty, rootCptr)

\* Batch bound: an operation is attempted only while the arena and the
\* node file have room for it.
Room == Len(dirty) < MaxDirty /\ Len(nodes) < MaxNodes

\* A panic inside the loop ends the process (the store's mutex is poisoned
\* and the panic unwinds through WriteBatch::commit or StateDB::commit).
Insert(key, v) ==
    /\ Room
    /\ LET r   == DirtyRoot
           vd  == Len(r[1])
           res == InsertLoop(Append(r[1], ValueNode(v)), r[2], ToPath(key), 0, vd)
       IN IF res.panic
          THEN /\ panicked' = TRUE
               /\ UNCHANGED <<dirty, rootDptr>>
          ELSE /\ dirty' = res.d
               /\ rootDptr' = r[2]
               /\ UNCHANGED panicked
    /\ UNCHANGED <<nodes, rootCptr, published>>

-----------------------------------------------------------------------------
(* Merkle::delete_rec: returns [d |-> arena, ptr |-> new child or None,    *)
(* removed |-> whether the key was found].                                 *)
Res(d, ptr, removed) == [d |-> d, ptr |-> ptr, removed |-> removed]

\* The node a child reference denotes, for the merge checks of delete_rec.
ChildNode(d, c) == IF c.k = "dirty" THEN GetDirty(d, c.p) ELSE GetClean(nodes, c.p)

\* Mutant: delete never concatenates a short child into its parent.
MergeShortNever(d, path, c) == ShortNode(path, c)

\* Prepend path to a child that is a short node (the path concatenation
\* done when an extension or a collapsed branch meets a short child).
MergeShort(d, path, c) ==
    LET cn == ChildNode(d, c)
    IN IF cn # None /\ cn.type = "short"
       THEN ShortNode(path \o cn.path, cn.child)
       ELSE ShortNode(path, c)

\* Mutant: a short whose child was removed is kept, pointing at the empty node.
ShortResultKeepsEmpty(n, n1, dptr, r) ==
    IF ~r.removed \/ r.ptr = None THEN Res(PutDirty(r.d, dptr, n1), Dirty(dptr), r.removed)
    ELSE LET n2 == IF Last(n.path) # NBRANCH
                   THEN [MergeShort(r.d, n.path, r.ptr) EXCEPT !.hash = n.hash]
                   ELSE [n EXCEPT !.child = r.ptr]
         IN Res(PutDirty(r.d, dptr, n2), Dirty(dptr), TRUE)

\* delete_rec's short case after the recursive call on its (dirtied) child:
\* n is the short, n1 the short pointing at the dirty child, r the result.
\* An extension (no terminator) whose new child is a short absorbs it.
ShortResult(n, n1, dptr, r) ==
    CASE ~r.removed -> Res(PutDirty(r.d, dptr, n1), Dirty(dptr), FALSE)
      [] r.ptr = None -> Res(PutDirty(r.d, dptr, None), None, TRUE)
      [] OTHER ->
           LET n2 == IF Last(n.path) # NBRANCH
                     THEN [MergeShort(r.d, n.path, r.ptr) EXCEPT !.hash = n.hash]
                     ELSE [n EXCEPT !.child = r.ptr]
           IN Res(PutDirty(r.d, dptr, n2), Dirty(dptr), TRUE)

RECURSIVE DeleteRec(_, _, _, _)
DeleteRec(d, dptr, path, depth) ==
  LET n == GetDirty(d, dptr) IN
  CASE n = None -> Res(d, None, FALSE)
    [] n.type = "value" ->
         IF depth = Len(path) THEN Res(PutDirty(d, dptr, None), None, TRUE)
         ELSE Res(d, Dirty(dptr), FALSE)
    [] n.type = "short" ->
         LET shared == CommonPrefixLen(n.path, SubSeq(path, depth + 1, Len(path)))
             c  == ToDirty(d, n.child)
             n1 == [n EXCEPT !.child = Dirty(c[2])]
             r  == DeleteRec(c[1], c[2], path, depth + shared)
         IN IF shared # Len(n.path) THEN Res(d, Dirty(dptr), FALSE)
            ELSE ShortResult(n, n1, dptr, r)
    [] OTHER ->
         LET bidx  == path[depth + 1]
             child == n.children[bidx]
             valueSlot == depth + 1 = Len(path) /\ bidx = NBRANCH
             c == ToDirty(d, child)
             r == IF valueSlot THEN Res(d, None, TRUE)
                  ELSE DeleteRec(c[1], c[2], path, depth + 1)
             restore == IF valueSlot THEN child ELSE Dirty(c[2])
             kids    == [n.children EXCEPT ![bidx] = r.ptr]
             present == {i \in Slots : kids[i] # None}
             only    == CHOOSE i \in present : TRUE
         IN IF depth >= Len(path) \/ child = None THEN Res(d, Dirty(dptr), FALSE)
            ELSE IF ~r.removed
                 THEN Res(PutDirty(r.d, dptr, [n EXCEPT !.children[bidx] = restore]),
                          Dirty(dptr), FALSE)
            ELSE CASE present = {} -> Res(PutDirty(r.d, dptr, None), None, TRUE)
                   [] Cardinality(present) = 1 ->
                        LET sn == IF only # NBRANCH
                                  THEN MergeShort(r.d, <<only>>, kids[only])
                                  ELSE ShortNode(<<only>>, kids[only])
                        IN Res(PutDirty(r.d, dptr, sn), Dirty(dptr), TRUE)
                   [] OTHER -> Res(PutDirty(r.d, dptr, [n EXCEPT !.children = kids]),
                                   Dirty(dptr), TRUE)

\* Merkle::delete.  A no-op on a tree that was clean reverts root_dptr;
\* the CoW copies it made stay in the arena until the next commit.
Delete(key) ==
    /\ Room
    /\ IF rootCptr = 0 /\ rootDptr = NoPtr
       THEN UNCHANGED vars
       ELSE LET rt == DirtyRoot
                r  == DeleteRec(rt[1], rt[2], ToPath(key), 0)
            IN /\ dirty' = IF r.removed /\ r.ptr = None
                           THEN PutDirty(r.d, rt[2], None) ELSE r.d
               /\ rootDptr' = CASE ~r.removed /\ rootDptr = NoPtr -> NoPtr
                                [] ~r.removed -> rootDptr
                                [] r.ptr = None -> rt[2]
                                [] OTHER -> r.ptr.p
               /\ UNCHANGED <<nodes, rootCptr, published, panicked>>

-----------------------------------------------------------------------------
(* Merkle::commit_order: breadth-first over dirty children in slot order,  *)
(* taking each node out of the arena (take_dirty().unwrap()).              *)
DirtyKids(n) ==
    LET cs == CASE n.type = "branch" -> [i \in 1..NBRANCH + 1 |-> n.children[i - 1]]
                [] n.type = "short"  -> <<n.child>>
                [] OTHER             -> <<>>
    IN [i \in 1..Len(SelectSeq(cs, LAMBDA c : c # None /\ c.k = "dirty")) |->
           SelectSeq(cs, LAMBDA c : c # None /\ c.k = "dirty")[i].p]

RECURSIVE CommitOrder(_, _, _)
CommitOrder(d, order, i) ==
    IF i > Len(order) THEN order
    ELSE LET kids == DirtyKids(GetDirty(d, order[i]))
         IN IF /\ Len(kids) = Cardinality(ToSet(kids))
               /\ \A k \in ToSet(kids) : k \notin ToSet(order) /\ GetDirty(d, k) # None
            THEN CommitOrder(d, order \o kids, i + 1)
            ELSE Assert(FALSE, "commit_order: take_dirty(..).unwrap() on a taken node")

\* Replace Ptr(Dirty) children by Hash(cptr, ref item) from ptr_map.
Resolve(c, pm) == IF c # None /\ c.k = "dirty" THEN HashRef(pm[c.p][1], pm[c.p][2]) ELSE c
ResolveDirty(n, pm) ==
    CASE n.type = "branch" -> [n EXCEPT !.children = [i \in Slots |-> Resolve(@[i], pm)]]
      [] n.type = "short"  -> [n EXCEPT !.child = Resolve(@, pm)]
      [] OTHER             -> n

WithHash(n, h) == IF n.type = "value" THEN n ELSE [n EXCEPT !.hash = h]

\* Merkle::commit's loop: nodes.pop() processes the order from its end, so
\* every child is appended before its parent.  Returns <<file, ptr_map>>.
RECURSIVE CommitNodes(_, _, _, _, _)
CommitNodes(d, order, k, file, pm) ==
    IF k = 0 THEN <<file, pm>>
    ELSE LET dp   == order[k]
             kids == DirtyKids(GetDirty(d, dp))
             n    == LoadChildrenHash(file, ResolveDirty(GetDirty(d, dp), pm))
             h    == CalcHash(n)
             cptr == Len(file)
         IN IF ~(ToSet(kids) \subseteq DOMAIN pm)
            THEN Assert(FALSE, "commit: ptr_map.remove(..).unwrap() on a missing child")
            ELSE CommitNodes(d, order, k - 1, Append(file, Encode(WithHash(n, h))),
                           [x \in (DOMAIN pm \ ToSet(kids)) \cup {dp} |->
                               IF x = dp THEN <<cptr, h>> ELSE pm[x]])

Commit ==
    /\ rootDptr # NoPtr
    /\ IF GetDirty(dirty, rootDptr) = None
       THEN /\ rootCptr' = 0
            /\ published' = published \cup {0}
            /\ UNCHANGED nodes
       ELSE LET r == CommitNodes(dirty, CommitOrder(dirty, <<rootDptr>>, 1),
                                 Len(CommitOrder(dirty, <<rootDptr>>, 1)), nodes, <<>>)
            IN /\ nodes' = r[1]
               /\ rootCptr' = r[2][rootDptr][1]
               /\ published' = published \cup {r[2][rootDptr][1]}
    /\ rootDptr' = NoPtr
    /\ dirty' = <<>>
    /\ UNCHANGED panicked

\* Merkle::new(store, root) on a root identifier some commit returned, as
\* DB::open_root and StateDB::open_root do.  The arena is left as it is.
OpenRoot(root) ==
    /\ root # rootCptr
    /\ rootCptr' = root
    /\ rootDptr' = NoPtr
    /\ UNCHANGED <<nodes, dirty, published, panicked>>

Init ==
    /\ nodes = <<>>
    /\ dirty = <<>>
    /\ rootCptr = 0
    /\ rootDptr = NoPtr
    /\ published = {0}
    /\ panicked = FALSE

\* Nothing follows a panic.
Next ==
    /\ ~panicked
    /\ \/ \E k \in Keys, v \in Vals : Insert(k, v)
       \/ \E k \in Keys : Delete(k)
       \/ Commit
       \/ \E r \in published : OpenRoot(r)

Spec == Init /\ [][Next]_vars

-----------------------------------------------------------------------------
(* Reference: the canonical Ethereum MPT of a key/value map, defined from  *)
(* the trie's definition (the same structure the test reference           *)
(* tests/eth_merkle.rs builds), over <<path, value>> entries.               *)
Entries(m) == {<<ToPath(k), m[k]>> : k \in {k \in Keys : m[k] # Missing}}

\* Nibbles::encode_compact: hex-prefix encoding of a path without
\* terminator, with flag 2 for a leaf and 1 for an odd length.
EncodeCompact(data, isLeaf) ==
    LET odd   == Len(data) % 2 # 0
        flags == (IF odd THEN 1 ELSE 0) + (IF isLeaf THEN 2 ELSE 0)
        rest  == IF odd THEN Tail(data) ELSE data
    IN <<IF odd THEN flags * 16 + data[1] ELSE flags * 16>>
       \o [i \in 1..Len(rest) \div 2 |-> rest[2 * i - 1] * 16 + rest[2 * i]]

Strip(S, n) == {<<SubSeq(e[1], n + 1, Len(e[1])), e[2]>> : e \in S}

RECURSIVE RefRaw(_), RefBranch(_)
RefRaw(S) ==
    LET cp == LongestCommonPrefix({e[1] : e \in S}) IN
    IF Cardinality(S) = 1
    THEN LET e == CHOOSE e \in S : TRUE IN
         <<"S", EncodeCompact(Front(e[1]), TRUE), ValueRef(e[2])>>
    ELSE IF cp # <<>> THEN <<"S", EncodeCompact(cp, FALSE), Ref(RefBranch(Strip(S, Len(cp))))>>
    ELSE RefBranch(S)
RefBranch(S) ==
    <<"B", [i \in Slots |->
              LET Si == {e \in S : e[1][1] = i} IN
              CASE Si = {}      -> <<>>
                [] i = NBRANCH  -> ValueRef((CHOOSE e \in Si : TRUE)[2])
                [] OTHER        -> Ref(RefRaw(Strip(Si, 1)))]>>

RefRootHash(m) == IF Entries(m) = {} THEN EmptyRootHash ELSE Keccak(RefRaw(Entries(m)))

-----------------------------------------------------------------------------
(* Properties                                                              *)

\* Node shapes; a short node's path is never empty (spec.md 3.3).  ptrs
\* maps each kind of child reference a node may hold to the pointers it
\* may name: a stored node's children are CleanPtrs only (3.1) of records
\* written before it, and a dirty node's name the arena or the file.
ChildOK(c, ptrs) == c = None \/ (c.k \in DOMAIN ptrs /\ c.p \in ptrs[c.k])
NodeOK(n, ptrs) ==
    CASE n.type = "value"  -> n.val \in Vals
      [] n.type = "short"  -> n.path \in Seq(Slots) /\ n.path # <<>> /\ ChildOK(n.child, ptrs)
      [] n.type = "branch" -> \A i \in Slots : ChildOK(n.children[i], ptrs)

TypeOK ==
    /\ \A c \in DOMAIN nodes : NodeOK(nodes[c], "clean" :> 0..c - 2)
    /\ \A p \in DOMAIN dirty :
          dirty[p] = None \/ NodeOK(dirty[p], ("dirty" :> 0..Len(dirty) - 1)
                                              @@ ("clean" :> 0..Len(nodes) - 1)
                                              @@ ("hash" :> 0..Len(nodes) - 1))
    /\ published \subseteq 0..Len(nodes)
    /\ rootCptr \in published
    /\ rootDptr = NoPtr \/ rootDptr \in 0..Len(dirty) - 1

\* The dirty pointers reachable from a set of dirty pointers.
RECURSIVE DirtyReach(_)
DirtyReach(S) ==
    LET S2 == S \cup UNION {ToSet(DirtyKids(GetDirty(dirty, p))) : p \in {q \in S : GetDirty(dirty, q) # None}}
    IN IF S2 = S THEN S ELSE DirtyReach(S2)

\* How many slots of reachable dirty nodes point at dirty node p.
InDegree(p, R) ==
    LET slotsOf(q) == LET n == GetDirty(dirty, q) IN
                        CASE n = None -> {}
                          [] n.type = "branch" -> {i \in Slots : n.children[i] = Dirty(p)}
                          [] n.type = "short" -> IF n.child = Dirty(p) THEN {0} ELSE {}
                          [] OTHER -> {}
    IN Cardinality(UNION {{<<q, i>> : i \in slotsOf(q)} : q \in R})

\* The dirty subgraph insert and delete leave behind is a tree rooted at
\* root_dptr: every reachable node other than the root is present and has
\* exactly one parent slot, and the root has none.  commit_order
\* (merkle.rs 640, 668) and commit's ptr_map.remove (572, 579) unwrap on
\* exactly this; CoW copies, the nodes a split appends and the short nodes
\* a merge abandons must never make two slots share a dirty node.
DirtyTreeOK ==
    rootDptr # NoPtr =>
        LET R == DirtyReach({rootDptr}) IN
        /\ \A p \in R \ {rootDptr} : GetDirty(dirty, p) # None /\ InDegree(p, R) = 1
        /\ InDegree(rootDptr, R) = 0

LiveMap == [k \in Keys |-> Find(k)]
CommittedMap(root) == [k \in Keys |-> FindAt(root, k)]

\* Refinement: reads of the live view (dirty root or committed root), of the
\* committed root, and of every root identifier commit has returned behave
\* as the abstract versioned store: inserts and deletes edit one key of the
\* live view, commit publishes it, and no later insert, delete, commit or
\* open_root changes what an already published root reads as (P5).
KV == INSTANCE KVStore WITH
        live <- LiveMap,
        committed <- CommittedMap(rootCptr),
        snapshots <- {CommittedMap(r) : r \in published}
KVSpec == KV!Spec

\* Merkle::hash() of the committed root equals the root hash of the
\* canonical MPT of the committed contents (P1, P2, P10): insert's splits,
\* delete's branch collapse and short merges leave exactly the canonical
\* shape, and a root identifier of 0 is published exactly for the empty map.
HashMatchesReference == Hash = RefRootHash(CommittedMap(rootCptr))

\* Every insert runs to completion, whatever the key: spec 4.5 takes keys
\* as arbitrary bytes, and 4.5.2 descends into a short's child when its
\* path matches and some path remains.  merkle.rs 199 asserts that more
\* than the terminator remains, which fails when a key that is a strict
\* prefix of a stored key is written again.
InsertCompletes == ~panicked

=============================================================================

------------------------------ MODULE PageFile ------------------------------
(***************************************************************************)
(* PageCachedFile (src/backend/file.rs): fixed-size pages over one OS     *)
(* file, with a clean LRU and a map of dirty pages.  Every node, AHA tier  *)
(* and root-journal file of a database is one of these.                    *)
(*                                                                         *)
(* Bytes are abstracted to a few values, 0 included; a byte at address a  *)
(* is element a + 1 of a sequence.  flush is one step per write_at of a    *)
(* dirty page (HashMap drain order is arbitrary) and one for set_len, so   *)
(* a crash of the process can fall between any two of them.  Data the OS  *)
(* accepted survives a process crash; a machine crash (no fsync is ever    *)
(* called) is not modelled.                                                *)
(***************************************************************************)
EXTENDS Naturals, Sequences, SequencesExt, FiniteSets

CONSTANTS
    PageSize,   \* PAGE_SIZE
    CleanCap,   \* capacity of the clean LRU: (cache_size / PAGE_SIZE).max(1)
    Bytes,      \* the nonzero byte values a write can carry
    MaxLen      \* bound on the logical length of the file (a page multiple)

ASSUME /\ PageSize \in Nat \ {0} /\ CleanCap \in Nat \ {0}
       /\ MaxLen \in Nat /\ MaxLen % PageSize = 0 /\ 0 \notin Bytes

VARIABLES
    disk,       \* the OS file's bytes (its length is the file's length)
    fileTail,   \* file_tail
    buffTail,   \* buff_tail
    clean,      \* the clean LRU: <<pid, page>> pairs, least recent first
    dirty,      \* dirty: pid -> page
    flushing,   \* a flush is between its first write_at and its set_len
    logical,    \* history: the bytes reads must return, up to buff_tail
    flushedImg  \* history: logical as the last completed flush left it

vars == <<disk, fileTail, buffTail, clean, dirty, flushing, logical, flushedImg>>

Pids == 0..(MaxLen \div PageSize) - 1
Zeros(n) == [i \in 1..n |-> 0]

\* The bytes of sequence s from address lo to hi - 1, zero past its end.
Slice(s, lo, hi) == [i \in 1..hi - lo |-> IF lo + i <= Len(s) THEN s[lo + i] ELSE 0]

\* Sequence s with bytes d written from address ptr (zero-filling a gap).
Patch(s, ptr, d) ==
    LET n == IF ptr + Len(d) > Len(s) THEN ptr + Len(d) ELSE Len(s) IN
    [i \in 1..n |-> IF ptr < i /\ i <= ptr + Len(d) THEN d[i - ptr]
                    ELSE IF i <= Len(s) THEN s[i] ELSE 0]

PidOf(a) == a \div PageSize

\* The pages that bytes lo..hi-1 touch, in address order.
PagesOf(lo, hi) == IF lo >= hi THEN <<>>
                   ELSE [i \in 1..PidOf(hi - 1) - PidOf(lo) + 1 |-> PidOf(lo) + i - 1]

\* The clean LRU as LruCache: contains, get (promotes), put (promotes,
\* evicting the least recent when full), pop.
InLru(c, pid) == \E i \in DOMAIN c : c[i][1] = pid
LruPage(c, pid) == c[CHOOSE i \in DOMAIN c : c[i][1] = pid][2]
LruPop(c, pid) == SelectSeq(c, LAMBDA e : e[1] # pid)
LruPut(c, pid, page) ==
    LET c1 == Append(LruPop(c, pid), <<pid, page>>) IN
    IF Len(c1) > CleanCap THEN Tail(c1) ELSE c1

\* load_page: the page's bytes below file_tail, zeros after (read_at past
\* the OS file's end is a short read and leaves zeros).
LoadPage(pid) ==
    [i \in 1..PageSize |-> LET a == pid * PageSize + i - 1 IN
                           IF a < fileTail /\ a < Len(disk) THEN disk[a + 1] ELSE 0]

\* get_page, for a page that is not dirty: load it into the LRU on a miss,
\* then LruCache::get promotes it.
RECURSIVE FillPages(_, _)
FillPages(c, ps) ==
    IF ps = <<>> THEN c
    ELSE LET p == Head(ps) IN
         FillPages(IF p \in DOMAIN dirty THEN c
                   ELSE LruPut(c, p, IF InLru(c, p) THEN LruPage(c, p) ELSE LoadPage(p)),
                   Tail(ps))

\* What a read of address a returns: the dirty page, else the clean page,
\* else the page load_page would read.
View(a) ==
    LET p == PidOf(a) IN
    LET page == IF p \in DOMAIN dirty THEN dirty[p]
                ELSE IF InLru(clean, p) THEN LruPage(clean, p)
                ELSE LoadPage(p)
    IN page[a - p * PageSize + 1]

-----------------------------------------------------------------------------

\* read(ptr, len): clamp to buff_tail and visit each page.  Only the LRU
\* changes.
Read(ptr, len) ==
    /\ ~flushing
    /\ LET end == IF ptr + len < buffTail THEN ptr + len ELSE buffTail IN
       clean' = FillPages(clean, PagesOf(ptr, end))
    /\ UNCHANGED <<disk, fileTail, buffTail, dirty, flushing, logical, flushedImg>>

\* A page made dirty from zeros instead of its current contents.
DirtyBaseZeroed(p) ==
    IF p \in DOMAIN dirty THEN dirty[p] ELSE Zeros(PageSize)

\* ensure_dirty_page: a page not yet dirty is popped from the LRU, or else
\* loaded from the file.
DirtyBase(p) ==
    IF p \in DOMAIN dirty THEN dirty[p]
    ELSE IF InLru(clean, p) THEN LruPage(clean, p) ELSE LoadPage(p)

\* buff_tail set to the write's end even when that is below it.
WriteTailNoMax(ptr, d) ==
    /\ ~flushing
    /\ ptr + Len(d) <= MaxLen
    /\ LET ps == ToSet(PagesOf(ptr, ptr + Len(d))) IN
       /\ dirty' = [p \in DOMAIN dirty \cup ps |->
                       IF p \in ps
                       THEN Slice(Patch(Zeros(p * PageSize) \o DirtyBase(p), ptr, d),
                                  p * PageSize, (p + 1) * PageSize)
                       ELSE dirty[p]]
       /\ clean' = SelectSeq(clean, LAMBDA e : e[1] \notin ps)
    /\ buffTail' = ptr + Len(d)
    /\ logical' = Patch(logical, ptr, d)
    /\ UNCHANGED <<disk, fileTail, flushing, flushedImg>>

\* write(ptr, data): make every touched page dirty, patch it, and advance
\* buff_tail.
Write(ptr, d) ==
    /\ ~flushing
    /\ ptr + Len(d) <= MaxLen
    /\ LET ps == ToSet(PagesOf(ptr, ptr + Len(d))) IN
       /\ dirty' = [p \in DOMAIN dirty \cup ps |->
                       IF p \in ps
                       THEN Slice(Patch(Zeros(p * PageSize) \o DirtyBase(p), ptr, d),
                                  p * PageSize, (p + 1) * PageSize)
                       ELSE dirty[p]]
       /\ clean' = SelectSeq(clean, LAMBDA e : e[1] \notin ps)
    /\ buffTail' = IF ptr + Len(d) > buffTail THEN ptr + Len(d) ELSE buffTail
    /\ logical' = Patch(logical, ptr, d)
    /\ UNCHANGED <<disk, fileTail, flushing, flushedImg>>

\* flush, line 144: the drain begins.
FlushBegin ==
    /\ ~flushing
    /\ flushing' = TRUE
    /\ UNCHANGED <<disk, fileTail, buffTail, clean, dirty, logical, flushedImg>>

\* Mutant: the dirty map is iterated, not drained.
FlushPageKeepsDirty(p) ==
    /\ flushing /\ p \in DOMAIN dirty
    /\ disk' = Patch(disk, p * PageSize, dirty[p])
    /\ clean' = LruPut(clean, p, dirty[p])
    /\ UNCHANGED <<fileTail, buffTail, dirty, flushing, logical, flushedImg>>

\* Lines 145-147: write_at a whole dirty page at its offset (the OS file
\* grows to the page's end if shorter), and put it in the clean LRU.
FlushPage(p) ==
    /\ flushing /\ p \in DOMAIN dirty
    /\ disk' = Patch(disk, p * PageSize, dirty[p])
    /\ clean' = LruPut(clean, p, dirty[p])
    /\ dirty' = [q \in DOMAIN dirty \ {p} |-> dirty[q]]
    /\ UNCHANGED <<fileTail, buffTail, flushing, logical, flushedImg>>

\* set_len given the old file_tail.
SetLenToFileTail ==
    /\ flushing /\ DOMAIN dirty = {}
    /\ disk' = Slice(disk, 0, fileTail)
    /\ fileTail' = buffTail
    /\ flushing' = FALSE
    /\ flushedImg' = logical
    /\ UNCHANGED <<buffTail, clean, dirty, logical>>

\* Lines 149-152: set_len(buff_tail), then file_tail = buff_tail.
SetLen ==
    /\ flushing /\ DOMAIN dirty = {}
    /\ disk' = Slice(disk, 0, buffTail)
    /\ fileTail' = buffTail
    /\ flushing' = FALSE
    /\ flushedImg' = logical
    /\ UNCHANGED <<buffTail, clean, dirty, logical>>

\* The process dies, and PageCachedFile::new reopens the file: both tails
\* are the OS file's length and the caches are empty.  What is on disk is
\* now what the file holds.
CrashReopen ==
    /\ fileTail' = Len(disk)
    /\ buffTail' = Len(disk)
    /\ clean' = <<>>
    /\ dirty' = <<>>
    /\ flushing' = FALSE
    /\ logical' = disk
    /\ flushedImg' = disk
    /\ UNCHANGED disk

Init ==
    /\ disk = <<>>
    /\ fileTail = 0 /\ buffTail = 0
    /\ clean = <<>> /\ dirty = <<>>
    /\ flushing = FALSE
    /\ logical = <<>> /\ flushedImg = <<>>

\* Writes of one or two bytes exercise in-page, page-crossing and gap
\* writes.
Data == UNION {[1..n -> Bytes] : n \in 1..2}

Next ==
    \/ \E ptr \in 0..MaxLen - 1, len \in 1..2 : Read(ptr, len)
    \/ \E ptr \in 0..MaxLen - 1, d \in Data : Write(ptr, d)
    \/ FlushBegin
    \/ \E p \in Pids : FlushPage(p)
    \/ SetLen
    \/ CrashReopen

Spec == Init /\ [][Next]_vars

\* flush is one call on the thread that holds &mut self: once it has begun,
\* nothing else touches the file until it returns, and it returns unless
\* the process dies.  The steps it is split into are weakly fair; the
\* crash is not.
FairSpec == Spec /\ WF_vars(\E p \in Pids : FlushPage(p)) /\ WF_vars(SetLen)

-----------------------------------------------------------------------------
(* Properties                                                              *)

TypeOK ==
    /\ disk \in Seq(Bytes \cup {0})
    /\ fileTail \in 0..MaxLen /\ buffTail \in 0..MaxLen
    /\ fileTail <= buffTail
    /\ DOMAIN dirty \subseteq Pids
    /\ Len(clean) <= CleanCap
    /\ flushing \in BOOLEAN

\* Spec P9, reads: whenever a read can run, every byte below buff_tail
\* reads as the last write to it left it, and a never-written gap reads
\* as zero, whichever of dirty map, clean LRU or file it comes from
\* (get_page lines 52-77, ensure_dirty_page 79-104, load_page 42-50).
ViewIsLogical ==
    ~flushing =>
        /\ Len(logical) = buffTail
        /\ \A a \in 0..buffTail - 1 : View(a) = logical[a + 1]

\* Spec P9, reopen: a crash and reopen keep every byte the last completed
\* flush wrote, except bytes the interrupted flush had already replaced by
\* newer ones (flush lines 144-152).
FlushedSurvives ==
    [][CrashReopen =>
        \A a \in 0..Len(flushedImg) - 1 :
            /\ a < Len(disk)
            /\ \/ disk[a + 1] = flushedImg[a + 1]
               \/ flushing /\ disk[a + 1] = logical[a + 1]]_vars

\* flush returns, and when it has returned the OS file holds exactly the
\* bytes written so far, gap zeros included (the drain of the dirty map,
\* lines 144-147, ends, and set_len at line 151 cuts or extends the file
\* to buff_tail).  A crash also ends the flush: reopening takes the file
\* as it is.
FlushCompletes == flushing ~> (~flushing /\ disk = logical)

\* Spec 4.1 and P9: flush keeps the OS file's length equal to the logical
\* tail, so a reopen sees the tail of the last completed flush, or of the
\* interrupted one.  write_at of whole pages (line 146) runs before
\* set_len (line 151).
TailSurvives ==
    [][CrashReopen =>
        Len(disk) \in {Len(flushedImg)} \cup (IF flushing THEN {buffTail} ELSE {})]_vars

====

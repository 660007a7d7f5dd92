------------------------------- MODULE Malloc --------------------------------
(***************************************************************************)
(* The C library's malloc, free and realloc (user/lib/libc/malloc.c), as a *)
(* process calls them one after the other.                                 *)
(*                                                                         *)
(* The allocator is one record, heap; every function of the file is an     *)
(* operator from a heap to a heap, with the pointer it returns in the      *)
(* field r.  An address is ptr2index * malloc_pagesize + offset, and 0 is  *)
(* NULL.  A bitmap is the set of its one bits; a bucket's list and the     *)
(* free list are sequences, the latter of [at, page, end] with at the      *)
(* address of the struct pgfree and page, end page indices (its size is    *)
(* end - page after every assignment).  malloc_options is set by no        *)
(* program, so its flags are off; no signal handler or second thread makes *)
(* malloc_active more than 1.                                              *)
(***************************************************************************)
EXTENDS Integers, SequencesExt

CONSTANTS
    malloc_pageshift,
    malloc_minshift,   \* malloc_minsize is 2^malloc_minshift
    malloc_cache,      \* in pages
    MALLOC_BITS,       \* bits of a bitmap word
    SizeofWord,        \* bytes of a bitmap word
    SizeofEntry,       \* bytes of an entry of page_dir
    SizeofPginfo,      \* offsetof(struct pginfo, bits[0])
    SizeofPgfree,      \* sizeof(struct pgfree)
    MaxHeap,           \* pages the kernel lets the break rise by
    SizeRange,         \* a size_t is below this
    MallocSizes,       \* the sizes asked for
    MaxLive,           \* bound: allocations held at a time
    MaxCalls           \* bound: calls of malloc, free and realloc

malloc_pagesize == 2^malloc_pageshift
malloc_minsize == 2^malloc_minshift
malloc_maxsize == malloc_pagesize \div 2
Buckets == malloc_minshift .. malloc_pageshift - 1

MALLOC_NOT_MINE == 0
MALLOC_FREE == 1
MALLOC_FIRST == 2
MALLOC_FOLLOW == 3
MALLOC_MAGIC == 4

ptr2index(p) == p \div malloc_pagesize
pagemask(p) == p % malloc_pagesize
pages(size) == (size + malloc_pagesize - 1) \div malloc_pagesize

\* Find length of admin structure.
AdminLength(bits) ==
    SizeofPginfo + SizeofWord
        * ((2^(malloc_pageshift - bits) + MALLOC_BITS - 1) \div MALLOC_BITS)

\* Don't waste more than two chunks on this.
InPage(bits) == 2^bits <= 2 * AdminLength(bits)

\* With the sizes of the source (16 and 4 bytes, 32 bits, 4096-byte pages) the
\* unsigned l of malloc_make_chunks comes down to exactly 0.
ASSUME AdminAssumption ==
    \A bits \in Buckets : InPage(bits) => AdminLength(bits) % 2^bits = 0

VARIABLES
    heap,    \* the allocator
    live,    \* the allocations the program holds: [p, size]
    calls    \* how many calls it made

mallocVars == <<heap, live, calls>>
-----------------------------------------------------------------------------
LowestIndex == malloc_pageshift      \* malloc_origo is that far below the break
HighestIndex == LowestIndex + MaxHeap
Entries(npages) == npages * (malloc_pagesize \div SizeofEntry)

NoHeap == [started |-> FALSE, suicide |-> FALSE, ninfo |-> 0,
           dir |-> [i \in LowestIndex .. HighestIndex |-> MALLOC_NOT_MINE],
           brk |-> LowestIndex, last_index |-> 0,
           bucket |-> [b \in Buckets |-> <<>>], info |-> <<>>, free_list |-> <<>>,
           px |-> 0, bare |-> FALSE, lost |-> {}, stranded |-> {}, bad |-> {},
           mmapok |-> TRUE, brkok |-> TRUE, junk |-> FALSE, r |-> 0]

Blame(h, what) == [h EXCEPT !.bad = @ \cup {what}]
Without(f, x) == [y \in DOMAIN f \ {x} |-> f[y]]

\* page_dir[i] = e for i in S.
SetDir(h, S, e) ==
    IF S \subseteq 0 .. h.ninfo - 1
    THEN [h EXCEPT !.dir = [i \in DOMAIN @ |-> IF i \in S THEN e ELSE @[i]]]
    ELSE Blame(h, "directory")

\* The index after the last page of the allocation that starts at page i: the scan
\* of the directory by free_pages and irealloc.
RECURSIVE EndOfRun(_, _)
EndOfRun(h, i) ==
    IF h.dir[i + 1] = MALLOC_FOLLOW THEN EndOfRun(h, i + 1) ELSE i + 1

\* Extend page directory; mmap may fail.
extend_pgdir(h, index) ==
    IF h.mmapok THEN [h EXCEPT !.ninfo = Entries((index * SizeofEntry) \div malloc_pagesize + 2)]
    ELSE [h EXCEPT !.stranded = @ \cup (ptr2index(h.r) .. index), !.r = 0]

\* Allocate a number of pages from the OS.  brk fails beyond the limit, or when the
\* kernel is short of memory.  The break stays up when the directory cannot grow.
map_pages(h, n) ==
    IF ~h.brkok \/ h.brk + n > HighestIndex THEN [h EXCEPT !.r = 0]
    ELSE LET raised == [h EXCEPT !.brk = @ + n, !.last_index = h.brk + n - 1,
                                 !.r = h.brk * malloc_pagesize]
         IN  IF h.brk + n < h.ninfo THEN raised ELSE extend_pgdir(raised, h.brk + n - 1)

RECURSIVE imalloc(_, _)
RECURSIVE ifree(_, _)

\* The list entry a page allocation emptied becomes the spare one, or is freed.
DelayedFree(h, p, delay_free) ==
    IF h.px = 0 THEN [h EXCEPT !.px = delay_free, !.r = p]
    ELSE [ifree(h, delay_free) EXCEPT !.r = p]

\* Mark the n pages at p.
TakePages(h, p, n, delay_free) ==
    DelayedFree(SetDir(SetDir(h, {ptr2index(p)}, MALLOC_FIRST),
                       ptr2index(p) + 1 .. ptr2index(p) + n - 1, MALLOC_FOLLOW),
                p, delay_free)

\* Mutant: the rest of the entry starts one page after the pages taken began.
Carve_one_page(h, n, fit, pf) ==
    TakePages(IF pf.end - pf.page = n THEN [h EXCEPT !.free_list = RemoveAt(@, fit)]
              ELSE [h EXCEPT !.free_list[fit].page = @ + 1],
              pf.page * malloc_pagesize, n, IF pf.end - pf.page = n THEN pf.at ELSE 0)

\* n pages from entry fit of the free list.
Carve(h, n, fit, pf) ==
    TakePages(IF pf.end - pf.page = n THEN [h EXCEPT !.free_list = RemoveAt(@, fit)]
              ELSE [h EXCEPT !.free_list[fit].page = @ + n],
              pf.page * malloc_pagesize, n, IF pf.end - pf.page = n THEN pf.at ELSE 0)

Mapped(h, n) == IF h.r = 0 THEN h ELSE TakePages(h, h.r, n, 0)

FirstFit(h, n) == SelectInSeq(h.free_list, LAMBDA pf : pf.end - pf.page >= n)

\* Allocate a number of complete pages: first fit on the free list, then the OS.
malloc_pages(h, n) ==
    IF FirstFit(h, n) = 0 THEN Mapped(map_pages(h, n), n)
    ELSE Carve(h, n, FirstFit(h, n), h.free_list[FirstFit(h, n)])

\* The bits of a new page of chunks: all of them set, those of the admin structure
\* cleared again.  A last word that is not full keeps what the memory held above.
NewBits(h, total, stolen) ==
    (stolen .. total - 1)
    \cup IF h.junk THEN {k \in total .. total + MALLOC_BITS - 1 :
                           k \div MALLOC_BITS = (total - 1) \div MALLOC_BITS}
         ELSE {}

Stolen(bits) == IF InPage(bits) THEN AdminLength(bits) \div 2^bits ELSE 0
Chunks(bits) == 2^(malloc_pageshift - bits)

\* bp describes the page pp of chunks of 2^bits bytes; head of its bucket.
AddChunks(h, bits, pp, bp) ==
    [SetDir(h, {ptr2index(pp)}, bp) EXCEPT
        !.info = (bp :> [page |-> ptr2index(pp), shift |-> bits,
                         free |-> Chunks(bits) - Stolen(bits),
                         total |-> Chunks(bits) - Stolen(bits),
                         bits |-> NewBits(h, Chunks(bits), Stolen(bits))]) @@ @,
        !.bucket[bits] = <<bp>> \o @]

ChunksWith(h, bits, pp) ==
    IF h.r = 0 THEN [ifree(h, pp) EXCEPT !.r = 0] ELSE AddChunks(h, bits, pp, h.r)

ChunksOn(h, bits) ==
    IF h.r = 0 THEN h
    ELSE ChunksWith(IF InPage(bits) THEN h ELSE imalloc(h, AdminLength(bits)), bits, h.r)

\* Allocate a page of fragments.
malloc_make_chunks(h, bits) == ChunksOn(malloc_pages(h, 1), bits)

\* The right bucket for a size.
BucketOf(size) ==
    LET s == IF size < malloc_minsize THEN malloc_minsize ELSE size
    IN  CHOOSE j \in Buckets : 2^j >= s /\ (j = malloc_minshift \/ 2^(j - 1) < s)

\* Hand out the first free chunk k of the page bp, the first of bucket j.
TakeBit(h, j, bp, i, k) ==
    [h EXCEPT !.info[bp].bits = @ \ {k}, !.info[bp].free = @ - 1,
              !.bucket[j] = IF i.free = 1 THEN Tail(@) ELSE @,
              !.r = i.page * malloc_pagesize + k * 2^j]

TakeChunk(h, j) ==
    IF h.r = 0 THEN h
    ELSE LET bp == Head(h.bucket[j])
         IN  TakeBit(h, j, bp, h.info[bp], Min(h.info[bp].bits))

\* Allocate a fragment.
malloc_bytes(h, j) ==
    TakeChunk(IF h.bucket[j] # <<>> THEN [h EXCEPT !.r = 1] ELSE malloc_make_chunks(h, j), j)

\* Allocate a piece of memory; none when the size rounded up would overflow.
imalloc(h, size) ==
    IF h.suicide THEN h
    ELSE IF size + malloc_pagesize >= SizeRange THEN [h EXCEPT !.r = 0]
    ELSE IF size <= malloc_maxsize THEN malloc_bytes(h, BucketOf(size))
    ELSE malloc_pages(h, pages(size))
-----------------------------------------------------------------------------
\* px, the spare list entry: imalloc overwrites what malloc_pages may have put there.
GotPx(h) ==
    IF h.r = 0 THEN Blame(h, "px")
    ELSE [h EXCEPT !.px = h.r, !.bare = FALSE, !.lost = @ \cup ({h.px} \ {0})]

NeedPx(h) == IF h.px # 0 THEN h ELSE GotPx(imalloc(h, SizeofPgfree))

\* The heap, the place of the list entry that changed, and the entry to free.
Change(h, pos, pt) == [h |-> h, pf |-> pos, pt |-> pt]

\* Put the pages of new on the free list near pf, joined with what they touch.
InsertNear(h, fl, new, pos, pf) ==
    IF pf.page > new.end
    THEN Change([h EXCEPT !.free_list = InsertAt(@, pos, new), !.px = 0], pos, 0)
    ELSE IF pf.end = new.page /\ pos < Len(fl) /\ fl[pos + 1].page = new.end
    THEN Change([h EXCEPT !.free_list =
                    RemoveAt([@ EXCEPT ![pos].end = fl[pos + 1].end], pos + 1)],
                pos, fl[pos + 1].at)
    ELSE IF pf.end = new.page THEN Change([h EXCEPT !.free_list[pos].end = new.end], pos, 0)
    ELSE IF pf.page = new.end THEN Change([h EXCEPT !.free_list[pos].page = new.page], pos, 0)
    ELSE IF pos = Len(fl)
    THEN Change([h EXCEPT !.free_list = Append(@, new), !.px = 0], pos + 1, 0)
    ELSE Change(Blame(h, "freelist is destroyed"), pos, 0)

RightSpot(fl, i) ==
    IF \A k \in DOMAIN fl : fl[k].end < i THEN Len(fl)
    ELSE SelectInSeq(fl, LAMBDA f : f.end >= i)

Insert(h, fl, i, tail) ==
    IF fl = <<>>
    THEN Change([h EXCEPT !.free_list = <<[at |-> h.px, page |-> i, end |-> tail]>>,
                          !.px = 0], 1, 0)
    ELSE InsertNear(h, fl, [at |-> h.px, page |-> i, end |-> tail],
                    RightSpot(fl, i), fl[RightSpot(fl, i)])

\* Return something to OS ?  The directory entries above stay MALLOC_FREE: the loop
\* that would clear them runs from index to last_index = index - 1.
ReturnToOS(h, pos) ==
    LET pf == h.free_list[pos]
    IN  IF pos = Len(h.free_list) /\ pf.end - pf.page > malloc_cache /\ pf.end = h.brk
        THEN [h EXCEPT !.free_list[pos].end = pf.page + malloc_cache,
                       !.brk = pf.page + malloc_cache,
                       !.last_index = pf.page + malloc_cache - 1]
        ELSE h

FreeJoined(c) == ifree(ReturnToOS(c.h, c.pf), c.pt)

FreeRun(h, i, tail) ==
    IF "px" \in h.bad THEN h ELSE FreeJoined(Insert(h, h.free_list, i, tail))

\* Free a sequence of pages; a pointer to a free page, to the middle of an allocation
\* or into a page is only warned about.
FreeFrom(h, index, tail) ==
    FreeRun(NeedPx(SetDir(IF tail < h.ninfo THEN h ELSE Blame(h, "directory"),
                          index .. tail - 1, MALLOC_FREE)), index, tail)

free_pages(h, ptr) ==
    IF h.dir[ptr2index(ptr)] # MALLOC_FIRST \/ pagemask(ptr) # 0 THEN h
    ELSE FreeFrom(h, ptr2index(ptr), EndOfRun(h, ptr2index(ptr)))

\* Where a page that became non-full goes in its bucket: before the first entry
\* whose successor is not below it.
PlaceInBucket(h, list, page) ==
    IF list = <<>> THEN 1
    ELSE Min({k \in DOMAIN list : k = Len(list) \/ h.info[list[k + 1]].page >= page})

\* The page of info is empty: forget it, free the info if it is elsewhere, and then
\* the page.
FreeChunkPage(h, bp, info, vp) ==
    ifree(ifree(SetDir([h EXCEPT !.bucket[info.shift] = Remove(@, bp),
                                 !.info = Without(@, bp)], {info.page}, MALLOC_FIRST),
                IF vp = bp THEN 0 ELSE bp),
          vp)

\* Free chunk i of the page bp, and possibly the page, if it becomes empty; a pointer
\* into a chunk or to a free one is only warned about.
free_chunk(h, bp, info, i) ==
    LET g == [h EXCEPT !.info[bp].bits = @ \cup {i}, !.info[bp].free = @ + 1]
    IN  IF info.free = 0
        THEN [g EXCEPT !.bucket[info.shift] =
                InsertAt(@, PlaceInBucket(h, @, info.page), bp)]
        ELSE IF info.free + 1 # info.total THEN g
        ELSE FreeChunkPage(g, bp, info, info.page * malloc_pagesize)

free_bytes(h, ptr, bp, info) ==
    IF ptr % 2^info.shift # 0 \/ pagemask(ptr) \div 2^info.shift \in info.bits THEN h
    ELSE free_chunk(h, bp, info, pagemask(ptr) \div 2^info.shift)

ifree(h, ptr) ==
    IF ptr = 0 \/ ~h.started \/ h.suicide
       \/ ptr2index(ptr) \notin malloc_pageshift .. h.last_index THEN h
    ELSE IF h.dir[ptr2index(ptr)] < MALLOC_MAGIC THEN free_pages(h, ptr)
    ELSE free_bytes(h, ptr, h.dir[ptr2index(ptr)], h.info[h.dir[ptr2index(ptr)]])

\* The size of an allocation, or 0 for a pointer irealloc warns about.
OldSize(h, ptr, index) ==
    LET e == IF index \in malloc_pageshift .. h.last_index THEN h.dir[index] ELSE 0
    IN  CASE e = MALLOC_FIRST /\ pagemask(ptr) = 0 ->
                (EndOfRun(h, index) - index) * malloc_pagesize
          [] e >= MALLOC_MAGIC /\ ptr % 2^h.info[e].shift = 0
                /\ pagemask(ptr) \div 2^h.info[e].shift \notin h.info[e].bits ->
                2^h.info[e].shift
          [] OTHER -> 0

\* The allocation is large enough, and no smaller one would do.
Stays(paged, size, osize) ==
    IF paged THEN size <= osize /\ size > osize - malloc_pagesize
    ELSE size < osize /\ (size > osize \div 2 \/ osize = malloc_minsize)

Moved(h, ptr) == IF h.r = 0 THEN h ELSE [ifree(h, ptr) EXCEPT !.r = h.r]

\* Change the size of an allocation.
irealloc(h, ptr, size, osize) ==
    IF osize = 0 THEN [h EXCEPT !.r = 0]
    ELSE IF Stays(h.dir[ptr2index(ptr)] = MALLOC_FIRST, size, osize) THEN [h EXCEPT !.r = ptr]
    ELSE Moved(imalloc(h, size), ptr)

\* Initialize the world.  Without a page for the directory wrterror ends the process;
\* that px may get nothing is not looked at (bare: there is no list entry yet).
FirstPx(h) == [h EXCEPT !.px = h.r, !.bare = h.r = 0, !.started = TRUE]

malloc_init(h) ==
    IF h.mmapok THEN FirstPx(imalloc([h EXCEPT !.ninfo = Entries(1)], SizeofPgfree))
    ELSE [h EXCEPT !.suicide = TRUE, !.r = 0]
-----------------------------------------------------------------------------
Started(h) == IF h.started THEN h ELSE malloc_init(h)
Quiet(h) == [h EXCEPT !.mmapok = TRUE, !.brkok = TRUE, !.junk = FALSE, !.r = 0]

MallocInit == heap = NoHeap /\ live = {} /\ calls = 0

\* What the program holds after a call that gave up ptr and returned a piece.
Result(h, ptr, size) ==
    /\ heap' = Quiet(h)
    /\ live' = IF h.r = 0 THEN live
               ELSE {a \in live : a.p # ptr} \cup {[p |-> h.r, size |-> size]}

\* The heap at the start of a call during which mmap or brk may fail, and the pages
\* it gets hold zeros or junk (bound: junk when one of the two fails; then they come
\* from the free list).  map_pages calls brk first, malloc_init mmap: that both fail
\* is no case of its own.
Calls ==
    {[heap EXCEPT !.mmapok = c[1], !.brkok = c[2], !.junk = c[3]] :
        c \in {<<TRUE, TRUE, FALSE>>, <<TRUE, TRUE, TRUE>>, <<FALSE, TRUE, TRUE>>,
               <<TRUE, FALSE, TRUE>>}}

malloc(size, h) ==
    /\ Cardinality(live) < MaxLive
    /\ Result(imalloc(Started(h), size), 0, size)

\* free of an allocation, of NULL, or of a pointer into one (moved by off).
free(ptr, off, h) ==
    /\ heap' = Quiet(ifree(h, ptr + off))
    /\ live' = IF off = 0 THEN {a \in live : a.p # ptr} ELSE live

realloc(ptr, size, h) ==
    /\ ptr # 0 \/ Cardinality(live) < MaxLive
    /\ Result(IF ptr = 0 THEN imalloc(Started(h), size)
              ELSE irealloc(h, ptr, size, OldSize(h, ptr, ptr2index(ptr))), ptr, size)

LivePtrs == {a.p : a \in live} \cup {0}

MallocNext ==
    /\ ~heap.suicide
    /\ heap.bad = {}
    /\ calls < MaxCalls
    /\ calls' = calls + 1
    /\ \/ \E h \in Calls, size \in MallocSizes : malloc(size, h)
       \/ \E h \in Calls, p \in LivePtrs : free(p, 0, h)
       \/ \E p \in LivePtrs \ {0}, off \in {1, malloc_pagesize} :
            /\ off = 1 \/ heap.dir[ptr2index(p) + 1] = MALLOC_FOLLOW
            /\ free(p, off, heap)
       \/ \E h \in Calls, p \in LivePtrs, size \in MallocSizes : realloc(p, size, h)

-----------------------------------------------------------------------------
\* The pieces of memory somebody uses: the program's, the admin structures of the
\* pages of chunks, the entries of the free list and the spare one.
Nodes == {f.at : f \in ToSet(heap.free_list)} \cup ({heap.px} \ {0})

InUse ==
    {[p |-> a.p, end |-> a.p + a.size, who |-> "program"] : a \in live}
    \cup {[p |-> bp, end |-> bp + AdminLength(heap.info[bp].shift), who |-> "pginfo"] :
            bp \in DOMAIN heap.info}
    \cup {[p |-> at, end |-> at + SizeofPgfree, who |-> "pgfree"] : at \in Nodes}

ChunksTaken ==
    UNION {LET i == heap.info[bp]
               first == IF InPage(i.shift) THEN AdminLength(i.shift) \div 2^i.shift ELSE 0
           IN  {i.page * malloc_pagesize + k * 2^i.shift :
                    k \in (first .. 2^(malloc_pageshift - i.shift) - 1) \ i.bits} :
           bp \in DOMAIN heap.info}

\* No two pieces of memory in use overlap and all lie below the break.  The
\* chunks marked as taken are those in use, but for list entries that free_pages
\* loses when it overwrites px; a page is in its bucket exactly while it has a
\* free chunk.
BlocksAreApart ==
    /\ \A a, b \in InUse : a = b \/ a.end <= b.p \/ b.end <= a.p
    /\ \A a \in InUse : a.p >= LowestIndex * malloc_pagesize
                        /\ a.end <= heap.brk * malloc_pagesize
    /\ ChunksTaken = heap.lost \cup {a.p : a \in {b \in InUse :
            LET e == heap.dir[ptr2index(b.p)]
            IN  e >= MALLOC_MAGIC /\ ~(e = b.p /\ b.who = "pginfo")}}
    /\ \A bp \in DOMAIN heap.info :
          LET i == heap.info[bp]
          IN  /\ heap.dir[i.page] = bp
              /\ i.free = Cardinality(i.bits \cap (0 .. 2^(malloc_pageshift - i.shift) - 1))
              /\ i.free < i.total
              /\ i.free > 0 <=> bp \in ToSet(heap.bucket[i.shift])

\* The free list is in address order, its entries neither empty nor adjacent,
\* and they hold exactly the pages that page_dir says are free, but for pages
\* lost when the directory could not grow.  At most malloc_cache pages are kept
\* free below the break.  No entry above last_index is MALLOC_FOLLOW: the scan
\* for the end of an allocation stops there, although the loop that should
\* clear these entries never runs.
FreeListAgrees ==
    LET fl == heap.free_list
    IN  /\ \A i \in DOMAIN fl : fl[i].page < fl[i].end
        /\ \A i \in 1 .. Len(fl) - 1 : fl[i].end < fl[i + 1].page
        /\ {i \in LowestIndex .. heap.last_index : heap.dir[i] = MALLOC_FREE} \ heap.stranded
             = UNION {f.page .. f.end - 1 : f \in ToSet(fl)}
        /\ fl # <<>> /\ Last(fl).end = heap.brk => Last(fl).end - Last(fl).page <= malloc_cache
        /\ \A i \in heap.last_index + 1 .. HighestIndex :
              i >= LowestIndex => heap.dir[i] # MALLOC_FOLLOW

(***************************************************************************)
(* malloc and realloc never hand out memory that the program, a pginfo or  *)
(* the free list holds, whatever was freed, split, joined and returned to  *)
(* the system before, and page_dir, bitmaps, buckets and free list agree.  *)
(* "This cannot fail..." (malloc.c:862): when free_pages needs a new list  *)
(* entry it gets one, even with no memory left, because an unused px means *)
(* a free list with a page on it; it fails, and free goes through NULL,    *)
(* only while there is no entry at all because brk failed malloc_init.     *)
(* No access to the page directory is past its end, and the free list is   *)
(* never found destroyed.                                                  *)
(***************************************************************************)
HeapIsSound ==
    heap.started =>
        IF heap.bad = {} THEN BlocksAreApart /\ FreeListAgrees
        ELSE heap.bad = {"px"} /\ heap.bare

\* Known deviation: "This cannot fail..." without exception (malloc.c:862).
PxCannotFail == heap.bad = {}
=============================================================================

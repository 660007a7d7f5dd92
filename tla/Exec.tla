-------------------------------- MODULE Exec --------------------------------
(***************************************************************************)
(* Loading a program: api/exec.c, api/binfmt.c and the ELF loader          *)
(* api/elf32.c, with the address space they build (Vmmap) and the page     *)
(* faults of the program that then runs (vm/pagefault.c).                  *)
(*                                                                         *)
(* ex is the state of one process: pmap, brk and pd are its map, break and *)
(* page directory; map is the map under construction; fds and frefs its    *)
(* two descriptors and the references of the open files behind them; kmem  *)
(* the loader's pointers to kernel memory.  Each step of the loader that   *)
(* can fail is an action, so that it can fail at any of them.  kept and    *)
(* blank count the open files that no descriptor leads to any more: kept   *)
(* those that still hold the vnode of a file, blank those that failed      *)
(* do_opens left.  short counts the reads of a file that gave no byte.     *)
(*                                                                         *)
(* A cell of memory is a word: a pointer, an int and a character each take *)
(* one, an auxiliary entry two.  User memory begins as in kernel_execve,   *)
(* with a process that has an empty map.                                   *)
(***************************************************************************)
EXTENDS Vmmap

CONSTANTS Files,        \* what exec may find: a record for each name
          ArgLists,     \* records of argv and envp: the lengths of strings
          StackPages,   \* DEFAULT_STACK_SIZE in pages
          TouchedPages, \* bound: the pages that programs use
          MaxExecs,     \* bound: calls of exec
          MaxAnons      \* bound: anonymous objects ever created

VARIABLES ex, nexecs

execVars == <<ex, nexecs>>

Pointers == {"pht", "interpname", "interppht", "auxv", "argbuf"}
NoMap == <<[start |-> 0, end |-> 0]>>

Fail(e, err) == [e EXCEPT !.pc = "done", !.err = err]
Go(e, pc) == [e EXCEPT !.pc = pc]
Dies(e) == [e EXCEPT !.pc = "panic", !.err = "panic"]

FileOf(e, which) == IF which = "prog" THEN e.prog ELSE Files[e.prog].interps[1]

-----------------------------------------------------------------------------
(* What the loader holds.                                                  *)

(* do_open for reading.  It fails before it has a file_t (no descriptor,   *)
(* no memory), or when the name leads nowhere: then the file_t stays.      *)
do_open(e, which) ==
    [e EXCEPT !.fds = @ \cup {which}, !.frefs[which] = 1, !.vrefs[FileOf(e, which)] = @ + 1]

do_open_fails(e) ==
    {[e EXCEPT !.err = err] : err \in {"EMFILE", "EBADF"}}
    \cup {[e EXCEPT !.err = "ENOENT", !.blank = @ + 1]}

fget(e, which) == [e EXCEPT !.frefs[which] = @ + 1]

fput(e, which) ==
    [e EXCEPT !.frefs[which] = @ - 1,
              !.vrefs[FileOf(e, which)] = IF e.frefs[which] = 1 THEN @ - 1 ELSE @]

(* do_read.  A read that gives nothing returns before fput.  One that      *)
(* fails adds its error to f_pos: at the start of a file f_pos is then     *)
(* negative, which fput asserts it is not; the tables are far enough in.   *)
do_read(e, which, got) ==
    CASE got = "bytes" -> fput(fget(e, which), which)
      [] got = "nothing" -> [fget(e, which) EXCEPT !.short[FileOf(e, which)] = @ + 1]
      [] got = "error at 0" -> Dies(fget(e, which))
      [] got = "error" -> fput(fget(e, which), which)

(* Whether a file goes on as far as its header, its table of program       *)
(* headers or the name of its interpreter.                                 *)
Reaches(f, part) == part \notin Files[f].cut

do_close(e, which) == fput([e EXCEPT !.fds = @ \ {which}], which)

kmalloc(e, p) == [e EXCEPT !.kmem[p] = "live"]

kfree(e, p) == IF e.kmem[p] = "live" THEN [e EXCEPT !.kmem[p] = "freed"] ELSE Dies(e)

-----------------------------------------------------------------------------
(* Segments.                                                               *)

MapState(e) == [areas |-> e.map, vrefs |-> e.vrefs, anons |-> e.anons, err |-> "ok"]

WithMap(e, m) == [e EXCEPT !.map = m.areas, !.vrefs = m.vrefs, !.anons = m.anons, !.err = m.err]

LastFilePage(s, addr) == ADDR_TO_PN(addr + s.filesz - 1)
BssPage(s, addr) == ADDR_TO_PN(addr + s.filesz)
BssPages(s, addr) == ADDR_TO_PN(PAGE_ALIGN_UP(addr + s.memsz)) - BssPage(s, addr)

(* The part that comes from the file.  fileoff is in bytes, although       *)
(* vma_off counts pages.                                                   *)
FilePart(m, f, s, addr, trouble) ==
    LET npages == LastFilePage(s, addr) - ADDR_TO_PN(addr) + 1
    IN  CASE s.filesz = 0 -> m
          [] s.filesz > 0 /\ ~RangeIsLegal(ADDR_TO_PN(addr), npages) -> Panic(m)
          [] s.filesz > 0 /\ ~vmmap_is_range_empty(m.areas, ADDR_TO_PN(addr), npages) ->
                 [m EXCEPT !.err = "ENOEXEC"]
          [] OTHER -> vmmap_map(m, f, ADDR_TO_PN(addr), npages, s.write,
                                ADDR_TO_PN(s.off) * PAGE_SIZE, trouble)

(* The part that is zero.  Copying the rest of the file's last page needs  *)
(* a page and a read, and both can fail.                                   *)
ZeroPart(m, s, addr, trouble) ==
    LET npages == BssPages(s, addr)
    IN  CASE s.memsz = s.filesz \/ m.err # "ok" -> m
          [] s.memsz > s.filesz /\ m.err = "ok" /\ npages > 1
             /\ ~vmmap_is_range_empty(m.areas, BssPage(s, addr) + 1, npages - 1) ->
                 [m EXCEPT !.err = "ENOEXEC"]
          [] OTHER -> vmmap_map(m, "anon", BssPage(s, addr), npages, s.write, 0, trouble)

CopyTail(m, s, addr, trouble) ==
    IF /\ trouble = "copy" /\ m.err = "ok" /\ s.filesz > 0 /\ s.memsz > s.filesz
       /\ PAGE_OFFSET(addr + s.filesz) # 0
    THEN [m EXCEPT !.err = "ENOMEM"] ELSE m

(* trouble strikes the file part, the zero part or the copy.               *)
At(part, trouble) == IF trouble[1] = part THEN trouble[2] ELSE "none"

elf32_map_segment(m, f, memoff, s, trouble) ==
    LET addr == s.vaddr + memoff * PAGE_SIZE
    IN  IF \/ s.align # PAGE_SIZE \/ s.filesz > s.memsz
           \/ PAGE_OFFSET(addr) # PAGE_OFFSET(s.off)
        THEN [m EXCEPT !.err = "ENOEXEC"]
        ELSE CopyTail(ZeroPart(FilePart(m, f, s, addr, At("file", trouble)),
                               s, addr, At("zero", trouble)),
                      s, addr, At("copy", trouble))

(* One segment after the other until one fails; trouble[3] is the segment  *)
(* that meets it.                                                          *)
elf32_map_progsegs(m, f, memoff, trouble) ==
    LET segs == Files[f].segs
    IN  IF segs = <<>> THEN [m EXCEPT !.err = "ENOEXEC"]
        ELSE FoldLeft(LAMBDA acc, i :
                          IF acc.err # "ok" THEN acc
                          ELSE elf32_map_segment(acc, f, memoff, segs[i],
                                                 IF trouble[3] = i THEN trouble ELSE <<"", "none", 0>>),
                      m, [i \in DOMAIN segs |-> i])

TroublesOf(f) ==
    {<<"", "none", 0>>} \cup
    {<<t[1], t[2], i>> : t \in {<<"file", "area">>, <<"zero", "area">>,
                                <<"zero", "object">>, <<"copy", "copy">>},
                         i \in DOMAIN Files[f].segs}

proglow(f) == Min({Files[f].segs[i].vaddr : i \in DOMAIN Files[f].segs})

proghigh(f) == Max({Files[f].segs[i].vaddr + Files[f].segs[i].memsz : i \in DOMAIN Files[f].segs})

-----------------------------------------------------------------------------
(* The arguments.                                                          *)

SumOf(s) == FoldLeft(LAMBDA a, b : a + b, 0, s)

PhtWords == 2      \* the program header table, where it is copied

elf32_calc_argsize(args, auxc, withpht) ==
    SumOf(args.argv) + Len(args.argv) + 1
    + SumOf(args.envp) + Len(args.envp) + 1
    + (IF withpht THEN PhtWords ELSE 0) + (auxc + 1) * 2
    + 1 + 3

(* Character j of string k.                                                *)
Char(k, j) == -(10 * k + j)

Text(lens, k0) ==
    FlattenSeq([k \in DOMAIN lens |-> [j \in 1 .. lens[k] |-> Char(k0 + k, j)]])

VectorOf(lens, vstrstart) ==
    [k \in DOMAIN lens |-> vstrstart + SumOf(SubSeq(lens, 1, k - 1))] \o <<0>>

(* The block that is copied to arglow, for a program without an            *)
(* interpreter (auxv is its terminator).                                   *)
ArgBlock(args, vvecstart, vstrstart) ==
    <<Len(args.argv), vvecstart, vvecstart + Len(args.argv) + 1,
      vvecstart + Len(args.argv) + 1 + Len(args.envp) + 1>>
    \o VectorOf(args.argv, vstrstart)
    \o VectorOf(args.envp, vstrstart + SumOf(args.argv))
    \o <<0, 0>>
    \o Text(args.argv, 0) \o Text(args.envp, Len(args.argv))

elf32_load_args(args, arglow) ==
    ArgBlock(args, arglow + 4,
             arglow + 4 + Len(args.argv) + 1 + Len(args.envp) + 1 + 2)

-----------------------------------------------------------------------------
(* The steps of an exec.                                                   *)

FreshProcess ==
    [pc |-> "user", kernel |-> TRUE, prog |-> CHOOSE f \in DOMAIN Files : TRUE,
     args |-> [argv |-> <<>>, envp |-> <<>>],
     pmap |-> <<>>, brk |-> 0, pd |-> <<>>, map |-> NoMap,
     vrefs |-> [f \in DOMAIN Files |-> 0], anons |-> <<>>, mem |-> <<>>, arglow |-> 0,
     fds |-> {}, frefs |-> [w \in {"prog", "interp"} |-> 0],
     kept |-> [f \in DOMAIN Files |-> 0], short |-> [f \in DOMAIN Files |-> 0], blank |-> 0,
     kmem |-> [p \in Pointers |-> "null"], err |-> "ok",
     before |-> [pmap |-> <<>>, brk |-> 0]]

ExecInit == ex = FreshProcess /\ nexecs = 0

(* binfmt_load opens the file and looks at its kind.                       *)
do_execve(f, args) ==
    /\ ex.pc = "user" /\ nexecs < MaxExecs
    /\ nexecs' = nexecs + 1
    /\ LET e == [ex EXCEPT !.prog = f, !.args = args, !.err = "ok",
                           !.before = [pmap |-> ex.pmap, brk |-> ex.brk]]
       IN  \/ ex' \in {Go(failed, "return") : failed \in do_open_fails(e)}
           \/ ex' = Go(do_open(e, "prog"), "binfmt")

binfmt_load ==
    /\ ex.pc = "binfmt"
    /\ LET e == fget(ex, "prog")
       IN  ex' = CASE Files[e.prog].kind = "dir" -> [fput(e, "prog") EXCEPT !.pc = "cleanup", !.err = "EISDIR"]
                   [] Files[e.prog].kind = "chr" -> [fput(e, "prog") EXCEPT !.pc = "cleanup", !.err = "EACCES"]
                   [] OTHER -> Go(fget(fput(e, "prog"), "prog"), "ehdr")
    /\ UNCHANGED nexecs

(* A read that fails, a file that is empty, or a header that is not one of *)
(* a program.                                                              *)
elf32_load_ehdr ==
    /\ ex.pc = "ehdr"
    /\ \/ ex' = do_read(ex, "prog", "error at 0")
       \/ /\ ~Reaches(ex.prog, "header")
          /\ ex' = Fail(do_read(ex, "prog", "nothing"), "ENOEXEC")
       \/ /\ Reaches(ex.prog, "header")
          /\ LET e == do_read(ex, "prog", "bytes")
             IN  ex' = IF Files[ex.prog].elf THEN Go(e, "create") ELSE Fail(e, "ENOEXEC")
    /\ UNCHANGED nexecs

vmmap_create ==
    /\ ex.pc = "create"
    /\ \/ ex' = Fail(ex, "ENOMEM")
       \/ ex' = [Go(ex, "pht") EXCEPT !.map = <<>>]
    /\ UNCHANGED nexecs

(* The table of program headers of either file, into the buffer p.         *)
LoadTable(e, which, p, next) ==
    {Fail(e, "ENOMEM"), Fail(do_read(kmalloc(e, p), which, "error"), "EIO"),
     IF Reaches(FileOf(e, which), "table") THEN next
     ELSE Fail(do_read(kmalloc(e, p), which, "nothing"), "ENOEXEC")}

elf32_load_phtable ==
    /\ ex.pc = "pht"
    /\ ex' \in LoadTable(ex, "prog", "pht", Go(do_read(kmalloc(ex, "pht"), "prog", "bytes"), "segs"))
    /\ UNCHANGED nexecs

AfterSegs(e, next) ==
    CASE e.err = "panic" -> Dies(e)
      [] e.err # "ok" /\ e.err # "panic" -> Fail(e, e.err)
      [] OTHER -> Go(e, next)

map_progsegs ==
    /\ ex.pc = "segs" /\ Len(ex.anons) + 2 <= MaxAnons
    /\ \E trouble \in TroublesOf(ex.prog) :
           ex' = AfterSegs(WithMap(ex, elf32_map_progsegs(MapState(ex), ex.prog, 0, trouble)), "interp")
    /\ UNCHANGED nexecs

(* elf32_find_phinterp, and the name of the interpreter.                   *)
find_phinterp ==
    /\ ex.pc = "interp"
    /\ LET n == Len(Files[ex.prog].interps)
       IN  \/ n = 0 /\ ex' = Go(ex, "auxv")
           \/ n > 1 /\ ex' = Fail(ex, "EINVAL")
           \/ n = 1 /\ LET e == kmalloc(ex, "interpname")
                       IN  \/ ex' = Fail(ex, "ENOMEM")
                           \/ ex' = Fail(do_read(e, "prog", "error"), "EIO")
                           \/ ex' = IF Reaches(ex.prog, "name")
                                    THEN Go(do_read(e, "prog", "bytes"), "interpopen")
                                    ELSE Fail(do_read(e, "prog", "nothing"), "ENOEXEC")
    /\ UNCHANGED nexecs

open_interp ==
    /\ ex.pc = "interpopen"
    /\ \/ ex' \in {Go(failed, "done") : failed \in do_open_fails(ex)}
       \/ LET e == kfree(do_open(ex, "interp"), "interpname")
          IN  ex' = Go(fget([e EXCEPT !.kmem["interpname"] = "null"], "interp"), "interphdr")
    /\ UNCHANGED nexecs

load_interp_headers ==
    /\ ex.pc = "interphdr"
    /\ LET f    == FileOf(ex, "interp")
           e    == do_read(ex, "interp", "bytes")
           read == do_read(kmalloc(e, "interppht"), "interp", "bytes")
       IN  \/ ex' = do_read(ex, "interp", "error at 0")
           \/ ~Reaches(f, "header") /\ ex' = Fail(do_read(ex, "interp", "nothing"), "ENOEXEC")
           \/ Reaches(f, "header") /\ ~Files[f].elf /\ ex' = Fail(e, "ENOEXEC")
           \/ /\ Reaches(f, "header") /\ Files[f].elf
              /\ ex' \in LoadTable(e, "interp", "interppht",
                                   IF Files[f].interps # <<>> THEN Fail(read, "EINVAL")
                                   ELSE Go(read, "interpmap"))
    /\ UNCHANGED nexecs

(* A place for the interpreter, its segments there, and six auxiliary      *)
(* entries.                                                                *)
InterpPages(f) == ADDR_TO_PN(PAGE_ALIGN_UP(proghigh(f))) - ADDR_TO_PN(proglow(f))

MapInterp(e, f, base, trouble) ==
    IF base = -1 THEN Fail(e, "ENOMEM")
    ELSE AfterSegs(WithMap(e, elf32_map_progsegs(MapState(e), f, base - ADDR_TO_PN(proglow(f)), trouble)),
                   "auxv")

map_interp ==
    /\ ex.pc = "interpmap" /\ Len(ex.anons) + 2 <= MaxAnons
    /\ LET f == FileOf(ex, "interp")
       IN  \E trouble \in TroublesOf(f) :
               ex' = MapInterp(ex, f, vmmap_find_range(ex.map, InterpPages(f)), trouble)
    /\ UNCHANGED nexecs

(* The auxiliary vector and the stack, right below the program.            *)
map_stack ==
    /\ ex.pc = "auxv" /\ Len(ex.anons) < MaxAnons
    /\ \/ ex' = Fail(ex, "ENOMEM")
       \/ \E trouble \in {"none", "area", "object"} :
              LET e == WithMap(kmalloc(ex, "auxv"),
                               vmmap_map(MapState(ex), "anon",
                                         ADDR_TO_PN(proglow(ex.prog)) - StackPages - 1,
                                         StackPages + 1, TRUE, 0, trouble))
              IN  ex' = IF e.err = "ok" THEN Go(e, "args") ELSE Dies(e)    \* KASSERT(0 == err)
    /\ UNCHANGED nexecs

\* Mutant: the old program's translations stay.
Swapped_keeps_pages(e) ==
    [e EXCEPT !.pmap = e.map, !.map = e.pmap, !.brk = proghigh(e.prog),
              !.pc = "done", !.err = "ok"]

(* The block of arguments, and past the point of no return: the process    *)
(* gets the new map and the loader the old one, to destroy.                *)
Swapped(e) ==
    [e EXCEPT !.pmap = e.map, !.map = e.pmap, !.brk = proghigh(e.prog),
              !.pd = pt_unmap_range(e.pd, UserLow, UserHigh),
              !.pc = "done", !.err = "ok"]

Loaded(e, arglow, block) ==
    IF ~Covered(e.map, arglow, Len(block)) THEN Dies(e)                 \* KASSERT(0 == ret)
    ELSE Swapped([kmalloc(e, "argbuf") EXCEPT !.arglow = arglow,
                                              !.mem = vmmap_write(@, e.map, arglow, block)])

load_args ==
    /\ ex.pc = "args"
    /\ LET argsize == elf32_calc_argsize(ex.args, 0, FALSE)
           arglow  == proglow(ex.prog) - argsize
       IN  IF argsize >= StackPages * PAGE_SIZE THEN ex' = Fail(ex, "E2BIG")
           ELSE \/ ex' = Fail(ex, "ENOMEM")
                \/ ex' = Loaded(ex, arglow, elf32_load_args(ex.args, arglow))
    /\ UNCHANGED nexecs

(* done: whatever is held goes, in this order.  Destroying areas removes   *)
(* them from the list of their object, in which nothing ever put them:     *)
(* what that does is undefined, and crash is one of the ways it ends.      *)
FreeMap(e, stale) ==
    IF e.map = NoMap THEN e
    ELSE LET m == vmmap_destroy(MapState(e), stale)
         IN  IF m.err = "panic" THEN Dies(e)
             ELSE [e EXCEPT !.map = NoMap, !.vrefs = m.vrefs, !.anons = m.anons]

FreeAll(e) ==
    FoldLeft(LAMBDA acc, p : IF acc.kmem[p] = "null" THEN acc ELSE kfree(acc, p),
             e, <<"pht", "interpname", "interppht", "auxv", "argbuf">>)

\* Mutant: the interpreter's file stays open.
CloseInterp_leaves_it(e) == e

CloseInterp(e) ==
    IF "interp" \in e.fds THEN fput(do_close(e, "interp"), "interp") ELSE e

(* What an area without an object may have been left with.  When that is   *)
(* an object of others, it has lost a reference of theirs: nothing that    *)
(* happens then is followed any further.                                   *)
StaleObjects(e) ==
    IF e.map = NoMap \/ ~HasUnset(e.map) THEN {Unset}
    ELSE {Unset} \cup {FileObj(f) : f \in {g \in DOMAIN Files : e.vrefs[g] > 0}}
                 \cup {AnonObj(n) : n \in DOMAIN e.anons}

elf32_done ==
    /\ ex.pc = "done"
    /\ \/ /\ ex.map \notin {NoMap, <<>>}
          /\ ex' = Dies(ex)
       \/ \E stale \in StaleObjects(ex) :
              LET e == FreeAll(CloseInterp(fput(FreeMap(ex, stale), "prog")))
              IN  ex' = CASE e.pc = "panic" -> e
                          [] e.pc # "panic" /\ stale # Unset -> Go(e, "wild")
                          [] OTHER -> Go(e, "cleanup")
    /\ UNCHANGED nexecs

(* The end of binfmt_load, and the return to the caller.  The kernel's own *)
(* exec must not fail.                                                     *)
cleanup ==
    /\ ex.pc = "cleanup"
    /\ ex' = [do_close(ex, "prog") EXCEPT !.pc = "return"]
    /\ UNCHANGED nexecs

(* The loader's pointers are gone: an open file with references left has   *)
(* nobody who could put them back.                                         *)
LeftOpen(e, f) == {w \in DOMAIN e.frefs : e.frefs[w] > 0 /\ FileOf(e, w) = f}

exec_return ==
    /\ ex.pc = "return"
    /\ ex' = IF ex.kernel /\ ex.err # "ok" THEN Dies(ex)
             ELSE [ex EXCEPT !.pc = "user", !.kernel = FALSE,
                             !.kept = [f \in DOMAIN Files |-> @[f] + Cardinality(LeftOpen(ex, f))],
                             !.frefs = [w \in DOMAIN @ |-> 0],
                             !.kmem = [p \in Pointers |-> IF @[p] = "freed" THEN "null" ELSE @[p]]]
    /\ UNCHANGED nexecs

-----------------------------------------------------------------------------
(* The program runs.  A page that is mapped, even for reading, is mapped   *)
(* for writing; an access to one that is not faults.  When no frame or no  *)
(* table is to be had nothing changes and the access faults again.         *)
handle_pagefault(vfn, write) ==
    /\ ex.pc = "user" /\ ~ex.kernel /\ pt_entry(ex.pd, vfn) = {}
    /\ LET i == vmmap_lookup(ex.pmap, vfn)
       IN  ex' = IF i # 0 /\ (write => ex.pmap[i].write)
                 THEN [ex EXCEPT !.pd = pt_map(@, vfn, PageOf(ex.pmap[i], vfn))]
                 ELSE [ex EXCEPT !.pc = "dead"]               \* proc_kill
    /\ UNCHANGED nexecs

(* The parent reaps the process: the directory goes with its tables, the   *)
(* map is not destroyed.                                                   *)
pt_destroy_pagedir ==
    /\ ex.pc = "dead"
    /\ ex' = [ex EXCEPT !.pc = "reaped", !.pd = <<>>]
    /\ UNCHANGED nexecs

ExecNext ==
    \/ \E f \in DOMAIN Files, args \in ArgLists : do_execve(f, args)
    \/ binfmt_load \/ elf32_load_ehdr \/ vmmap_create \/ elf32_load_phtable
    \/ map_progsegs \/ find_phinterp \/ open_interp \/ load_interp_headers
    \/ map_interp \/ map_stack \/ load_args \/ elf32_done \/ cleanup \/ exec_return
    \/ \E vfn \in TouchedPages, write \in BOOLEAN : handle_pagefault(vfn, write)
    \/ pt_destroy_pagedir

-----------------------------------------------------------------------------
AreasOf(areas, f) == {i \in DOMAIN areas : areas[i].obj = FileObj(f)}

\* An exec that fails, at whichever step, leaves the process's map and break as
\* they were; one that succeeds replaces both.  Either way every descriptor, open
\* file, kernel buffer and map the loader took is given back once, and a vnode
\* keeps one reference for each area that maps it (elf32_load's "done",
\* binfmt_load's "cleanup"), with two exceptions: a read that gave no byte keeps
\* the file open once (do_read, vfs_syscall.c:67-72), and a do_open that failed
\* keeps a file_t (open.c:108-117).  No exec leaves more than one of the two.
ExecIsAllOrNothing ==
    nexecs > 0 /\ ex.pc \in {"user", "dead", "reaped"} =>
        /\ ex.err # "ok" => ex.pmap = ex.before.pmap /\ ex.brk = ex.before.brk
        /\ (ex.err = "ok" /\ ~ex.kernel) => ex.brk = proghigh(ex.prog)
        /\ ex.fds = {} /\ ex.map = NoMap
        /\ ex.kept = ex.short
        /\ ex.blank + MapThenSumSet(LAMBDA f : ex.kept[f], DOMAIN Files) <= nexecs
        /\ \A p \in Pointers : ex.kmem[p] # "live"
        /\ \A f \in DOMAIN Files : ex.vrefs[f] = Cardinality(AreasOf(ex.pmap, f)) + ex.kept[f]

\* Known deviation: an exec that fails holds no file open afterwards.
ExecKeepsNoFile == ex.blank = 0 /\ \A f \in DOMAIN Files : ex.kept[f] = 0

WordAt(a) ==
    LET i == vmmap_lookup(ex.pmap, ADDR_TO_PN(a))
    IN  ex.mem[PageOf(ex.pmap[i], ADDR_TO_PN(a))][PAGE_OFFSET(a)]

\* The vector at vec points to the strings, and ends with a null pointer.
Spelled(vec, lens, k0) ==
    /\ \A k \in DOMAIN lens : \A j \in 1 .. lens[k] :
           WordAt(WordAt(vec + k - 1) + j - 1) = Char(k0 + k, j)
    /\ WordAt(vec + Len(lens)) = 0

ArgumentsAreWhereTheyPoint(argsize) ==
    (/\ ex.err = "ok" /\ argsize <= PAGE_SIZE
     /\ PAGE_OFFSET(proglow(ex.prog)) = 0) =>
        /\ WordAt(ex.arglow) = Len(ex.args.argv)
        /\ Spelled(WordAt(ex.arglow + 1), ex.args.argv, 0)
        /\ Spelled(WordAt(ex.arglow + 2), ex.args.envp, Len(ex.args.argv))
        /\ ex.arglow + argsize <= proglow(ex.prog)

TranslationsFollowTheMap ==
    \A vfn \in UserLow .. UserHigh - 1 :
        \A target \in pt_entry(ex.pd, vfn) :
            LET i == vmmap_lookup(ex.pmap, vfn)
            IN  i # 0 /\ PageOf(ex.pmap[i], vfn) = target

\* A program finds argc where it starts, and vectors whose pointers lead to the
\* strings exec was given, inside the block below the program: the sizes of
\* elf32_calc_argsize and the places of elf32_load_args agree.  (For a program
\* that begins on a page boundary and arguments of at most a page; vmmap_write
\* misplaces longer ones.)  And the page tables never lead it to a page that its
\* map does not name for that address: not after another program was loaded over
\* it (pt_unmap_range), nor after an exec that failed.
ProgramFindsItsMemory ==
    (ex.pc = "user" /\ ~ex.kernel) =>
        /\ ArgumentsAreWhereTheyPoint(elf32_calc_argsize(ex.args, 0, FALSE))
        /\ TranslationsFollowTheMap
=============================================================================

------------------------------- MODULE Vnode --------------------------------
(***************************************************************************)
(* The vnode cache of kernel/fs/vnode.c over a file system whose           *)
(* read_vnode and delete_vnode block (s5fs, external), with the pages that *)
(* vnodes have in the page cache, the page-out daemon, and the shutdown of *)
(* the file system.                                                        *)
(*                                                                         *)
(* The kernel is not preemptive: `vncpu` keeps the CPU until it blocks.  A *)
(* thread is the stack of the calls it is in, innermost last, because      *)
(* pframe_free calls vput, which frees pages and vnodes in turn.  The slab *)
(* leaves freed objects as they are: a pointer to a freed frame or vnode   *)
(* finds pf_obj = NULL and a link of NULLs, or what took its place.        *)
(***************************************************************************)
EXTENDS Lists, FiniteSets

CONSTANTS
    VnCallers,      \* threads that use files
    VnInodes,       \* inode numbers; RootIno is the root directory
    VnSlots,        \* the vnode_t's the slab allocator can hand out
    VnFrames,       \* the pframe_t's
    MaxHeld,        \* bound: references that the callers hold together
    MaxLinks        \* bound: how often a file is given a name

RootIno == 0
Idle == "idle"
VnPageoutd == "pageoutd"
VnThreads == VnCallers \cup {Idle, VnPageoutd}

ASSUME VnodeAssumption ==
    /\ VnCallers \cap {Idle, VnPageoutd, "none"} = {}
    /\ RootIno \in VnInodes
    /\ VnSlots \subseteq Nat \ {0} /\ 1 \in VnSlots
    /\ VnFrames \subseteq Nat \ {0}

VARIABLES
    vnode,      \* vnode[v]: [ino, busy, refs, nres, pages]
    inuse,      \* vnode_inuse_list, head first
    frame,      \* frame[f]: [obj, busy, dirty]; obj = 0 when it is free
    disk,       \* disk[i]: the inode is free, unlinked or linked
    held,       \* held[t][v]: the references to v that t got and has not put
    stack,      \* stack[t]: the calls that t is in
    asleep,     \* what t sleeps on
    vncpu,      \* the thread that has the CPU
    vnup,       \* FALSE once vfs_shutdown was called
    nlinks,     \* how often a file was given a name
    raced,      \* the daemon has worked during an eviction or the shutdown
    vnpanic     \* a KASSERT has failed or a wild pointer was followed

vnodeVars == <<vnode, inuse, frame, disk, held, stack, asleep, vncpu, vnup, nlinks, raced, vnpanic>>

FreeVnode == [ino |-> RootIno, busy |-> FALSE, refs |-> 0, nres |-> 0, pages |-> <<>>]
FreePframe == [obj |-> 0, busy |-> FALSE, dirty |-> FALSE]
RootSlot == 1

VnodeInit ==
    /\ vnode = [v \in VnSlots |-> IF v = RootSlot THEN [FreeVnode EXCEPT !.refs = 1] ELSE FreeVnode]
    /\ inuse = <<RootSlot>>
    /\ frame = [f \in VnFrames |-> FreePframe]
    /\ disk = [i \in VnInodes |-> IF i = RootIno THEN "linked" ELSE "free"]
    /\ held = [t \in VnCallers |-> [v \in VnSlots |-> 0]]
    /\ stack = [t \in VnThreads |-> <<>>]
    /\ asleep = [t \in VnThreads |-> <<>>]
    /\ vncpu = "none" /\ vnup = TRUE /\ nlinks = 0
    /\ raced = FALSE /\ vnpanic = FALSE
-----------------------------------------------------------------------------
(***************************************************************************)
(* Threads.  In a call, `x` is the inode, vnode or frame it is about and   *)
(* `link` the place in the list it walks: a frame or vnode is its own      *)
(* link, -v is the head of the list of pages in vnode v, EndOfVnodes that  *)
(* of vnode_inuse_list, and 0 is NULL.                                     *)
(***************************************************************************)
CallOf(op, x) == [op |-> op, x |-> x, link |-> 0, next |-> 0]
WalkOf(op, x, link) == [op |-> op, x |-> x, link |-> link, next |-> 0]
EndOfVnodes == -1

VnWaitq(v) == <<"vn_waitq", v>>
PfQueue(f) == <<"pf_waitq", f>>
Woken(q) == [t \in VnThreads |-> IF asleep[t] = q THEN <<>> ELSE asleep[t]]

\* t has the CPU, or may be given it.
Runs(t) == vncpu \in {t, "none"} /\ asleep[t] = <<>> /\ ~ vnpanic
Call(t) == stack[t][Len(stack[t])]
In(t, op) == stack[t] # <<>> /\ Call(t).op = op /\ Runs(t)
Outside(t) == stack[t] = <<>> /\ Runs(t)

Held(t) == {v \in VnSlots : held[t][v] > 0}
MayHold ==
    Cardinality({r \in VnCallers \X VnSlots \X (1 .. MaxHeld) : r[3] <= held[r[1]][r[2]]}) < MaxHeld

\* The calls of t when the innermost one goes on as `call`.
Now(t, call) == [stack[t] EXCEPT ![Len(stack[t])] = call]

\* The thread is in `calls` now, and keeps the CPU or waits for the disk.
Continue(t, calls) == stack' = [stack EXCEPT ![t] = calls] /\ vncpu' = t
BlockIn(t, calls) == stack' = [stack EXCEPT ![t] = calls] /\ vncpu' = "none"

\* The innermost call returns.
LeaveCall(t) ==
    /\ stack' = [stack EXCEPT ![t] = SubSeq(@, 1, Len(@) - 1)]
    /\ vncpu' = IF Len(stack[t]) > 1 THEN t ELSE "none"

sched_sleep_on(t, q) == asleep' = [asleep EXCEPT ![t] = q] /\ vncpu' = "none" /\ UNCHANGED stack

KASSERT(c) == vnpanic' = ~ c
-----------------------------------------------------------------------------
(***************************************************************************)
(* vget                                                                    *)
(***************************************************************************)
\* The first vnode on the list that is for inode i, if there is one.
Cached(i) ==
    {inuse[k] : k \in {k \in DOMAIN inuse : /\ vnode[inuse[k]].ino = i
                                           /\ \A j \in 1 .. k - 1 : vnode[inuse[j]].ino # i}}

\* Being brought in or on its way out: sleep, then look again.
vget_busy(t) ==
    /\ In(t, "vget")
    /\ \E v \in Cached(Call(t).x) : vnode[v].busy /\ sched_sleep_on(t, VnWaitq(v))
    /\ UNCHANGED <<vnode, inuse, frame, disk, held, vnup, nlinks, vnpanic>>

vget_found(t) ==
    /\ In(t, "vget")
    /\ \E v \in Cached(Call(t).x) :
        /\ ~ vnode[v].busy
        /\ KASSERT(vnode[v].refs > 0)
        /\ vnode' = [vnode EXCEPT ![v].refs = @ + 1]
        /\ held' = [held EXCEPT ![t][v] = @ + 1]
    /\ LeaveCall(t)
    /\ UNCHANGED <<inuse, frame, disk, asleep, vnup, nlinks>>

\* No memory for a vnode: yield, then look again.
vget_yields(t) ==
    /\ In(t, "vget") /\ Cached(Call(t).x) = {} /\ VnSlots = Range(inuse)
    /\ BlockIn(t, stack[t])
    /\ UNCHANGED <<vnode, inuse, frame, disk, held, asleep, vnup, nlinks, vnpanic>>

\* Busy and on the list before read_vnode blocks.
vget_new(t, v) ==
    /\ In(t, "vget") /\ Cached(Call(t).x) = {} /\ v \notin Range(inuse)
    /\ vnode' = [vnode EXCEPT ![v] = [FreeVnode EXCEPT !.ino = Call(t).x, !.busy = TRUE]]
    /\ inuse' = <<v>> \o inuse
    /\ BlockIn(t, Now(t, CallOf("read", v)))
    /\ UNCHANGED <<frame, disk, held, asleep, vnup, nlinks, vnpanic>>

\* After read_vnode: no longer busy, and nobody is woken.
vget_read(t) ==
    LET v == Call(t).x
    IN  /\ In(t, "read")
        /\ vnode' = [vnode EXCEPT ![v].busy = FALSE, ![v].refs = 1]
        /\ held' = [held EXCEPT ![t][v] = @ + 1]
        /\ LeaveCall(t)
        /\ UNCHANGED <<inuse, frame, disk, asleep, vnup, nlinks, vnpanic>>
-----------------------------------------------------------------------------
(***************************************************************************)
(* vput and pframe_free, which call each other.                            *)
(***************************************************************************)
query_vnode(v) == disk[vnode[v].ino] = "linked"

FirstPage(v) == IF vnode[v].pages = <<>> THEN -v ELSE Head(vnode[v].pages)

\* The link after that of frame f, on whichever list f is now.
PageAfter(f) ==
    LET v == frame[f].obj
        i == CHOOSE k \in DOMAIN vnode[v].pages : vnode[v].pages[k] = f
    IN  IF v = 0 THEN 0 ELSE IF i = Len(vnode[v].pages) THEN -v ELSE vnode[v].pages[i + 1]

\* Mutant: the vnode is not marked busy before delete_vnode.
Unref_not_busy(t, v, sound) ==
    /\ KASSERT(sound /\ (vnode[v].refs = 1 => vnode[v].nres = 0))
    /\ vnode' = [vnode EXCEPT ![v].refs = @ - 1]
    /\ IF vnode[v].refs > 1 THEN LeaveCall(t) ELSE BlockIn(t, Now(t, CallOf("delete", v)))
    /\ UNCHANGED <<inuse, frame, disk, held, asleep, vnup, nlinks>>

\* The end of vput: one reference less; at the last, delete_vnode may block.
Unref(t, v, sound) ==
    /\ KASSERT(sound /\ (vnode[v].refs = 1 => vnode[v].nres = 0))
    /\ IF vnode[v].refs > 1
       THEN vnode' = [vnode EXCEPT ![v].refs = @ - 1] /\ LeaveCall(t)
       ELSE /\ vnode' = [vnode EXCEPT ![v].refs = 0, ![v].busy = TRUE]
            /\ BlockIn(t, Now(t, CallOf("delete", v)))
    /\ UNCHANGED <<inuse, frame, disk, held, asleep, vnup, nlinks>>

vput(t) ==
    LET v == Call(t).x
        sound == 0 <= vnode[v].nres /\ vnode[v].nres < vnode[v].refs /\ ~ vnode[v].busy
    IN  /\ In(t, "vput")
        /\ IF vnode[v].nres = vnode[v].refs - 1 /\ ~ query_vnode(v)
           THEN /\ KASSERT(sound)
                /\ Continue(t, Now(t, WalkOf("evict", v, FirstPage(v))))
                /\ UNCHANGED <<vnode, inuse, frame, disk, held, asleep, vnup, nlinks>>
           ELSE Unref(t, v, sound)

\* The page leaves the cache and its vnode is put; then the thread is in `calls`.
\* `sound` is what the caller asserts of the page.
pframe_free(t, f, sound, calls) ==
    LET v == frame[f].obj
    IN  IF v = 0 \/ frame[f].busy \/ ~ sound
        THEN KASSERT(FALSE) /\ UNCHANGED <<vnode, frame, stack, vncpu>>
        ELSE /\ frame' = [frame EXCEPT ![f] = FreePframe]
             /\ vnode' = [vnode EXCEPT ![v].nres = @ - 1, ![v].pages = list_remove(@, f)]
             /\ Continue(t, Append(calls, CallOf("vput", v)))
             /\ UNCHANGED vnpanic

\* The head of the loop over mmo_respages: the link after the page is read before
\* the page is waited for.  The head of another list is no page.
evict_next(t) ==
    LET call == Call(t)
        v == call.x
    IN  /\ In(t, "evict")
        /\ IF call.link > 0
           THEN /\ Continue(t, Now(t, [call EXCEPT !.op = "page", !.next = PageAfter(call.link)]))
                /\ UNCHANGED <<vnode, inuse, frame, disk, held, asleep, vnup, nlinks, vnpanic>>
           ELSE Unref(t, v, call.link = -v /\ vnode[v].nres = 0 /\ vnode[v].refs = 1)

evict_waits(t) ==
    /\ In(t, "page") /\ frame[Call(t).link].busy
    /\ sched_sleep_on(t, PfQueue(Call(t).link))
    /\ UNCHANGED <<vnode, inuse, frame, disk, held, vnup, nlinks, vnpanic>>

evict_frees(t) ==
    /\ In(t, "page") /\ ~ frame[Call(t).link].busy
    /\ pframe_free(t, Call(t).link, TRUE, Now(t, WalkOf("evict", Call(t).x, Call(t).next)))
    /\ UNCHANGED <<inuse, disk, held, asleep, vnup, nlinks>>

\* After delete_vnode, which frees the inode of a file that has no name.
vput_deleted(t) ==
    LET v == Call(t).x
    IN  /\ In(t, "delete")
        /\ disk' = [disk EXCEPT ![vnode[v].ino] = IF query_vnode(v) THEN @ ELSE "free"]
        /\ asleep' = Woken(VnWaitq(v))
        /\ inuse' = list_remove(inuse, v)
        /\ vnode' = [vnode EXCEPT ![v] = FreeVnode]
        /\ LeaveCall(t)
        /\ UNCHANGED <<frame, held, vnup, nlinks, vnpanic>>
-----------------------------------------------------------------------------
(***************************************************************************)
(* What threads do with vnodes between vget and vput, and what s5fs does   *)
(* below them.                                                             *)
(***************************************************************************)
\* A name is looked up, or a free inode is taken for a new file.
get_file(t, i) ==
    /\ Outside(t) /\ vnup /\ MayHold /\ disk[i] # "unlinked"
    /\ disk' = [disk EXCEPT ![i] = IF @ = "free" THEN "unlinked" ELSE @]
    /\ Continue(t, <<CallOf("vget", i)>>)
    /\ UNCHANGED <<vnode, inuse, frame, held, asleep, vnup, nlinks, vnpanic>>

\* The file gets its name, or loses it.
link_file(t, v) ==
    LET i == vnode[v].ino
    IN  /\ Outside(t) /\ vncpu = "none" /\ v \in Held(t) /\ i # RootIno /\ disk[i] # "free"
        /\ IF query_vnode(v) THEN UNCHANGED nlinks ELSE nlinks < MaxLinks /\ nlinks' = nlinks + 1
        /\ disk' = [disk EXCEPT ![i] = IF query_vnode(v) THEN "unlinked" ELSE "linked"]
        /\ UNCHANGED <<vnode, inuse, frame, held, stack, asleep, vncpu, vnup, vnpanic>>

vref(t, v) ==
    /\ Outside(t) /\ v \in Held(t) /\ MayHold
    /\ KASSERT(vnode[v].refs > 0)
    /\ vnode' = [vnode EXCEPT ![v].refs = @ + 1]
    /\ held' = [held EXCEPT ![t][v] = @ + 1]
    /\ UNCHANGED <<inuse, frame, disk, stack, asleep, vncpu, vnup, nlinks>>

put_file(t, v) ==
    /\ Outside(t) /\ v \in Held(t)
    /\ held' = [held EXCEPT ![t][v] = @ - 1]
    /\ Continue(t, <<CallOf("vput", v)>>)
    /\ UNCHANGED <<vnode, inuse, frame, disk, asleep, vnup, nlinks, vnpanic>>

\* pframe_alloc of another page of the file, then pframe_fill waits for the disk.
get_page(t, v, f) ==
    /\ Outside(t) /\ v \in Held(t) /\ frame[f].obj = 0
    /\ frame' = [frame EXCEPT ![f] = [obj |-> v, busy |-> TRUE, dirty |-> FALSE]]
    /\ KASSERT(vnode[v].refs > 0)
    /\ vnode' = [vnode EXCEPT ![v].refs = @ + 1, ![v].nres = @ + 1, ![v].pages = <<f>> \o @]
    /\ BlockIn(t, <<CallOf("io", f)>>)
    /\ UNCHANGED <<inuse, disk, held, asleep, vnup, nlinks>>

dirty_page(t, f) ==
    /\ Outside(t) /\ t \in VnCallers /\ frame[f].obj \in Held(t) /\ ~ frame[f].busy
    /\ frame' = [frame EXCEPT ![f].dirty = TRUE]
    /\ UNCHANGED <<vnode, inuse, disk, held, stack, asleep, vncpu, vnup, nlinks, vnpanic>>

\* pframe_clean up to the write, from a thread that is then in `calls`.
pframe_clean(t, f, calls) ==
    /\ frame' = [frame EXCEPT ![f].dirty = FALSE, ![f].busy = TRUE]
    /\ BlockIn(t, Append(calls, CallOf("io", f)))
    /\ UNCHANGED <<vnode, inuse, disk, held, asleep, vnup, nlinks, vnpanic>>

\* The ends of pframe_fill and pframe_clean.
io_done(t) ==
    LET f == Call(t).x
    IN  /\ In(t, "io")
        /\ frame' = [frame EXCEPT ![f].busy = FALSE]
        /\ asleep' = Woken(PfQueue(f))
        /\ LeaveCall(t)
        /\ UNCHANGED <<vnode, inuse, disk, held, vnup, nlinks, vnpanic>>

\* One turn of pageoutd_run; any page may be the least recently requested one.
pageoutd_run(f) ==
    /\ Outside(VnPageoutd) /\ frame[f].obj # 0 /\ ~ frame[f].busy
    /\ IF frame[f].dirty
       THEN pframe_clean(VnPageoutd, f, <<>>)
       ELSE pframe_free(VnPageoutd, f, TRUE, <<>>) /\ UNCHANGED <<inuse, disk, held, asleep, vnup, nlinks>>
-----------------------------------------------------------------------------
(***************************************************************************)
(* vfs_shutdown, called by the idle process when the others are gone; the  *)
(* page-out daemon still runs.  s5fs_umount flushes all vnodes and puts    *)
(* the root.                                                               *)
(***************************************************************************)
Active(v) == vnode[v].refs - vnode[v].nres

\* Only the root is in use, by the file system itself.
vfs_is_in_use == \E v \in Range(inuse) : IF v = RootSlot THEN Active(v) > 1 ELSE Active(v) # 0

vfs_shutdown ==
    /\ Outside(Idle) /\ vnup
    /\ \A t \in VnCallers : stack[t] = <<>> /\ Held(t) = {}
    /\ vnup' = FALSE
    /\ KASSERT(~ vfs_is_in_use /\ \A v \in Range(inuse) : Active(v) >= IF v = RootSlot THEN 1 ELSE 0)
    /\ Continue(Idle, <<CallOf("flush", 0)>>)
    /\ UNCHANGED <<vnode, inuse, frame, disk, held, asleep, nlinks>>

Dirty == {f \in VnFrames : frame[f].dirty}

\* vnode_flush_all writes one dirty page after another and starts over each time.
\* A write that failed would stop the kernel here (KASSERT(!err)); this disk has no
\* errors.
flush_cleans ==
    /\ In(Idle, "flush")
    /\ \E f \in Dirty : pframe_clean(Idle, f, stack[Idle])

flush_cleaned ==
    /\ In(Idle, "flush") /\ Dirty = {}
    /\ Continue(Idle, <<WalkOf("vnodes", 0, Head(inuse))>>)
    /\ UNCHANGED <<vnode, inuse, frame, disk, held, asleep, vnup, nlinks, vnpanic>>

VnodeAfter(v) ==
    LET i == CHOOSE k \in DOMAIN inuse : inuse[k] = v
    IN  IF i = Len(inuse) THEN EndOfVnodes ELSE inuse[i + 1]

\* The second loop over the vnodes; the link after the vnode is read before its
\* pages are freed.  A vnode that was freed meanwhile has no link.  After the loop
\* the root is put.
flush_vnode ==
    LET v == Call(Idle).link
    IN  /\ In(Idle, "vnodes")
        /\ KASSERT(v \in Range(inuse) \cup {EndOfVnodes})
        /\ Continue(Idle, IF v \in Range(inuse)
                          THEN <<WalkOf("vnodes", 0, VnodeAfter(v)), WalkOf("uncache", v, FirstPage(v))>>
                          ELSE <<CallOf("halt", 0), CallOf("vput", RootSlot)>>)
        /\ UNCHANGED <<vnode, inuse, frame, disk, held, asleep, vnup, nlinks>>

flush_page ==
    LET call == Call(Idle)
    IN  /\ In(Idle, "uncache")
        /\ IF call.link > 0
           THEN pframe_free(Idle, call.link, ~ frame[call.link].dirty,
                            Now(Idle, WalkOf("uncache", call.x, PageAfter(call.link))))
           ELSE LeaveCall(Idle) /\ UNCHANGED <<vnode, frame, vnpanic>>
        /\ UNCHANGED <<inuse, disk, held, asleep, vnup, nlinks>>

\* KASSERT(!vnode_inuse(fs)) at the end of vfs_shutdown.
vnode_inuse ==
    /\ In(Idle, "halt")
    /\ KASSERT(inuse = <<>>)
    /\ LeaveCall(Idle)
    /\ UNCHANGED <<vnode, inuse, frame, disk, held, asleep, vnup, nlinks>>
-----------------------------------------------------------------------------
VnodeStep(t) ==
    \/ vget_busy(t) \/ vget_found(t) \/ vget_yields(t) \/ (\E v \in VnSlots : vget_new(t, v)) \/ vget_read(t)
    \/ vput(t) \/ evict_next(t) \/ evict_waits(t) \/ evict_frees(t) \/ vput_deleted(t)
    \/ io_done(t)

VnodeUse(t) ==
    \/ \E i \in VnInodes : get_file(t, i)
    \/ \E v \in VnSlots : link_file(t, v) \/ vref(t, v) \/ put_file(t, v)
    \/ \E f \in VnFrames : dirty_page(t, f) \/ \E v \in VnSlots : get_page(t, v, f)

VnodeActions ==
    \/ \E t \in VnThreads : VnodeStep(t)
    \/ \E t \in VnCallers : VnodeUse(t)
    \/ \E f \in VnFrames : pageoutd_run(f)
    \/ vfs_shutdown \/ flush_cleans \/ flush_cleaned \/ flush_vnode \/ flush_page \/ vnode_inuse

\* The vnode that the page-out daemon has a page of in work, or puts.
DaemonsVnode == LET call == Call(VnPageoutd) IN IF call.op = "io" THEN frame[call.x].obj ELSE call.x

\* The daemon works on a vnode that loses its pages, or while the system shuts down.
Race ==
    /\ stack[VnPageoutd] # <<>>
    /\ \/ stack[Idle] # <<>>
       \/ \E t \in VnCallers : \E i \in DOMAIN stack[t] :
             stack[t][i].op \in {"evict", "page"} /\ stack[t][i].x = DaemonsVnode

VnodeNext == VnodeActions /\ raced' = (raced \/ Race')
VnodeSpec == VnodeInit /\ [][VnodeNext]_vnodeVars
-----------------------------------------------------------------------------
\* The references to v that somebody still has to put: those that threads hold or
\* are putting, and the file system's own to its root.
Holders(v) == UNION {{t} \X (1 .. held[t][v]) : t \in VnCallers}

Puts(call, v) == call.op \in {"vput", "evict", "page"} /\ call.x = v
Putters(v) == UNION {{t} \X {k \in DOMAIN stack[t] : Puts(stack[t][k], v)} : t \in VnThreads}

Mounted == vnup \/ \E k \in DOMAIN stack[Idle] : stack[Idle][k].op \in {"flush", "vnodes"}

Refs(v) ==
    Cardinality(Holders(v)) + Cardinality(Putters(v)) + IF v = RootSlot /\ Mounted THEN 1 ELSE 0

\* However vgets, vputs, page-ins and page-outs of several threads interleave with
\* read_vnode and delete_vnode under way: a file has at most one vnode; vn_refcount
\* is the number of references that somebody still has to put and of the resident
\* pages, which are those on mmo_respages; a vnode that is referenced is on
\* vnode_inuse_list, and neither being read nor deleted; and no KASSERT of vref,
\* vput, vfs_shutdown and pframe_free fails, nor is a freed link followed, unless
\* the page-out daemon worked on a vnode while vput took its pages away, or during
\* the shutdown.
VnodesAreCounted ==
    /\ \A i, j \in DOMAIN inuse : vnode[inuse[i]].ino = vnode[inuse[j]].ino => i = j
    /\ \A v \in VnSlots : ~ vnpanic =>
        /\ vnode[v].refs = Refs(v) + vnode[v].nres
        /\ vnode[v].nres = Len(vnode[v].pages)
        /\ Range(vnode[v].pages) = {f \in VnFrames : frame[f].obj = v}
        /\ vnode[v].refs > 0 => v \in Range(inuse) /\ ~ vnode[v].busy
    /\ vnpanic => raced
-----------------------------------------------------------------------------
(***************************************************************************)
(* What the comments say and the code does not keep.                       *)
(***************************************************************************)
\* "queue of threads waiting for vnode to become not busy" (vnode.h): nobody sleeps
\* on the vn_waitq of a vnode that is not busy.
SleepersWaitForBusy ==
    \A t \in VnThreads, v \in VnSlots : asleep[t] = VnWaitq(v) => vnode[v].busy

\* "Obtain a vnode representing the file that filesystem 'fs' identifies by inode
\* number" (vnode.h): the file of a vnode that vget returned still exists.
HeldFilesExist ==
    \A t \in VnCallers : \A v \in Held(t) : disk[vnode[v].ino] # "free"

\* "Wait for the page to become not busy" (vnode.c): after the wait the page is
\* still there, and no KASSERT fails also while the daemon works.
NoVnodePanic == ~ vnpanic
=============================================================================

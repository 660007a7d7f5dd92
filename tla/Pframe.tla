------------------------------- MODULE Pframe --------------------------------
(***************************************************************************)
(* The page cache of kernel/mm/pframe.c for the pages of a block device,   *)
(* with the page-out daemon, threads that get, pin, dirty and unpin pages, *)
(* and sync.                                                               *)
(*                                                                         *)
(* The kernel is not preemptive: `running` keeps the CPU until it blocks.  *)
(* A thread blocks on the pf_waitq of a frame, on alloc_waitq, on          *)
(* pageoutd_waitq or in the disk driver (block I/O, external here), and    *)
(* any thread that does not sleep may run next.                            *)
(***************************************************************************)
EXTENDS Lists, FiniteSets

CONSTANTS
    Clients,       \* threads that use pages
    Pageoutd,      \* the thread of the page-out daemon
    Pages,         \* page numbers of the device
    Frames,        \* page frames, free and in use
    NoPage,        \* pf_obj = NULL: the frame is free
    NoFrame, Nobody,
    MaxWrites,     \* bound: how often a clean page is made dirty
    MaxErrors,     \* bound: how many disk operations fail
    MaxDrift       \* bound: pages are pinned only while npinned > -MaxDrift

ASSUME PframeAssumption ==
    /\ IsFiniteSet(Clients) /\ Pageoutd \notin Clients /\ Nobody \notin Clients \cup {Pageoutd}
    /\ NoPage \notin Pages /\ NoFrame \notin Frames
    /\ MaxWrites \in Nat /\ MaxErrors \in Nat /\ MaxDrift \in Nat

VARIABLES
    pf,            \* pf[f]: [page, busy, dirty, pins]
    alloc_list,    \* the frames of alloc_list, head first
    pinned_list,   \* the frames of pinned_list
    hash,          \* hash[p]: the frames with page p on the hash chain, head first
    nallocated, npinned,
    pc,            \* where each thread is
    res,           \* res[t]: the frame thread t works on
    want,          \* want[t]: the page thread t asked for
    wchan,         \* what a thread sleeps on
    running,
    valid,         \* frames whose contents were read from the device
    unsaved,       \* frames with contents that the device does not have
    writes,        \* how often a clean page was made dirty
    errors,        \* disk operations that have failed
    asserts        \* TRUE while no KASSERT has failed

lists == <<alloc_list, pinned_list, hash, nallocated, npinned>>
vars == <<pf, lists, pc, res, want, wchan, running, valid, unsaved, writes, errors, asserts>>

Threads == Clients \cup {Pageoutd}
FrameState == [page : Pages \cup {NoPage}, busy : BOOLEAN, dirty : BOOLEAN, pins : 0 .. Cardinality(Clients)]
Stations == {"idle", "get", "busywait", "allocwait", "filling", "has", "pinned",
             "sync", "syncing", "loop", "cleaning"}

\* What threads sleep on.
PfWaitq(f) == <<"pf_waitq", f>>
Awake == <<"awake", NoFrame>>
AllocWaitq == <<"alloc_waitq", NoFrame>>
PageoutdWaitq == <<"pageoutd_waitq", NoFrame>>
Disk == <<"disk", NoFrame>>
Wchans == {PfWaitq(f) : f \in Frames} \cup {Awake, AllocWaitq, PageoutdWaitq, Disk}

FreeFrame == [page |-> NoPage, busy |-> FALSE, dirty |-> FALSE, pins |-> 0]
FreeFrames == {f \in Frames : pf[f].page = NoPage}
page_free_count == Cardinality(FreeFrames)
nfreepages_min == 0
nfreepages_target == Cardinality(Frames) \div 2
pageoutd_needed == page_free_count <= nfreepages_min /\ alloc_list # << >>
pageoutd_target_met == page_free_count >= nfreepages_target

TypeOK ==
    /\ pf \in [Frames -> FrameState]
    /\ alloc_list \in Seq(Frames)
    /\ pinned_list \subseteq Frames
    /\ hash \in [Pages -> Seq(Frames)]
    /\ nallocated \in Int /\ npinned \in Int
    /\ pc \in [Threads -> Stations]
    /\ res \in [Threads -> Frames \cup {NoFrame}]
    /\ want \in [Threads -> Pages \cup {NoPage}]
    /\ wchan \in [Threads -> Wchans]
    /\ running \in Threads \cup {Nobody}
    /\ valid \subseteq Frames /\ unsaved \subseteq Frames
    /\ errors \in 0 .. MaxErrors /\ writes \in 0 .. MaxWrites
    /\ asserts \in BOOLEAN

Init ==
    /\ pf = [f \in Frames |-> FreeFrame]
    /\ alloc_list = << >> /\ pinned_list = {}
    /\ hash = [p \in Pages |-> << >>]
    /\ nallocated = 0 /\ npinned = 0
    /\ pc = [t \in Threads |-> IF t = Pageoutd THEN "loop" ELSE "idle"]
    /\ res = [t \in Threads |-> NoFrame]
    /\ want = [t \in Threads |-> NoPage]
    /\ wchan = [t \in Threads |-> Awake]
    /\ running = Nobody
    /\ valid = {} /\ unsaved = {}
    /\ errors = 0 /\ writes = 0
    /\ asserts = TRUE
-----------------------------------------------------------------------------
Broadcast(queues) == [t \in Threads |-> IF wchan[t] \in queues THEN Awake ELSE wchan[t]]

\* Thread t goes to sleep on q.
SleepOn(t, q) == wchan' = [wchan EXCEPT ![t] = q] /\ running' = Nobody

At(t, station) == running = t /\ pc[t] = station /\ asserts
Goto(t, station) == pc' = [pc EXCEPT ![t] = station]

Dispatch(t) ==
    /\ running = Nobody /\ wchan[t] = Awake /\ pc[t] # "idle" /\ asserts
    /\ running' = t
    /\ UNCHANGED <<pf, lists, pc, res, want, wchan, valid, unsaved, writes, errors, asserts>>

\* The disk interrupt wakes the thread whose operation is done.
DiskDone(t) ==
    /\ wchan[t] = Disk /\ asserts
    /\ wchan' = [wchan EXCEPT ![t] = Awake]
    /\ UNCHANGED <<pf, lists, pc, res, want, running, valid, unsaved, writes, errors, asserts>>

\* A disk operation returns with or without an error.
Result(ok) ==
    /\ ok \/ errors < MaxErrors
    /\ errors' = IF ok THEN errors ELSE errors + 1
-----------------------------------------------------------------------------
(***************************************************************************)
(* pframe_get                                                              *)
(***************************************************************************)
Arrive(t, station) ==
    /\ running = Nobody /\ asserts
    /\ pc[t] = "idle" /\ Goto(t, station)
    /\ running' = t

Call(t, p) ==
    /\ Arrive(t, "get")
    /\ want' = [want EXCEPT ![t] = p]
    /\ UNCHANGED <<pf, lists, res, wchan, valid, unsaved, writes, errors, asserts>>

\* pframe_get_resident sends an unpinned page to the back of alloc_list.
pframe_get_resident(p) ==
    LET f == Head(hash[p])
    IN  IF pf[f].pins = 0 THEN Append(list_remove(alloc_list, f), f) ELSE alloc_list

get_resident_page(t) ==
    LET f == Head(hash[want[t]])
    IN  /\ At(t, "get") /\ hash[want[t]] # << >>
        /\ alloc_list' = pframe_get_resident(want[t])
        /\ res' = [res EXCEPT ![t] = f]
        /\ IF pf[f].busy THEN Goto(t, "busywait") /\ SleepOn(t, PfWaitq(f))
                         ELSE Goto(t, "has") /\ UNCHANGED <<wchan, running>>
        /\ UNCHANGED <<pf, pinned_list, hash, nallocated, npinned, want, valid, unsaved, writes, errors, asserts>>

\* The loop around sched_sleep_on(pf_waitq): the frame is looked at again, the
\* page is not looked up again.
busy_wait(t) ==
    /\ At(t, "busywait")
    /\ IF pf[res[t]].busy THEN SleepOn(t, PfWaitq(res[t])) /\ UNCHANGED pc
                          ELSE Goto(t, "has") /\ UNCHANGED <<wchan, running>>
    /\ UNCHANGED <<pf, lists, res, want, valid, unsaved, writes, errors, asserts>>

\* Not resident and memory is short: wake the daemon and wait.
MustWait(t) ==
    /\ \/ At(t, "get") /\ hash[want[t]] = << >>
       \/ At(t, "allocwait")
    /\ pageoutd_needed

\* Mutant: sleeps without waking the daemon.
wait_for_pageoutd_silently(t) ==
    /\ MustWait(t)
    /\ SleepOn(t, AllocWaitq)
    /\ Goto(t, "allocwait")
    /\ UNCHANGED <<pf, lists, res, want, valid, unsaved, writes, errors, asserts>>

wait_for_pageoutd(t) ==
    /\ MustWait(t)
    /\ wchan' = [Broadcast({PageoutdWaitq}) EXCEPT ![t] = AllocWaitq]
    /\ running' = Nobody
    /\ Goto(t, "allocwait")
    /\ UNCHANGED <<pf, lists, res, want, valid, unsaved, writes, errors, asserts>>

MayAlloc(t) ==
    /\ \/ At(t, "get") /\ hash[want[t]] = << >>
       \/ At(t, "allocwait")
    /\ ~ pageoutd_needed

\* pframe_alloc and the first half of pframe_fill, which then waits for the disk.
pframe_alloc(t, f) ==
    LET p == want[t]
    IN  /\ MayAlloc(t) /\ f \in FreeFrames
        /\ pf' = [pf EXCEPT ![f] = [page |-> p, busy |-> TRUE, dirty |-> FALSE, pins |-> 0]]
        /\ nallocated' = nallocated + 1
        /\ alloc_list' = Append(alloc_list, f)
        /\ hash' = [hash EXCEPT ![p] = <<f>> \o @]
        /\ res' = [res EXCEPT ![t] = f]
        /\ Goto(t, "filling") /\ SleepOn(t, Disk)
        /\ valid' = valid \ {f}
        /\ UNCHANGED <<pinned_list, npinned, want, unsaved, writes, errors, asserts>>

\* pframe_alloc has no frame: pframe_get calls pageoutd_run, which never returns.
pframe_alloc_fails(t) ==
    /\ MayAlloc(t) /\ FreeFrames = {}
    /\ Goto(t, "loop")
    /\ UNCHANGED <<pf, lists, res, want, wchan, running, valid, unsaved, writes, errors, asserts>>

\* Mutant: no broadcast after the fill.
pframe_fill_wakes_nobody(t, ok) ==
    LET f == res[t]
    IN  /\ At(t, "filling") /\ Result(ok)
        /\ pf' = [pf EXCEPT ![f].busy = FALSE]
        /\ valid' = IF ok THEN valid \cup {f} ELSE valid
        /\ Goto(t, "has")
        /\ UNCHANGED <<wchan, lists, res, want, running, unsaved, writes, asserts>>

\* The second half of pframe_fill; pframe_get ignores its result.
pframe_fill(t, ok) ==
    LET f == res[t]
    IN  /\ At(t, "filling") /\ Result(ok)
        /\ pf' = [pf EXCEPT ![f].busy = FALSE]
        /\ wchan' = Broadcast({PfWaitq(f)})
        /\ valid' = IF ok THEN valid \cup {f} ELSE valid
        /\ Goto(t, "has")
        /\ UNCHANGED <<lists, res, want, running, unsaved, writes, asserts>>
-----------------------------------------------------------------------------
(***************************************************************************)
(* What a thread does with a page it got: read it and forget it, pin it    *)
(* and block, or dirty it.  A thread that blocks must have it pinned.      *)
(***************************************************************************)
Forget(t) ==
    /\ At(t, "has")
    /\ res' = [res EXCEPT ![t] = NoFrame]
    /\ want' = [want EXCEPT ![t] = NoPage]
    /\ Goto(t, "idle")
    /\ running' = Nobody
    /\ UNCHANGED <<pf, lists, wchan, valid, unsaved, writes, errors, asserts>>

Panic ==
    /\ asserts' = FALSE
    /\ UNCHANGED <<pf, lists, pc, res, want, wchan, running, valid, unsaved, writes, errors>>

pframe_pin(t) ==
    LET f == res[t]
    IN  /\ At(t, "has") /\ npinned > -MaxDrift
        /\ \/ pf[f].page = NoPage /\ Panic
           \/ /\ pf[f].page # NoPage
              /\ pf' = [pf EXCEPT ![f].pins = @ + 1]
              /\ IF pf[f].pins = 0
                 THEN /\ alloc_list' = list_remove(alloc_list, f)
                      /\ nallocated' = nallocated - 1
                      /\ pinned_list' = pinned_list \cup {f}
                      /\ npinned' = npinned + 1
                 ELSE UNCHANGED <<alloc_list, nallocated, pinned_list, npinned>>
              /\ Goto(t, "pinned") /\ running' = Nobody
              /\ UNCHANGED <<hash, res, want, wchan, valid, unsaved, writes, errors, asserts>>

\* Mutant: the page stays on pinned_list.
pframe_unpin_keeps_link(t) ==
    LET f == res[t]
    IN  /\ At(t, "pinned") /\ pf[f].page # NoPage /\ pf[f].pins > 0
        /\ pf' = [pf EXCEPT ![f].pins = @ - 1]
        /\ npinned' = npinned - 1
        /\ IF pf[f].pins = 1
           THEN alloc_list' = Append(alloc_list, f) /\ nallocated' = nallocated + 1
           ELSE UNCHANGED <<alloc_list, nallocated>>
        /\ Goto(t, "has")
        /\ UNCHANGED <<pinned_list, hash, res, want, wchan, running, valid, unsaved, writes, errors, asserts>>

\* npinned is decremented at every unpin, nallocated only at the last.
pframe_unpin(t) ==
    LET f == res[t]
    IN  /\ At(t, "pinned")
        /\ asserts' = (pf[f].page # NoPage /\ pf[f].pins > 0)
        /\ pf' = [pf EXCEPT ![f].pins = @ - 1]
        /\ npinned' = npinned - 1
        /\ IF pf[f].pins = 1
           THEN /\ pinned_list' = pinned_list \ {f}
                /\ alloc_list' = Append(alloc_list, f)
                /\ nallocated' = nallocated + 1
           ELSE UNCHANGED <<alloc_list, nallocated, pinned_list>>
        /\ Goto(t, "has")
        /\ UNCHANGED <<hash, res, want, wchan, running, valid, unsaved, writes, errors>>

\* pframe_dirty, then the thread writes.  blockdev_dirtypage does not block.
pframe_dirty(t) ==
    LET f == res[t]
    IN  /\ pc[t] \in {"has", "pinned"} /\ running = t /\ asserts
        /\ pf[f].dirty \/ writes < MaxWrites
        /\ \/ (pf[f].page = NoPage \/ pf[f].busy) /\ Panic
           \/ /\ pf[f].page # NoPage /\ ~ pf[f].busy
              /\ pf' = [pf EXCEPT ![f].dirty = TRUE]
              /\ wchan' = Broadcast({PfWaitq(f)})
              /\ unsaved' = unsaved \cup {f}
              /\ writes' = IF pf[f].dirty THEN writes ELSE writes + 1
              /\ UNCHANGED <<lists, pc, res, want, running, valid, errors, asserts>>
-----------------------------------------------------------------------------
(***************************************************************************)
(* pframe_clean: the dirty bit is cleared before the write and set again   *)
(* when the write fails.                                                   *)
(***************************************************************************)
start_clean(t, f, station) ==
    /\ pf' = [pf EXCEPT ![f].dirty = FALSE, ![f].busy = TRUE]
    /\ asserts' = (pf[f].dirty /\ pf[f].pins = 0)
    /\ res' = [res EXCEPT ![t] = f]
    /\ Goto(t, station) /\ SleepOn(t, Disk)
    /\ UNCHANGED <<lists, want, valid, unsaved, writes, errors>>

\* Mutant: the page is clean after a failed write.
end_clean_loses_error(t, ok, station) ==
    LET f == res[t]
    IN  /\ Result(ok)
        /\ pf' = [pf EXCEPT ![f].busy = FALSE]
        /\ unsaved' = IF ok THEN unsaved \ {f} ELSE unsaved
        /\ wchan' = Broadcast({PfWaitq(f)})
        /\ Goto(t, station)
        /\ res' = [res EXCEPT ![t] = NoFrame]
        /\ UNCHANGED <<lists, want, running, valid, writes, asserts>>

end_clean(t, ok, station) ==
    LET f == res[t]
    IN  /\ Result(ok)
        /\ pf' = [pf EXCEPT ![f].busy = FALSE, ![f].dirty = @ \/ ~ ok]
        /\ unsaved' = IF ok THEN unsaved \ {f} ELSE unsaved
        /\ wchan' = Broadcast({PfWaitq(f)})
        /\ Goto(t, station)
        /\ res' = [res EXCEPT ![t] = NoFrame]
        /\ UNCHANGED <<lists, want, running, valid, writes, asserts>>

\* pframe_clean_all: from the head of alloc_list, the first page that is busy
\* or dirty decides; the loop starts over after every wait.
sync(t) ==
    /\ Arrive(t, "sync")
    /\ UNCHANGED <<pf, lists, res, want, wchan, valid, unsaved, writes, errors, asserts>>

ToSync == {i \in DOMAIN alloc_list : pf[alloc_list[i]].busy \/ pf[alloc_list[i]].dirty}

pframe_clean_all(t) ==
    /\ At(t, "sync")
    /\ \/ /\ ToSync = {}
          /\ Goto(t, "idle") /\ running' = Nobody
          /\ UNCHANGED <<pf, lists, res, want, wchan, valid, unsaved, writes, errors, asserts>>
       \/ \E i \in ToSync :
             LET f == alloc_list[i]
             IN  /\ \A j \in ToSync : i <= j
                 /\ IF pf[f].busy
                    THEN /\ SleepOn(t, PfWaitq(f))
                         /\ UNCHANGED <<pf, lists, pc, res, want, valid, unsaved, writes, errors, asserts>>
                    ELSE start_clean(t, f, "syncing")

sync_cleaned(t, ok) == At(t, "syncing") /\ end_clean(t, ok, "sync")
-----------------------------------------------------------------------------
(***************************************************************************)
(* pageoutd_run: one turn of its inner loop, or the broadcast and the      *)
(* sleep at its end.                                                       *)
(***************************************************************************)
Victim == Head(alloc_list)
MustReclaim == ~ pageoutd_target_met /\ alloc_list # << >>

pageoutd_waits(t) ==
    /\ At(t, "loop") /\ MustReclaim /\ pf[Victim].busy
    /\ SleepOn(t, PfWaitq(Victim))
    /\ UNCHANGED <<pf, lists, pc, res, want, valid, unsaved, writes, errors, asserts>>

pageoutd_cleans(t) ==
    /\ At(t, "loop") /\ MustReclaim /\ ~ pf[Victim].busy /\ pf[Victim].dirty
    /\ start_clean(t, Victim, "cleaning")

pageoutd_cleaned(t, ok) == At(t, "cleaning") /\ end_clean(t, ok, "loop")

\* pframe_free of the page that was asked for longest ago.
pframe_free(t) ==
    LET f == Victim
    IN  /\ At(t, "loop") /\ MustReclaim /\ ~ pf[f].busy /\ ~ pf[f].dirty
        /\ asserts' = (pf[f].pins = 0)
        /\ hash' = [hash EXCEPT ![pf[f].page] = list_remove(@, f)]
        /\ nallocated' = nallocated - 1
        /\ alloc_list' = Tail(alloc_list)
        /\ pf' = [pf EXCEPT ![f] = FreeFrame]
        /\ UNCHANGED <<pinned_list, npinned, pc, res, want, wchan, running, valid, unsaved, writes, errors>>

pageoutd_sleeps(t) ==
    /\ At(t, "loop") /\ ~ MustReclaim
    /\ wchan' = [Broadcast({AllocWaitq}) EXCEPT ![t] = PageoutdWaitq]
    /\ running' = Nobody
    /\ UNCHANGED <<pf, lists, pc, res, want, valid, unsaved, writes, errors, asserts>>

Step(t) ==
    \/ Dispatch(t) \/ DiskDone(t)
    \/ get_resident_page(t) \/ busy_wait(t)
    \/ wait_for_pageoutd(t) \/ (\E f \in Frames : pframe_alloc(t, f)) \/ pframe_alloc_fails(t)
    \/ \E ok \in BOOLEAN : pframe_fill(t, ok) \/ sync_cleaned(t, ok) \/ pageoutd_cleaned(t, ok)
    \/ Forget(t) \/ pframe_pin(t) \/ pframe_unpin(t) \/ pframe_dirty(t)
    \/ pframe_clean_all(t)
    \/ pageoutd_waits(t) \/ pageoutd_cleans(t) \/ pframe_free(t) \/ pageoutd_sleeps(t)

Next == \E t \in Threads : Step(t) \/ sync(t) \/ \E p \in Pages : Call(t, p)

Spec == Init /\ [][Next]_vars

\* The run queue is FIFO, so a thread that is awake is run again and again;
\* a running thread goes on; the disk answers every request.
FairSpec ==
    Spec /\ \A t \in Threads :
        SF_vars(Dispatch(t)) /\ WF_vars(DiskDone(t)) /\ WF_vars(Step(t) /\ running = t)
-----------------------------------------------------------------------------
InUse == {f \in Frames : pf[f].page # NoPage}

\* alloc_list holds the resident pages that are not pinned and pinned_list the
\* pinned ones, each page once; a page is on the hash chain of its number and
\* nallocated is the length of alloc_list.
ListsAgree ==
    /\ TypeOK
    /\ IsInjective(alloc_list)
    /\ Range(alloc_list) = {f \in InUse : pf[f].pins = 0}
    /\ pinned_list = {f \in InUse : pf[f].pins > 0}
    /\ \A p \in Pages : Range(hash[p]) = {f \in InUse : pf[f].page = p}
    /\ nallocated = Len(alloc_list)

\* A page is busy exactly while one thread fills or cleans it: nobody cleans a
\* page twice at once, and no page stays busy for ever.  Nobody sleeps on the
\* pf_waitq of a page that is not busy: the broadcast that ends a fill or a
\* clean cannot be missed.
BusyHasOneOwner ==
    \A f \in Frames :
        LET owners == {t \in Threads : res[t] = f /\ pc[t] \in {"filling", "syncing", "cleaning"}}
        IN  /\ Cardinality(owners) = IF pf[f].busy THEN 1 ELSE 0
            /\ \A t \in Threads : wchan[t] = PfWaitq(f) => pf[f].busy

\* A page with contents that the disk does not have is never reclaimed: it is
\* dirty, or being written, until a write succeeds.
NoLostWrites == \A f \in unsaved : f \in InUse /\ (pf[f].dirty \/ pf[f].busy)

\* While a thread waits for memory on alloc_waitq, the page-out daemon does not
\* sleep on pageoutd_waitq.
DaemonWorksForWaiters ==
    (\E t \in Threads : wchan[t] = AllocWaitq) => wchan[Pageoutd] # PageoutdWaitq

\* A thread that sleeps on a busy page is woken, and so is one that sleeps on
\* alloc_waitq, as long as clean pages are made dirty only finitely often
\* (MaxWrites): pageoutd_run frees a page only after it cleaned it, and a
\* writer that never stops can always be faster.
WaitersWake ==
    /\ \A t \in Threads, f \in Frames : wchan[t] = PfWaitq(f) ~> (wchan[t] = Awake \/ ~ asserts)
    /\ \A t \in Clients : wchan[t] = AllocWaitq ~> (wchan[t] = Awake \/ ~ asserts)

\* "Obtain the (unique) page identified by 'o' and 'pagenum'": no page number
\* is ever resident in two frames.
PageIsUnique == \A p \in Pages : Len(hash[p]) <= 1

\* "as long as this routine returns successfully, the returned page will be a
\* non-busy page that will be guaranteed to remain resident until the calling
\* context blocks": what pframe_get hands out is the page asked for.
GotPageIsResident ==
    \A t \in Threads : At(t, "has") => pf[res[t]].page = want[t] /\ ~ pf[res[t]].busy

\* "Be sure to correctly update npinned and nallocated": npinned is the number
\* of pages on pinned_list.
NpinnedExact == npinned = Cardinality(pinned_list)

\* "@return 0 on success, < 0 on failure": a page handed out with success was
\* read from the disk.
GotPageIsFilled ==
    \A t \in Threads : At(t, "has") /\ pf[res[t]].page = want[t] => res[t] \in valid

\* "@return 0 on success, < 0 on failure": pframe_get returns to its caller
\* also when it had to run the page-out loop itself.
GetReturns == \A t \in Clients : pc[t] = "loop" ~> (pc[t] = "has" \/ ~ asserts)
=============================================================================

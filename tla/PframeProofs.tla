----------------------------- MODULE PframeProofs -----------------------------
(***************************************************************************)
(* The page cache, for any finite set of threads and any pages and frames: *)
(* the inductive invariant, the facts about lists and frames that its      *)
(* proof rests on, the steps and the theorems.                             *)
(***************************************************************************)
EXTENDS Pframe, ListProofs, FiniteSetTheorems

-----------------------------------------------------------------------------
(***************************************************************************)
(* The inductive invariant.                                                *)
(***************************************************************************)
FrameRecords == [page : Pages \cup {NoPage}, busy : BOOLEAN, dirty : BOOLEAN, pins : Int]

Types ==
    /\ pf \in [Frames -> FrameRecords]
    /\ npinned \in Int
    /\ pc \in [Threads -> Stations]
    /\ res \in [Threads -> Frames \cup {NoFrame}]
    /\ want \in [Threads -> Pages \cup {NoPage}]
    /\ wchan \in [Threads -> Wchans]
    /\ running \in Threads \cup {Nobody}
    /\ valid \subseteq Frames /\ unsaved \subseteq Frames
    /\ errors \in 0 .. MaxErrors /\ writes \in 0 .. MaxWrites
    /\ asserts \in BOOLEAN

\* Stations at which a thread is doing disk I/O on its frame, holds it busy or
\* pinned, or at least has one.
Owning == {"filling", "syncing", "cleaning"}
Holding == Owning \cup {"pinned"}
WithFrame == Holding \cup {"busywait", "has"}

\* The daemon never pins a page, so at most Cardinality(Clients) pins exist.
StationsInv ==
    /\ \A t \in Threads : pc[t] \in WithFrame => res[t] \in Frames
    /\ \A t \in Threads : pc[t] \in {"get", "allocwait"} => want[t] \in Pages
    /\ pc[Pageoutd] \in {"loop", "cleaning"}

\* A free frame is neither busy nor dirty nor pinned.
FrameInv ==
    \A f \in Frames : pf[f].busy \/ pf[f].dirty \/ pf[f].pins # 0 => pf[f].page # NoPage

OwnerInv ==
    /\ \A t \in Threads : pc[t] \in Owning => pf[res[t]].busy
    /\ \A t, u \in Threads : pc[t] \in Owning /\ pc[u] \in Owning /\ res[t] = res[u] => t = u
    /\ \A f \in Frames : pf[f].busy => \E t \in Threads : pc[t] \in Owning /\ res[t] = f

SleepInv == \A t \in Threads, f \in Frames : wchan[t] = PfWaitq(f) => pf[f].busy

\* The read that fills a page cannot overwrite anything new, and the end of a
\* read does not leave an unsaved page that is neither dirty nor busy.
WriteInv ==
    /\ \A t \in Threads : pc[t] = "filling" => res[t] \notin unsaved
    /\ \A f \in unsaved : pf[f].dirty \/ pf[f].busy
    /\ \A f \in unsaved : pf[f].page # NoPage

Pinners(f) == {t \in Threads : pc[t] = "pinned" /\ res[t] = f}
PinInv == \A f \in Frames : pf[f].pins = Cardinality(Pinners(f))

Unpinned == {f \in Frames : pf[f].page # NoPage /\ pf[f].pins = 0}
PageFrames(p) == {f \in Frames : pf[f].page = p}

ListInv ==
    /\ ListOf(alloc_list, Unpinned) /\ nallocated = Len(alloc_list)
    /\ pinned_list = {f \in Frames : pf[f].pins # 0}
    /\ hash \in [Pages -> Seq(Frames)]
    /\ \A p \in Pages : ListOf(hash[p], PageFrames(p))

IoInv == FrameInv /\ OwnerInv /\ SleepInv /\ WriteInv
Inv == Types /\ StationsInv /\ IoInv /\ PinInv /\ ListInv
-----------------------------------------------------------------------------
\* The wait queues are different from each other.
LEMMA WchansDiffer ==
    /\ \A f, g : PfWaitq(f) = PfWaitq(g) => f = g
    /\ \A f : PfWaitq(f) # Awake /\ PfWaitq(f) # AllocWaitq
    /\ \A f : PfWaitq(f) # PageoutdWaitq /\ PfWaitq(f) # Disk
    /\ AllocWaitq # PageoutdWaitq /\ AllocWaitq # Awake /\ PageoutdWaitq # Awake
    /\ AllocWaitq # Disk /\ PageoutdWaitq # Disk
    /\ {Awake, AllocWaitq, PageoutdWaitq, Disk} \subseteq Wchans
    /\ \A f \in Frames : PfWaitq(f) \in Wchans
  BY DEF PfWaitq, Awake, AllocWaitq, PageoutdWaitq, Disk, Wchans

\* The entries of a list of S are in S.
LEMMA ListElements ==
    ASSUME NEW list, NEW S, NEW T, ListOf(list, S), S \subseteq T
    PROVE  /\ list \in Seq(T)
           /\ Len(list) \in Nat
           /\ list # << >> => Head(list) \in S
           /\ \A i \in DOMAIN list : list[i] \in S
  BY DEF ListOf

\* The frame that get_resident_page, pframe_clean_all and the daemon look at.
LEMMA FoundFrames ==
    ASSUME Types, StationsInv, ListInv
    PROVE  /\ alloc_list \in Seq(Frames)
           /\ alloc_list # << >> => Victim \in Unpinned
           /\ \A i \in ToSync : alloc_list[i] \in Unpinned
           /\ \A p \in Pages : hash[p] # << >> => Head(hash[p]) \in PageFrames(p)
<1>1. Unpinned \subseteq Frames /\ ListOf(alloc_list, Unpinned)
  BY DEF ListInv, Unpinned
<1>2. \A p \in Pages : ListOf(hash[p], PageFrames(p)) /\ PageFrames(p) \subseteq Frames
  BY DEF ListInv, PageFrames
<1>3. /\ alloc_list \in Seq(Frames)
      /\ alloc_list # << >> => Victim \in Unpinned
      /\ \A i \in ToSync : alloc_list[i] \in Unpinned
  BY <1>1, ListElements, Zenon DEF Victim, ToSync
<1>4. \A p \in Pages : hash[p] # << >> => Head(hash[p]) \in PageFrames(p)
  BY <1>2, ListElements, Zenon
<1> QED BY <1>3, <1>4

\* sched_broadcast_on wakes exactly the threads that sleep on the queues.
LEMMA BroadcastTypes ==
    ASSUME wchan \in [Threads -> Wchans], NEW queues
    PROVE  /\ Broadcast(queues) \in [Threads -> Wchans]
           /\ \A t \in Threads : Broadcast(queues)[t] = IF wchan[t] \in queues THEN Awake ELSE wchan[t]
  BY WchansDiffer DEF Broadcast

\* What the assignments to a frame leave: frame f has these values and the
\* other frames are as before.
Becomes(n, f, page, busy, dirty, pins) ==
    /\ n \in [Frames -> FrameRecords]
    /\ \A g \in Frames : g # f => n[g] = pf[g]
    /\ n[f].page = page /\ n[f].busy = busy /\ n[f].dirty = dirty /\ n[f].pins = pins

\* Each assignment to a frame, field by field.
LEMMA FrameUpdates ==
    ASSUME pf \in [Frames -> FrameRecords], NEW f \in Frames
    PROVE  LET r == pf[f] IN
           /\ \A p \in Pages :
                 Becomes([pf EXCEPT ![f] = [page |-> p, busy |-> TRUE, dirty |-> FALSE, pins |-> 0]],
                         f, p, TRUE, FALSE, 0)
           /\ Becomes([pf EXCEPT ![f].busy = FALSE], f, r.page, FALSE, r.dirty, r.pins)
           /\ \A ok \in BOOLEAN :
                 Becomes([pf EXCEPT ![f].busy = FALSE, ![f].dirty = @ \/ ~ ok],
                         f, r.page, FALSE, r.dirty \/ ~ ok, r.pins)
           /\ Becomes([pf EXCEPT ![f].dirty = FALSE, ![f].busy = TRUE], f, r.page, TRUE, FALSE, r.pins)
           /\ Becomes([pf EXCEPT ![f].pins = @ + 1], f, r.page, r.busy, r.dirty, r.pins + 1)
           /\ Becomes([pf EXCEPT ![f].pins = @ - 1], f, r.page, r.busy, r.dirty, r.pins - 1)
           /\ Becomes([pf EXCEPT ![f].dirty = TRUE], f, r.page, r.busy, TRUE, r.pins)
           /\ Becomes([pf EXCEPT ![f] = FreeFrame], f, NoPage, FALSE, FALSE, 0)
<1> DEFINE r == pf[f]
<1>0. r \in FrameRecords
  OBVIOUS
<1>a. ASSUME NEW x \in FrameRecords
      PROVE  Becomes([pf EXCEPT ![f] = x], f, x.page, x.busy, x.dirty, x.pins)
  BY DEF Becomes
<1>1. ASSUME NEW p \in Pages
      PROVE  Becomes([pf EXCEPT ![f] = [page |-> p, busy |-> TRUE, dirty |-> FALSE, pins |-> 0]],
                     f, p, TRUE, FALSE, 0)
  <2> DEFINE x == [page |-> p, busy |-> TRUE, dirty |-> FALSE, pins |-> 0]
  <2>1. x \in FrameRecords /\ x.page = p /\ x.busy = TRUE /\ x.dirty = FALSE /\ x.pins = 0
    BY DEF FrameRecords
  <2> QED BY <1>a, <2>1
<1>2. Becomes([pf EXCEPT ![f].busy = FALSE], f, r.page, FALSE, r.dirty, r.pins)
  BY <1>0 DEF Becomes, FrameRecords
<1>3. ASSUME NEW ok \in BOOLEAN
      PROVE  Becomes([pf EXCEPT ![f].busy = FALSE, ![f].dirty = @ \/ ~ ok],
                     f, r.page, FALSE, r.dirty \/ ~ ok, r.pins)
  BY <1>0 DEF Becomes, FrameRecords
<1>4. Becomes([pf EXCEPT ![f].dirty = FALSE, ![f].busy = TRUE], f, r.page, TRUE, FALSE, r.pins)
  BY <1>0 DEF Becomes, FrameRecords
<1>5. Becomes([pf EXCEPT ![f].pins = @ + 1], f, r.page, r.busy, r.dirty, r.pins + 1)
  BY <1>0 DEF Becomes, FrameRecords
<1>6. Becomes([pf EXCEPT ![f].pins = @ - 1], f, r.page, r.busy, r.dirty, r.pins - 1)
  BY <1>0 DEF Becomes, FrameRecords
<1>7. Becomes([pf EXCEPT ![f].dirty = TRUE], f, r.page, r.busy, TRUE, r.pins)
  BY <1>0 DEF Becomes, FrameRecords
<1>8. Becomes([pf EXCEPT ![f] = FreeFrame], f, NoPage, FALSE, FALSE, 0)
  <2>1. /\ FreeFrame \in FrameRecords /\ FreeFrame.page = NoPage /\ FreeFrame.busy = FALSE
        /\ FreeFrame.dirty = FALSE /\ FreeFrame.pins = 0
    BY DEF FrameRecords, FreeFrame
  <2> QED BY <1>a, <2>1
<1> QED BY <1>1, <1>2, <1>3, <1>4, <1>5, <1>6, <1>7, <1>8

\* The frame a step works on, and what it does to it.
LEMMA FramesOfSteps ==
    ASSUME Types, StationsInv, ListInv, NEW t \in Threads
    PROVE  /\ \A f \in Frames : pframe_alloc(t, f) => Becomes(pf', f, want[t], TRUE, FALSE, 0)
           /\ \A ok \in BOOLEAN : pframe_fill(t, ok) =>
                 LET f == res[t]
                 IN  f \in Frames /\ Becomes(pf', f, pf[f].page, FALSE, pf[f].dirty, pf[f].pins)
           /\ \A ok \in BOOLEAN : sync_cleaned(t, ok) \/ pageoutd_cleaned(t, ok) =>
                 LET f == res[t]
                 IN  f \in Frames /\ Becomes(pf', f, pf[f].page, FALSE, pf[f].dirty \/ ~ ok, pf[f].pins)
           /\ \A f \in Frames, station \in Stations : start_clean(t, f, station) =>
                 Becomes(pf', f, pf[f].page, TRUE, FALSE, pf[f].pins)
           /\ pframe_pin(t) /\ asserts' =>
                 LET f == res[t]
                 IN  f \in Frames /\ Becomes(pf', f, pf[f].page, pf[f].busy, pf[f].dirty, pf[f].pins + 1)
           /\ pframe_unpin(t) =>
                 LET f == res[t]
                 IN  f \in Frames /\ Becomes(pf', f, pf[f].page, pf[f].busy, pf[f].dirty, pf[f].pins - 1)
           /\ pframe_dirty(t) /\ asserts' =>
                 LET f == res[t]
                 IN  f \in Frames /\ Becomes(pf', f, pf[f].page, pf[f].busy, TRUE, pf[f].pins)
           /\ pframe_free(t) => Victim \in Unpinned /\ Becomes(pf', Victim, NoPage, FALSE, FALSE, 0)
<1> USE DEF At
<1>0. pf \in [Frames -> FrameRecords]
  BY DEF Types
<1>1. ASSUME NEW f \in Frames, pframe_alloc(t, f) PROVE Becomes(pf', f, want[t], TRUE, FALSE, 0)
  <2>1. want[t] \in Pages
    BY <1>1 DEF pframe_alloc, MayAlloc, StationsInv
  <2> QED BY <1>0, <1>1, <2>1, FrameUpdates, Zenon DEF pframe_alloc
<1>2. ASSUME NEW ok \in BOOLEAN, pframe_fill(t, ok)
      PROVE  /\ res[t] \in Frames
             /\ Becomes(pf', res[t], pf[res[t]].page, FALSE, pf[res[t]].dirty, pf[res[t]].pins)
  <2>1. res[t] \in Frames
    BY <1>2 DEF pframe_fill, StationsInv, WithFrame, Holding, Owning
  <2> QED BY <1>0, <1>2, <2>1, FrameUpdates, Zenon DEF pframe_fill
<1>3. ASSUME NEW ok \in BOOLEAN, sync_cleaned(t, ok) \/ pageoutd_cleaned(t, ok)
      PROVE  /\ res[t] \in Frames
             /\ Becomes(pf', res[t], pf[res[t]].page, FALSE, pf[res[t]].dirty \/ ~ ok, pf[res[t]].pins)
  <2>1. res[t] \in Frames
    BY <1>3 DEF sync_cleaned, pageoutd_cleaned, StationsInv, WithFrame, Holding, Owning
  <2> QED BY <1>0, <1>3, <2>1, FrameUpdates, Zenon DEF sync_cleaned, pageoutd_cleaned, end_clean
<1>4. ASSUME NEW f \in Frames, NEW station \in Stations, start_clean(t, f, station)
      PROVE  Becomes(pf', f, pf[f].page, TRUE, FALSE, pf[f].pins)
  BY <1>0, <1>4, FrameUpdates, Zenon DEF start_clean
<1>5. ASSUME pframe_pin(t), asserts'
      PROVE  /\ res[t] \in Frames
             /\ Becomes(pf', res[t], pf[res[t]].page, pf[res[t]].busy, pf[res[t]].dirty, pf[res[t]].pins + 1)
  <2>1. res[t] \in Frames
    BY <1>5 DEF pframe_pin, StationsInv, WithFrame
  <2>2. pf' = [pf EXCEPT ![res[t]].pins = @ + 1]
    BY <1>5 DEF pframe_pin, Panic
  <2> QED BY <1>0, <2>1, <2>2, FrameUpdates, Zenon
<1>6. ASSUME pframe_unpin(t)
      PROVE  /\ res[t] \in Frames
             /\ Becomes(pf', res[t], pf[res[t]].page, pf[res[t]].busy, pf[res[t]].dirty, pf[res[t]].pins - 1)
  <2>1. res[t] \in Frames
    BY <1>6 DEF pframe_unpin, StationsInv, WithFrame, Holding
  <2> QED BY <1>0, <1>6, <2>1, FrameUpdates, Zenon DEF pframe_unpin
<1>7. ASSUME pframe_dirty(t), asserts'
      PROVE  /\ res[t] \in Frames
             /\ Becomes(pf', res[t], pf[res[t]].page, pf[res[t]].busy, TRUE, pf[res[t]].pins)
  <2>1. res[t] \in Frames
    BY <1>7 DEF pframe_dirty, StationsInv, WithFrame, Holding
  <2>2. pf' = [pf EXCEPT ![res[t]].dirty = TRUE]
    BY <1>7 DEF pframe_dirty, Panic
  <2> QED BY <1>0, <2>1, <2>2, FrameUpdates, Zenon
<1>8. ASSUME pframe_free(t)
      PROVE  Victim \in Unpinned /\ Becomes(pf', Victim, NoPage, FALSE, FALSE, 0)
  <2>1. Victim \in Unpinned
    BY <1>8, FoundFrames DEF pframe_free, MustReclaim
  <2>2. Victim \in Frames
    BY <2>1 DEF Unpinned
  <2> QED BY <1>0, <1>8, <2>1, <2>2, FrameUpdates, Zenon DEF pframe_free
<1> QED BY <1>1, <1>2, <1>3, <1>4, <1>5, <1>6, <1>7, <1>8, Zenon

\* Every step of a thread keeps the types.
LEMMA StepTypes ==
    ASSUME Types, StationsInv, FrameInv, ListInv, NEW t \in Threads, Step(t)
    PROVE  Types'
<1> USE DEF At, Goto, SleepOn, lists, Stations
<1>0. \A f \in Unpinned : f \in Frames
  BY DEF Unpinned
<1>1. ASSUME Dispatch(t) PROVE Types'
  BY <1>1 DEF Dispatch, Types
<1>2. ASSUME DiskDone(t) PROVE Types'
  BY <1>2, WchansDiffer DEF DiskDone, Types
<1>3. ASSUME get_resident_page(t) PROVE Types'
  <2> DEFINE f == Head(hash[want[t]])
  <2>1. f \in Frames
    BY <1>3, FoundFrames DEF get_resident_page, StationsInv, PageFrames
  <2> QED BY <1>3, <2>1, WchansDiffer DEF get_resident_page, Types
<1>4. ASSUME busy_wait(t) PROVE Types'
  <2>1. res[t] \in Frames
    BY <1>4 DEF busy_wait, StationsInv, WithFrame
  <2> QED BY <1>4, <2>1, WchansDiffer DEF busy_wait, Types
<1>5. ASSUME wait_for_pageoutd(t) PROVE Types'
  BY <1>5, WchansDiffer, BroadcastTypes DEF wait_for_pageoutd, Types
<1>6. ASSUME NEW f \in Frames, pframe_alloc(t, f) PROVE Types'
  <2>1. want[t] \in Pages
    BY <1>6 DEF pframe_alloc, MayAlloc, StationsInv
  <2>2. pf' \in [Frames -> FrameRecords]
    BY <1>6, FramesOfSteps, Zenon DEF Becomes
  <2> QED BY <1>6, <2>1, <2>2, WchansDiffer DEF pframe_alloc, Types
<1>7. ASSUME pframe_alloc_fails(t) PROVE Types'
  BY <1>7 DEF pframe_alloc_fails, Types
<1>8. ASSUME NEW ok \in BOOLEAN, pframe_fill(t, ok) PROVE Types'
  <2>1. res[t] \in Frames /\ pf' \in [Frames -> FrameRecords]
    BY <1>8, FramesOfSteps, Zenon DEF Becomes
  <2> QED BY <1>8, <2>1, BroadcastTypes, PframeAssumption DEF pframe_fill, Types, Result
<1>9. ASSUME NEW ok \in BOOLEAN, sync_cleaned(t, ok) \/ pageoutd_cleaned(t, ok) PROVE Types'
  <2>1. res[t] \in Frames /\ pf' \in [Frames -> FrameRecords]
    BY <1>9, FramesOfSteps, Zenon DEF Becomes
  <2> QED BY <1>9, <2>1, BroadcastTypes, PframeAssumption
            DEF sync_cleaned, pageoutd_cleaned, end_clean, Types, Result
<1>10. ASSUME Forget(t) PROVE Types'
  BY <1>10 DEF Forget, Types
<1>11. ASSUME pframe_pin(t) PROVE Types'
  <2>1. CASE Panic
    BY <2>1 DEF Panic, Types
  <2>2. CASE ~ Panic
    <3>1. asserts'
      BY <1>11, <2>2 DEF pframe_pin
    <3>2. pf' \in [Frames -> FrameRecords]
      BY <1>11, <3>1, FramesOfSteps, Zenon DEF Becomes
    <3>3. npinned' \in Int
      <4>1. npinned' = npinned \/ npinned' = npinned + 1
        BY <1>11, <2>2, Zenon DEF pframe_pin
      <4>2. npinned \in Int
        BY DEF Types
      <4> QED BY <4>1, <4>2
    <3>4. /\ pc' = [pc EXCEPT ![t] = "pinned"] /\ running' = Nobody
          /\ UNCHANGED <<res, want, wchan, valid, unsaved, writes, errors, asserts>>
      BY <1>11, <2>2 DEF pframe_pin
    <3> QED BY <3>2, <3>3, <3>4 DEF Types
  <2> QED BY <2>1, <2>2
<1>12. ASSUME pframe_unpin(t) PROVE Types'
  <2>1. pf' \in [Frames -> FrameRecords]
    BY <1>12, FramesOfSteps, Zenon DEF Becomes
  <2> QED BY <1>12, <2>1 DEF pframe_unpin, Types
<1>13. ASSUME pframe_dirty(t) PROVE Types'
  <2>1. CASE Panic
    BY <2>1 DEF Panic, Types
  <2>2. CASE ~ Panic
    <3>1. asserts'
      BY <1>13, <2>2 DEF pframe_dirty
    <3>2. res[t] \in Frames /\ pf' \in [Frames -> FrameRecords]
      BY <1>13, <3>1, FramesOfSteps, Zenon DEF Becomes
    <3>3. /\ wchan' = Broadcast({PfWaitq(res[t])})
          /\ unsaved' = unsaved \cup {res[t]}
          /\ UNCHANGED <<npinned, pc, res, want, running, valid, errors, asserts>>
      BY <1>13, <2>2 DEF pframe_dirty
    <3>4. writes' \in 0..MaxWrites
      <4>1. writes' = writes \/ (writes < MaxWrites /\ writes' = writes + 1)
        BY <1>13, <2>2, Zenon DEF pframe_dirty
      <4> QED BY <4>1, PframeAssumption DEF Types
    <3> QED BY <3>2, <3>3, <3>4, BroadcastTypes DEF Types
  <2> QED BY <2>1, <2>2
<1>14. ASSUME NEW f \in Frames, NEW station \in Stations, start_clean(t, f, station) PROVE Types'
  <2>1. pf' \in [Frames -> FrameRecords]
    BY <1>14, FramesOfSteps, Zenon DEF Becomes
  <2> QED BY <1>14, <2>1, WchansDiffer DEF start_clean, Types
<1>15. ASSUME pframe_clean_all(t) PROVE Types'
  <2>1. CASE ToSync = {} /\ Goto(t, "idle") /\ running' = Nobody /\ UNCHANGED <<pf, lists, res, want, wchan, valid, unsaved, writes, errors, asserts>>
    BY <2>1 DEF Types
  <2>2. ASSUME NEW i \in ToSync, SleepOn(t, PfWaitq(alloc_list[i])),
               UNCHANGED <<pf, lists, pc, res, want, valid, unsaved, writes, errors, asserts>>
        PROVE  Types'
    BY <1>0, <2>2, FoundFrames, WchansDiffer DEF Types
  <2>3. ASSUME NEW i \in ToSync, start_clean(t, alloc_list[i], "syncing") PROVE Types'
    BY <1>0, <1>14, <2>3, FoundFrames, Zenon
  <2> QED BY <1>15, <2>1, <2>2, <2>3 DEF pframe_clean_all
<1>16. ASSUME pageoutd_waits(t) PROVE Types'
  BY <1>0, <1>16, FoundFrames, WchansDiffer DEF pageoutd_waits, MustReclaim, Types
<1>17. ASSUME pageoutd_cleans(t) PROVE Types'
  BY <1>0, <1>14, <1>17, FoundFrames, Zenon DEF pageoutd_cleans, MustReclaim
<1>18. ASSUME pframe_free(t) PROVE Types'
  <2>1. pf' \in [Frames -> FrameRecords]
    BY <1>18, FramesOfSteps, Zenon DEF Becomes
  <2> QED BY <1>18, <2>1 DEF pframe_free, Types
<1>19. ASSUME pageoutd_sleeps(t) PROVE Types'
  BY <1>19, WchansDiffer, BroadcastTypes DEF pageoutd_sleeps, Types
<1> QED BY <1>1, <1>2, <1>3, <1>4, <1>5, <1>6, <1>7, <1>8, <1>9, <1>10, <1>11, <1>12,
           <1>13, <1>15, <1>16, <1>17, <1>18, <1>19 DEF Step
-----------------------------------------------------------------------------
(***************************************************************************)
(* Steps, taken together by what they do to the frames: nothing, begin     *)
(* disk I/O, end it, dirty, pin, unpin or free one.                        *)
(***************************************************************************)
\* What a step may leave as it is: the threads in disk I/O, and those with a pin.
SameOwners ==
    \A u \in Threads : pc[u] \in Owning \/ pc'[u] \in Owning => pc'[u] = pc[u] /\ res'[u] = res[u]
SamePinners ==
    \A u \in Threads : pc[u] = "pinned" \/ pc'[u] = "pinned" => pc'[u] = pc[u] /\ res'[u] = res[u]

\* A thread starts to sleep on pf_waitq only of a busy frame.
SleepsOnBusy ==
    \A u \in Threads, f \in Frames : wchan'[u] = PfWaitq(f) => wchan[u] = PfWaitq(f) \/ pf[f].busy

\* A step that changes no page number, no pin count and no membership of a list.
LEMMA KeepLists ==
    ASSUME ListInv, PinInv, SamePinners,
           \A f \in Frames : pf'[f].page = pf[f].page /\ pf'[f].pins = pf[f].pins,
           UNCHANGED <<pinned_list, hash, nallocated>>,
           ListOf(alloc_list', Unpinned), Len(alloc_list') = Len(alloc_list)
    PROVE  ListInv' /\ PinInv'
<1>1. Unpinned' = Unpinned /\ \A p : PageFrames(p)' = PageFrames(p)
  BY DEF Unpinned, PageFrames
<1>2. \A f \in Frames : Pinners(f)' = Pinners(f)
  BY DEF SamePinners, Pinners
<1>3. pinned_list' = {f \in Frames : pf'[f].pins # 0}
  BY DEF ListInv
<1>4. ListInv'
  BY <1>1, <1>3, Zenon DEF ListInv
<1>5. PinInv'
  BY <1>2, Zenon DEF PinInv
<1> QED BY <1>4, <1>5

\* A step that begins and ends no I/O and makes no page dirty.
LEMMA IoKeeps ==
    ASSUME IoInv, SameOwners, SleepsOnBusy, unsaved' = unsaved, unsaved \subseteq Frames,
           \A t \in Threads : pc[t] \in Owning => res[t] \in Frames,
           \A f \in Frames : /\ pf'[f].busy = pf[f].busy /\ pf'[f].dirty = pf[f].dirty
                             /\ pf'[f].page = pf[f].page
                             /\ pf'[f].pins # 0 => pf[f].page # NoPage
    PROVE  IoInv'
<1>1. FrameInv'
  BY DEF IoInv, FrameInv
<1>2. OwnerInv'
  BY DEF IoInv, OwnerInv, SameOwners
<1>3. SleepInv'
  BY DEF IoInv, SleepInv, SleepsOnBusy
<1>4. WriteInv'
  BY DEF IoInv, WriteInv, SameOwners, Owning
<1> QED BY <1>1, <1>2, <1>3, <1>4 DEF IoInv

\* The end of a fill or a clean: the page is no longer busy and its waiters are woken.
LEMMA IoEnds ==
    ASSUME Types, StationsInv, IoInv, NEW t \in Threads, pc[t] \in Owning, NEW dirty,
           Becomes(pf', res[t], pf[res[t]].page, FALSE, dirty, pf[res[t]].pins),
           pc'[t] \notin Owning,
           \A u \in Threads \ {t} : pc'[u] = pc[u] /\ res'[u] = res[u],
           wchan' = Broadcast({PfWaitq(res[t])}),
           unsaved' \subseteq unsaved, res[t] \in unsaved' => dirty
    PROVE  IoInv'
<1> DEFINE f == res[t]
<1>0. /\ f \in Frames /\ pf[f].busy /\ pf[f].page # NoPage /\ unsaved \subseteq Frames
      /\ wchan \in [Threads -> Wchans]
  BY DEF StationsInv, IoInv, OwnerInv, FrameInv, WithFrame, Holding, Types
<1>a. /\ \A g \in Frames : g # f => pf'[g] = pf[g]
      /\ pf'[f].page = pf[f].page /\ pf'[f].busy = FALSE /\ pf'[f].dirty = dirty
  BY DEF Becomes
<1>b. \A u \in Threads \ {t} : pc[u] \in Owning => res[u] \in Frames /\ res[u] # f
  BY DEF StationsInv, IoInv, OwnerInv, WithFrame, Holding
<1> HIDE DEF f
<1>1. FrameInv'
  BY <1>0, <1>a DEF IoInv, FrameInv
<1>2. OwnerInv'
  <2>1. \A u \in Threads : pc'[u] \in Owning => pf'[res'[u]].busy
    BY <1>a, <1>b DEF IoInv, OwnerInv
  <2>2. \A u, v \in Threads : pc'[u] \in Owning /\ pc'[v] \in Owning /\ res'[u] = res'[v] => u = v
    BY DEF IoInv, OwnerInv
  <2>3. \A g \in Frames : pf'[g].busy => \E u \in Threads : pc'[u] \in Owning /\ res'[u] = g
    <3> SUFFICES ASSUME NEW g \in Frames, pf'[g].busy
                 PROVE  \E u \in Threads : pc'[u] \in Owning /\ res'[u] = g
      OBVIOUS
    <3>1. g # f /\ pf[g].busy
      BY <1>a
    <3>2. PICK u \in Threads : pc[u] \in Owning /\ res[u] = g
      BY <3>1 DEF IoInv, OwnerInv
    <3>3. u # t
      BY <3>1, <3>2 DEF f
    <3> QED BY <3>2, <3>3
  <2> QED BY <2>1, <2>2, <2>3 DEF OwnerInv
<1>3. SleepInv'
  <2> SUFFICES ASSUME NEW u \in Threads, NEW g \in Frames, wchan'[u] = PfWaitq(g)
               PROVE  pf'[g].busy
    BY DEF SleepInv
  <2>1. wchan[u] = PfWaitq(g) /\ wchan[u] # PfWaitq(f)
    BY <1>0, WchansDiffer, BroadcastTypes DEF f
  <2>2. g # f
    BY <2>1
  <2>3. pf[g].busy
    BY <2>1 DEF IoInv, SleepInv
  <2> QED BY <1>a, <2>2, <2>3
<1>4. WriteInv'
  <2>1. \A u \in Threads : pc'[u] = "filling" => res'[u] \notin unsaved'
    BY DEF IoInv, WriteInv, Owning
  <2>2. \A g \in unsaved' : pf'[g].dirty \/ pf'[g].busy
    BY <1>0, <1>a DEF IoInv, WriteInv, f
  <2>3. \A g \in unsaved' : pf'[g].page # NoPage
    BY <1>0, <1>a DEF IoInv, WriteInv
  <2> QED BY <2>1, <2>2, <2>3 DEF WriteInv
<1> QED BY <1>1, <1>2, <1>3, <1>4 DEF IoInv

\* The begin of a fill or a clean: a page that was not busy gets its owner.
LEMMA IoBegins ==
    ASSUME Types, StationsInv, IoInv, NEW t \in Threads, pc[t] \notin Owning,
           NEW f \in Frames, ~ pf[f].busy, NEW page, page # NoPage, NEW pins,
           Becomes(pf', f, page, TRUE, FALSE, pins),
           pc'[t] \in Owning, res'[t] = f, pc'[t] = "filling" => f \notin unsaved,
           \A u \in Threads \ {t} : pc'[u] = pc[u] /\ res'[u] = res[u],
           SleepsOnBusy, unsaved' = unsaved
    PROVE  IoInv'
<1>0. unsaved \subseteq Frames
  BY DEF Types
<1>a. /\ \A g \in Frames : g # f => pf'[g] = pf[g]
      /\ pf'[f].page # NoPage /\ pf'[f].busy = TRUE
  BY DEF Becomes
<1>b. \A u \in Threads \ {t} : pc[u] \in Owning => res[u] \in Frames /\ res[u] # f
  BY DEF StationsInv, IoInv, OwnerInv, WithFrame, Holding
<1>1. FrameInv'
  BY <1>a DEF IoInv, FrameInv
<1>2. OwnerInv'
  <2>1. \A u \in Threads : pc'[u] \in Owning => pf'[res'[u]].busy
    BY <1>a, <1>b DEF IoInv, OwnerInv
  <2>2. \A u, v \in Threads : pc'[u] \in Owning /\ pc'[v] \in Owning /\ res'[u] = res'[v] => u = v
    BY <1>b DEF IoInv, OwnerInv
  <2>3. \A g \in Frames : pf'[g].busy => \E u \in Threads : pc'[u] \in Owning /\ res'[u] = g
    <3> SUFFICES ASSUME NEW g \in Frames, pf'[g].busy
                 PROVE  \E u \in Threads : pc'[u] \in Owning /\ res'[u] = g
      OBVIOUS
    <3>1. CASE g = f
      BY <3>1
    <3>2. CASE g # f
      <4>1. PICK u \in Threads : pc[u] \in Owning /\ res[u] = g
        BY <1>a, <3>2 DEF IoInv, OwnerInv
      <4> QED BY <4>1
    <3> QED BY <3>1, <3>2
  <2> QED BY <2>1, <2>2, <2>3 DEF OwnerInv
<1>3. SleepInv'
  BY <1>a DEF IoInv, SleepInv, SleepsOnBusy
<1>4. WriteInv'
  <2>1. \A u \in Threads : pc'[u] = "filling" => res'[u] \notin unsaved'
    BY DEF IoInv, WriteInv
  <2>2. \A g \in unsaved' : pf'[g].dirty \/ pf'[g].busy
    BY <1>0, <1>a DEF IoInv, WriteInv
  <2>3. \A g \in unsaved' : pf'[g].page # NoPage
    BY <1>0, <1>a DEF IoInv, WriteInv
  <2> QED BY <2>1, <2>2, <2>3 DEF WriteInv
<1> QED BY <1>1, <1>2, <1>3, <1>4 DEF IoInv

\* Steps that leave every frame as it is.
LEMMA NeutralStep ==
    ASSUME Inv, SameOwners, SamePinners, SleepsOnBusy,
           UNCHANGED <<pf, pinned_list, hash, nallocated, unsaved>>,
           ListOf(alloc_list', Unpinned), Len(alloc_list') = Len(alloc_list)
    PROVE  IoInv' /\ PinInv' /\ ListInv'
<1>1. \A t \in Threads : pc[t] \in Owning => res[t] \in Frames
  BY DEF Inv, StationsInv, WithFrame, Holding
<1>2. unsaved \subseteq Frames
  BY DEF Inv, Types
<1>3. \A f \in Frames : pf[f].pins # 0 => pf[f].page # NoPage
  BY DEF Inv, IoInv, FrameInv
<1>4. IoInv'
  BY <1>1, <1>2, <1>3, IoKeeps DEF Inv
<1>5. ListInv' /\ PinInv'
  BY KeepLists DEF Inv
<1> QED BY <1>4, <1>5

\* The actions that are always such a step.
Neutral(t) ==
    \/ Dispatch(t) \/ DiskDone(t) \/ get_resident_page(t) \/ busy_wait(t)
    \/ wait_for_pageoutd(t) \/ pframe_alloc_fails(t) \/ Forget(t)
    \/ pageoutd_waits(t) \/ pageoutd_sleeps(t)
    \/ sync(t) \/ \E p \in Pages : Call(t, p)

\* None of the neutral steps begins or ends I/O, pins or unpins, or sleeps on an idle page.
LEMMA NeutralKeepsThreads ==
    ASSUME Types, StationsInv, ListInv, NEW t \in Threads, Neutral(t)
    PROVE  SameOwners /\ SamePinners /\ SleepsOnBusy
<1> USE DEF At, Goto, SleepOn, Arrive, SameOwners, SamePinners, SleepsOnBusy, Owning
<1>0. pc \in [Threads -> Stations] /\ res \in [Threads -> Frames \cup {NoFrame}] /\ wchan \in [Threads -> Wchans]
  BY DEF Types
<1>1. ASSUME Dispatch(t) PROVE SameOwners /\ SamePinners /\ SleepsOnBusy
  BY <1>1 DEF Dispatch
<1>2. ASSUME DiskDone(t) PROVE SameOwners /\ SamePinners /\ SleepsOnBusy
  BY <1>0, <1>2, WchansDiffer DEF DiskDone
<1>3. ASSUME get_resident_page(t) PROVE SameOwners /\ SamePinners /\ SleepsOnBusy
  BY <1>0, <1>3, WchansDiffer DEF get_resident_page
<1>4. ASSUME busy_wait(t) PROVE SameOwners /\ SamePinners /\ SleepsOnBusy
  BY <1>0, <1>4, WchansDiffer DEF busy_wait
<1>5. ASSUME wait_for_pageoutd(t) PROVE SameOwners /\ SamePinners /\ SleepsOnBusy
  BY <1>0, <1>5, WchansDiffer, BroadcastTypes DEF wait_for_pageoutd, MustWait
<1>6. ASSUME pframe_alloc_fails(t) PROVE SameOwners /\ SamePinners /\ SleepsOnBusy
  BY <1>0, <1>6 DEF pframe_alloc_fails, MayAlloc
<1>7. ASSUME Forget(t) PROVE SameOwners /\ SamePinners /\ SleepsOnBusy
  BY <1>0, <1>7 DEF Forget
<1>8. ASSUME pageoutd_waits(t) PROVE SameOwners /\ SamePinners /\ SleepsOnBusy
  BY <1>0, <1>8, WchansDiffer DEF pageoutd_waits
<1>9. ASSUME pageoutd_sleeps(t) PROVE SameOwners /\ SamePinners /\ SleepsOnBusy
  BY <1>0, <1>9, WchansDiffer, BroadcastTypes DEF pageoutd_sleeps
<1>10. ASSUME sync(t) PROVE SameOwners /\ SamePinners /\ SleepsOnBusy
  BY <1>0, <1>10 DEF sync
<1>11. ASSUME NEW p \in Pages, Call(t, p) PROVE SameOwners /\ SamePinners /\ SleepsOnBusy
  BY <1>0, <1>11 DEF Call
<1> QED BY <1>1, <1>2, <1>3, <1>4, <1>5, <1>6, <1>7, <1>8, <1>9, <1>10, <1>11 DEF Neutral

\* get_resident_page only moves a page within alloc_list; the others leave it.
LEMMA NeutralKeepsInv ==
    ASSUME Inv, NEW t \in Threads, Neutral(t)
    PROVE  IoInv' /\ PinInv' /\ ListInv'
<1>1. SameOwners /\ SamePinners /\ SleepsOnBusy
  BY NeutralKeepsThreads DEF Inv
<1>2. UNCHANGED <<pf, pinned_list, hash, nallocated, unsaved>>
  BY DEF Neutral, Dispatch, DiskDone, get_resident_page, busy_wait, wait_for_pageoutd,
         pframe_alloc_fails, Forget, pageoutd_waits, pageoutd_sleeps, sync, Call, lists
<1>0. ListOf(alloc_list, Unpinned)
  BY DEF Inv, ListInv
<1>3. CASE get_resident_page(t)
  <2> DEFINE f == Head(hash[want[t]])
  <2>1. f \in PageFrames(want[t]) /\ want[t] \in Pages
    BY <1>3, FoundFrames DEF Inv, StationsInv, get_resident_page, At
  <2>2. pf[f].pins = 0 => f \in Unpinned
    BY <2>1, PframeAssumption DEF PageFrames, Unpinned
  <2>3. alloc_list' = IF pf[f].pins = 0 THEN Append(list_remove(alloc_list, f), f) ELSE alloc_list
    BY <1>3 DEF get_resident_page, pframe_get_resident
  <2> HIDE DEF f
  <2>4. CASE pf[f].pins = 0
    <3> DEFINE l == list_remove(alloc_list, f)
    <3>1. ListOf(l, Unpinned \ {f}) /\ Len(l) = Len(alloc_list) - 1
      BY <1>0, <2>2, <2>4, RemoveLink
    <3>2. alloc_list' = Append(l, f)
      BY <2>3, <2>4
    <3> HIDE DEF l
    <3>3. ListOf(Append(l, f), (Unpinned \ {f}) \cup {f}) /\ Len(Append(l, f)) = Len(l) + 1
      BY <3>1, AppendLink
    <3>4. (Unpinned \ {f}) \cup {f} = Unpinned
      BY <2>2, <2>4
    <3>5. Len(alloc_list) \in Nat
      BY <1>0, ListOfIsSet
    <3>6. Len(alloc_list') = Len(alloc_list)
      BY <3>1, <3>2, <3>3, <3>5
    <3>7. ListOf(alloc_list', Unpinned)
      BY <3>2, <3>3, <3>4
    <3> QED BY <1>1, <1>2, <3>6, <3>7, NeutralStep
  <2>5. CASE pf[f].pins # 0
    BY <1>0, <1>1, <1>2, <2>3, <2>5, NeutralStep
  <2> QED BY <2>4, <2>5
<1>4. CASE ~ get_resident_page(t)
  <2>1. alloc_list' = alloc_list
    BY <1>4 DEF Neutral, Dispatch, DiskDone, busy_wait, wait_for_pageoutd,
         pframe_alloc_fails, Forget, pageoutd_waits, pageoutd_sleeps, sync, Call, lists
  <2> QED BY <1>0, <1>1, <1>2, <2>1, NeutralStep
<1> QED BY <1>3, <1>4

\* The threads other than the one that steps stay where they are.
LEMMA StepStations ==
    ASSUME Types, StationsInv, ListInv, NEW t \in Threads,
           Step(t) \/ sync(t) \/ \E p \in Pages : Call(t, p)
    PROVE  StationsInv'
<1> USE DEF At, Goto, SleepOn, Arrive, WithFrame, Holding, Owning
<1>0. /\ pc \in [Threads -> Stations] /\ res \in [Threads -> Frames \cup {NoFrame}]
      /\ want \in [Threads -> Pages \cup {NoPage}] /\ Pageoutd \in Threads
  BY DEF Types, Threads
<1>1. ASSUME Dispatch(t) \/ DiskDone(t) \/ pageoutd_waits(t) \/ pframe_free(t) \/ pageoutd_sleeps(t)
             \/ pframe_dirty(t) \/ Panic
      PROVE  StationsInv'
  <2>1. UNCHANGED <<pc, res, want>>
    BY <1>1 DEF Dispatch, DiskDone, pageoutd_waits, pframe_free, pageoutd_sleeps, pframe_dirty, Panic
  <2> QED BY <2>1 DEF StationsInv
<1>2. ASSUME get_resident_page(t) PROVE StationsInv'
  <2>1. Head(hash[want[t]]) \in Frames
    BY <1>2, FoundFrames DEF get_resident_page, StationsInv, PageFrames
  <2>2. res' = [res EXCEPT ![t] = Head(hash[want[t]])] /\ want' = want
    BY <1>2 DEF get_resident_page
  <2>3. \E x \in {"busywait", "has"} : pc' = [pc EXCEPT ![t] = x]
    BY <1>2 DEF get_resident_page
  <2>4. pc[t] = "get"
    BY <1>2 DEF get_resident_page
  <2> QED BY <1>0, <2>1, <2>2, <2>3, <2>4 DEF StationsInv
<1>3. ASSUME busy_wait(t) PROVE StationsInv'
  BY <1>0, <1>3 DEF busy_wait, StationsInv
<1>4. ASSUME wait_for_pageoutd(t) PROVE StationsInv'
  BY <1>0, <1>4 DEF wait_for_pageoutd, MustWait, StationsInv
<1>5. ASSUME NEW f \in Frames, pframe_alloc(t, f) PROVE StationsInv'
  <2>1. pc' = [pc EXCEPT ![t] = "filling"] /\ res' = [res EXCEPT ![t] = f] /\ want' = want
    BY <1>5 DEF pframe_alloc
  <2>2. pc[t] \in {"get", "allocwait"}
    BY <1>5 DEF pframe_alloc, MayAlloc
  <2> QED BY <1>0, <2>1, <2>2 DEF StationsInv
<1>6. ASSUME pframe_alloc_fails(t) PROVE StationsInv'
  BY <1>0, <1>6 DEF pframe_alloc_fails, MayAlloc, StationsInv
<1>7. ASSUME NEW ok \in BOOLEAN, pframe_fill(t, ok) PROVE StationsInv'
  <2>1. pc' = [pc EXCEPT ![t] = "has"] /\ UNCHANGED <<res, want>> /\ pc[t] = "filling"
    BY <1>7 DEF pframe_fill
  <2> QED BY <1>0, <2>1 DEF StationsInv
<1>8. ASSUME NEW ok \in BOOLEAN, sync_cleaned(t, ok) \/ pageoutd_cleaned(t, ok) PROVE StationsInv'
  <2>1. /\ \/ pc[t] = "syncing" /\ pc' = [pc EXCEPT ![t] = "sync"]
           \/ pc[t] = "cleaning" /\ pc' = [pc EXCEPT ![t] = "loop"]
        /\ res' = [res EXCEPT ![t] = NoFrame] /\ want' = want
    BY <1>8 DEF sync_cleaned, pageoutd_cleaned, end_clean
  <2> QED BY <1>0, <2>1 DEF StationsInv
<1>9. ASSUME Forget(t) PROVE StationsInv'
  BY <1>0, <1>9 DEF Forget, StationsInv
<1>10. ASSUME pframe_pin(t), ~ Panic PROVE StationsInv'
  <2>1. pc' = [pc EXCEPT ![t] = "pinned"] /\ UNCHANGED <<res, want>> /\ pc[t] = "has"
    BY <1>10 DEF pframe_pin
  <2> QED BY <1>0, <2>1 DEF StationsInv
<1>11. ASSUME pframe_unpin(t) PROVE StationsInv'
  <2>1. pc' = [pc EXCEPT ![t] = "has"] /\ UNCHANGED <<res, want>> /\ pc[t] = "pinned"
    BY <1>11 DEF pframe_unpin
  <2> QED BY <1>0, <2>1 DEF StationsInv
<1>12. ASSUME NEW f \in Frames, \/ pc[t] = "sync" /\ start_clean(t, f, "syncing")
                                \/ pc[t] = "loop" /\ start_clean(t, f, "cleaning")
       PROVE  StationsInv'
  <2>1. /\ \/ pc[t] = "sync" /\ pc' = [pc EXCEPT ![t] = "syncing"]
           \/ pc[t] = "loop" /\ pc' = [pc EXCEPT ![t] = "cleaning"]
        /\ res' = [res EXCEPT ![t] = f] /\ want' = want
    BY <1>12 DEF start_clean
  <2> QED BY <1>0, <2>1 DEF StationsInv
<1>13. ASSUME pframe_clean_all(t) PROVE StationsInv'
  <2>1. CASE Goto(t, "idle") /\ UNCHANGED <<res, want>>
    BY <1>0, <1>13, <2>1 DEF pframe_clean_all, StationsInv
  <2>2. CASE UNCHANGED <<pc, res, want>>
    BY <2>2 DEF StationsInv
  <2>3. ASSUME NEW i \in ToSync, start_clean(t, alloc_list[i], "syncing") PROVE StationsInv'
    <3>1. alloc_list[i] \in Frames
      BY <2>3, FoundFrames DEF Unpinned
    <3> QED BY <1>12, <1>13, <2>3, <3>1 DEF pframe_clean_all
  <2> QED BY <1>13, <2>1, <2>2, <2>3 DEF pframe_clean_all
<1>14. ASSUME pageoutd_cleans(t) PROVE StationsInv'
  <2>1. Victim \in Frames
    BY <1>14, FoundFrames DEF pageoutd_cleans, MustReclaim, Unpinned
  <2> QED BY <1>12, <1>14, <2>1 DEF pageoutd_cleans
<1>15. ASSUME sync(t) PROVE StationsInv'
  BY <1>0, <1>15 DEF sync, StationsInv
<1>16. ASSUME NEW p \in Pages, Call(t, p) PROVE StationsInv'
  BY <1>0, <1>16 DEF Call, StationsInv
<1> QED BY <1>1, <1>2, <1>3, <1>4, <1>5, <1>6, <1>7, <1>8, <1>9, <1>10, <1>11, <1>13,
           <1>14, <1>15, <1>16 DEF Step

\* pframe_fill and the end of pframe_clean.
LEMMA FillKeepsInv ==
    ASSUME Inv, NEW t \in Threads, NEW ok \in BOOLEAN,
           pframe_fill(t, ok) \/ sync_cleaned(t, ok) \/ pageoutd_cleaned(t, ok)
    PROVE  IoInv' /\ PinInv' /\ ListInv'
<1> DEFINE f == res[t]
           dirty == IF pframe_fill(t, ok) THEN pf[f].dirty ELSE pf[f].dirty \/ ~ ok
<1> USE DEF At, Goto
<1>0. /\ pc \in [Threads -> Stations] /\ res \in [Threads -> Frames \cup {NoFrame}]
      /\ pc[t] \in Owning /\ f \in Frames /\ ListOf(alloc_list, Unpinned)
  BY DEF Inv, Types, ListInv, StationsInv, WithFrame, Holding, Owning, pframe_fill, sync_cleaned, pageoutd_cleaned
<1>1. Becomes(pf', f, pf[f].page, FALSE, dirty, pf[f].pins)
  BY FramesOfSteps DEF Inv
<1>2. /\ pc'[t] \in {"has", "sync", "loop"}
      /\ \A u \in Threads \ {t} : pc'[u] = pc[u] /\ res'[u] = res[u]
  BY <1>0 DEF pframe_fill, sync_cleaned, pageoutd_cleaned, end_clean
<1>3. wchan' = Broadcast({PfWaitq(f)}) /\ UNCHANGED lists
  BY DEF pframe_fill, sync_cleaned, pageoutd_cleaned, end_clean
<1>4. unsaved' \subseteq unsaved /\ (f \in unsaved' => dirty)
  <2>1. CASE pframe_fill(t, ok)
    BY <2>1 DEF pframe_fill, Inv, IoInv, WriteInv
  <2>2. CASE ~ pframe_fill(t, ok)
    BY <2>2 DEF sync_cleaned, pageoutd_cleaned, end_clean
  <2> QED BY <2>1, <2>2
<1> HIDE DEF dirty
<1>5. IoInv'
  <2>1. pc'[t] \notin Owning
    BY <1>2 DEF Owning
  <2> QED BY <1>0, <1>1, <1>2, <1>3, <1>4, <2>1, IoEnds DEF Inv
<1>6. ListInv' /\ PinInv'
  <2>1. \A g \in Frames : pf'[g].page = pf[g].page /\ pf'[g].pins = pf[g].pins
    BY <1>1 DEF Becomes
  <2>2. SamePinners
    BY <1>0, <1>2 DEF SamePinners, Owning
  <2> QED BY <1>0, <1>3, <2>1, <2>2, KeepLists DEF Inv, lists
<1> QED BY <1>5, <1>6

\* The begin of pframe_clean, by sync or by the daemon.
LEMMA CleanKeepsInv ==
    ASSUME Inv, NEW t \in Threads, NEW f \in Unpinned, NEW station \in {"syncing", "cleaning"},
           pc[t] \in {"sync", "loop"}, ~ pf[f].busy, start_clean(t, f, station)
    PROVE  IoInv' /\ PinInv' /\ ListInv'
<1> USE DEF Goto, SleepOn
<1>0. /\ pc \in [Threads -> Stations] /\ res \in [Threads -> Frames \cup {NoFrame}]
      /\ wchan \in [Threads -> Wchans] /\ ListOf(alloc_list, Unpinned)
      /\ f \in Frames /\ pf[f].page # NoPage /\ station \in Stations
  BY DEF Inv, Types, ListInv, Unpinned, Stations
<1>1. Becomes(pf', f, pf[f].page, TRUE, FALSE, pf[f].pins)
  BY <1>0, FramesOfSteps DEF Inv
<1>2. /\ pc'[t] = station /\ res'[t] = f
      /\ \A u \in Threads \ {t} : pc'[u] = pc[u] /\ res'[u] = res[u]
      /\ unsaved' = unsaved /\ UNCHANGED lists
  BY <1>0 DEF start_clean
<1>3. SleepsOnBusy
  BY <1>0, WchansDiffer DEF start_clean, SleepsOnBusy
<1>4. IoInv'
  <2>1. pc[t] \notin Owning /\ pc'[t] \in Owning /\ pc'[t] # "filling"
    BY <1>2 DEF Owning
  <2> QED BY <1>0, <1>1, <1>2, <1>3, <2>1, IoBegins DEF Inv
<1>5. ListInv' /\ PinInv'
  <2>1. \A g \in Frames : pf'[g].page = pf[g].page /\ pf'[g].pins = pf[g].pins
    BY <1>1 DEF Becomes
  <2>2. SamePinners
    BY <1>2 DEF SamePinners
  <2> QED BY <1>0, <1>2, <2>1, <2>2, KeepLists DEF Inv, lists
<1> QED BY <1>4, <1>5

\* A failed KASSERT stops the system and changes nothing else.
LEMMA PanicKeepsInv ==
    ASSUME Inv, Panic
    PROVE  IoInv' /\ PinInv' /\ ListInv'
<1>1. UNCHANGED <<pf, lists, pc, res, wchan, unsaved>>
  BY DEF Panic
<1>2. SameOwners /\ SamePinners /\ SleepsOnBusy
  BY <1>1 DEF SameOwners, SamePinners, SleepsOnBusy
<1>3. UNCHANGED <<pf, pinned_list, hash, nallocated, unsaved, alloc_list>>
  BY <1>1 DEF lists
<1>4. ListOf(alloc_list', Unpinned) /\ Len(alloc_list') = Len(alloc_list)
  BY <1>3, Zenon DEF Inv, ListInv
<1> QED BY <1>2, <1>3, <1>4, NeutralStep

\* pframe_dirty of a page that is not busy, hence in no I/O.
LEMMA DirtyKeepsInv ==
    ASSUME Inv, NEW t \in Threads, pframe_dirty(t), ~ Panic
    PROVE  IoInv' /\ PinInv' /\ ListInv'
<1> DEFINE f == res[t]
<1>0. /\ asserts' /\ ~ pf[f].busy /\ pf[f].page # NoPage
      /\ UNCHANGED <<lists, pc, res>>
      /\ unsaved' = unsaved \cup {f} /\ wchan' = Broadcast({PfWaitq(f)})
  BY DEF pframe_dirty
<1>1. f \in Frames /\ Becomes(pf', f, pf[f].page, pf[f].busy, TRUE, pf[f].pins)
  BY <1>0, FramesOfSteps DEF Inv
<1>2. /\ \A g \in Frames : g # f => pf'[g] = pf[g]
      /\ pf'[f].page = pf[f].page /\ pf'[f].busy = pf[f].busy /\ pf'[f].dirty /\ pf'[f].pins = pf[f].pins
  BY <1>1 DEF Becomes
<1>3. wchan \in [Threads -> Wchans] /\ unsaved \subseteq Frames
  BY DEF Inv, Types
<1>4. \A u \in Threads : pc[u] \in Owning => res[u] \in Frames /\ res[u] # f
  BY <1>0 DEF Inv, StationsInv, IoInv, OwnerInv, WithFrame, Holding
<1> HIDE DEF f
<1>5. FrameInv'
  BY <1>0, <1>1, <1>2 DEF Inv, IoInv, FrameInv
<1>6. OwnerInv'
  BY <1>0, <1>1, <1>2, <1>4 DEF Inv, IoInv, OwnerInv
<1>7. SleepInv'
  BY <1>0, <1>1, <1>2, <1>3, WchansDiffer, BroadcastTypes DEF Inv, IoInv, SleepInv
<1>8. WriteInv'
  BY <1>0, <1>1, <1>2, <1>3, <1>4 DEF Inv, IoInv, WriteInv, Owning
<1>9. ListInv' /\ PinInv'
  <2>1. \A g \in Frames : pf'[g].page = pf[g].page /\ pf'[g].pins = pf[g].pins
    BY <1>2
  <2>2. SamePinners /\ UNCHANGED <<pinned_list, hash, nallocated, alloc_list>>
    BY <1>0 DEF SamePinners, lists
  <2>3. ListOf(alloc_list', Unpinned) /\ Len(alloc_list') = Len(alloc_list)
    BY <2>2, Zenon DEF Inv, ListInv
  <2> QED BY <2>1, <2>2, <2>3, KeepLists DEF Inv
<1> QED BY <1>5, <1>6, <1>7, <1>8, <1>9 DEF IoInv

-----------------------------------------------------------------------------
(***************************************************************************)
(* The steps that change the lists, and the theorems.                      *)
(***************************************************************************)
\* Only finitely many threads can pin a page.
LEMMA ThreadsFinite ==
    /\ IsFiniteSet(Threads)
    /\ \A f : IsFiniteSet(Pinners(f)) /\ Cardinality(Pinners(f)) \in Nat
<1>1. IsFiniteSet(Threads)
  BY PframeAssumption, FS_AddElement DEF Threads
<1>2. ASSUME NEW f PROVE IsFiniteSet(Pinners(f)) /\ Cardinality(Pinners(f)) \in Nat
  <2>1. Pinners(f) \in SUBSET Threads
    BY DEF Pinners
  <2>2. IsFiniteSet(Pinners(f))
    BY <1>1, <2>1, FS_Subset
  <2> QED BY <2>2, FS_CardinalityType
<1> QED BY <1>1, <1>2

\* pframe_alloc: a free frame is on no list and holds no unsaved data.
LEMMA AllocKeepsInv ==
    ASSUME Inv, NEW t \in Threads, NEW f \in Frames, pframe_alloc(t, f)
    PROVE  IoInv' /\ PinInv' /\ ListInv'
<1> USE DEF At, Goto, SleepOn
<1>0. /\ pc \in [Threads -> Stations] /\ res \in [Threads -> Frames \cup {NoFrame}]
      /\ wchan \in [Threads -> Wchans] /\ ListOf(alloc_list, Unpinned)
      /\ hash \in [Pages -> Seq(Frames)]
  BY DEF Inv, Types, ListInv
<1>p. PICK p \in Pages : p = want[t]
  BY DEF pframe_alloc, MayAlloc, Inv, StationsInv
<1>1. /\ p # NoPage /\ pc[t] \in {"get", "allocwait"}
      /\ pf[f].page = NoPage
  BY PframeAssumption DEF pframe_alloc, MayAlloc, FreeFrames
<1>2. ~ pf[f].busy /\ pf[f].pins = 0 /\ f \notin unsaved
  BY <1>1 DEF Inv, IoInv, FrameInv, WriteInv
<1>3. Becomes(pf', f, p, TRUE, FALSE, 0)
  BY <1>p, FramesOfSteps DEF Inv
<1>4. /\ pc'[t] = "filling" /\ res'[t] = f /\ unsaved' = unsaved
      /\ \A u \in Threads \ {t} : pc'[u] = pc[u] /\ res'[u] = res[u]
  BY <1>0 DEF pframe_alloc
<1>5. IoInv'
  <2>1. SleepsOnBusy
    BY <1>0, WchansDiffer DEF pframe_alloc, SleepsOnBusy
  <2>2. pc[t] \notin Owning /\ pc'[t] \in Owning
    BY <1>1, <1>4 DEF Owning
  <2> QED BY <1>1, <1>2, <1>3, <1>4, <2>1, <2>2, IoBegins DEF Inv
<1>6. /\ \A g \in Frames : g # f => pf'[g] = pf[g]
      /\ pf'[f].page = p /\ pf'[f].pins = 0
  BY <1>3 DEF Becomes
<1>7. PinInv'
  <2>1. \A g \in Frames : Pinners(g)' = Pinners(g)
    BY <1>1, <1>4 DEF Pinners
  <2>2. \A g \in Frames : pf'[g].pins = pf[g].pins
    BY <1>2, <1>6
  <2> QED BY <2>1, <2>2, Zenon DEF Inv, PinInv
<1>8. ListInv'
  <2>1. /\ alloc_list' = Append(alloc_list, f) /\ nallocated' = nallocated + 1
        /\ hash' = [hash EXCEPT ![p] = <<f>> \o @] /\ pinned_list' = pinned_list
    BY <1>p DEF pframe_alloc
  <2>2. Unpinned' = Unpinned \cup {f} /\ f \notin Unpinned
    BY <1>1, <1>2, <1>6 DEF Unpinned
  <2>3. PageFrames(p)' = PageFrames(p) \cup {f} /\ f \notin PageFrames(p)
    BY <1>1, <1>6 DEF PageFrames
  <2>4. \A q \in Pages : q # p => PageFrames(q)' = PageFrames(q)
    BY <1>1, <1>6, PframeAssumption DEF PageFrames
  <2>5. ListOf(alloc_list', Unpinned') /\ nallocated' = Len(alloc_list')
    BY <1>0, <2>1, <2>2, AppendLink DEF Inv, ListInv
  <2>6. pinned_list' = {g \in Frames : pf'[g].pins # 0}
    BY <1>2, <1>6, <2>1 DEF Inv, ListInv
  <2> DEFINE l == <<f>> \o hash[p]
  <2>7. ListOf(l, PageFrames(p)')
    <3>1. ListOf(hash[p], PageFrames(p))
      BY <1>1 DEF Inv, ListInv
    <3>2. ListOf(l, PageFrames(p) \cup {f})
      BY <2>3, <3>1, PushLink
    <3> QED BY <2>3, <3>2, Zenon
  <2>8. l \in Seq(Frames)
    <3>1. PageFrames(p)' \subseteq Frames
      BY DEF PageFrames
    <3> QED BY <2>7, <3>1, ListElements, Zenon
  <2>9. hash' = [hash EXCEPT ![p] = l]
    BY <2>1
  <2> HIDE DEF l
  <2>10. hash' \in [Pages -> Seq(Frames)] /\ hash'[p] = l /\ \A q \in Pages : q # p => hash'[q] = hash[q]
    BY <1>0, <1>1, <2>8, <2>9
  <2>11. \A q \in Pages : ListOf(hash'[q], PageFrames(q)')
    <3> SUFFICES ASSUME NEW q \in Pages PROVE ListOf(hash'[q], PageFrames(q)')
      OBVIOUS
    <3>1. CASE q = p
      BY <2>7, <2>10, <3>1, Zenon
    <3>2. CASE q # p
      BY <2>4, <2>10, <3>2, Zenon DEF Inv, ListInv
    <3> QED BY <3>1, <3>2
  <2> QED BY <2>5, <2>6, <2>10, <2>11, Zenon DEF ListInv
<1> QED BY <1>5, <1>7, <1>8

\* pframe_pin: the first pin moves the page from alloc_list to pinned_list.
LEMMA PinKeepsInv ==
    ASSUME Inv, NEW t \in Threads, pframe_pin(t), ~ Panic
    PROVE  IoInv' /\ PinInv' /\ ListInv'
<1> USE DEF At, Goto
<1>0. /\ asserts' /\ pc[t] = "has" /\ pc' = [pc EXCEPT ![t] = "pinned"]
      /\ pf[res[t]].page # NoPage
      /\ UNCHANGED <<hash, res, wchan, unsaved>>
  BY DEF pframe_pin
<1>1. /\ res[t] \in Frames
      /\ Becomes(pf', res[t], pf[res[t]].page, pf[res[t]].busy, pf[res[t]].dirty, pf[res[t]].pins + 1)
  BY <1>0, FramesOfSteps DEF Inv
<1>f. PICK f \in Frames : f = res[t]
  BY <1>1
<1>2. /\ \A g \in Frames : g # f => pf'[g] = pf[g]
      /\ pf'[f].page = pf[f].page /\ pf'[f].busy = pf[f].busy /\ pf'[f].dirty = pf[f].dirty
      /\ pf'[f].pins = pf[f].pins + 1
  BY <1>1, <1>f DEF Becomes
<1>3. /\ pc \in [Threads -> Stations] /\ unsaved \subseteq Frames
      /\ \A u \in Threads : pc[u] \in Owning => res[u] \in Frames
      /\ pf[f].page # NoPage
  BY <1>0, <1>f DEF Inv, Types, StationsInv, WithFrame, Holding
<1>4. pf[f].pins = Cardinality(Pinners(f)) /\ pf[f].pins \in Nat
  BY ThreadsFinite DEF Inv, PinInv
<1>5. IoInv'
  <2>1. SameOwners /\ SleepsOnBusy
    BY <1>0, <1>3 DEF SameOwners, SleepsOnBusy, Owning
  <2>2. \A g \in Frames : /\ pf'[g].busy = pf[g].busy /\ pf'[g].dirty = pf[g].dirty
                          /\ pf'[g].page = pf[g].page
                          /\ pf'[g].pins # 0 => pf[g].page # NoPage
    BY <1>2, <1>3 DEF Inv, IoInv, FrameInv
  <2> QED BY <1>0, <1>3, <2>1, <2>2, IoKeeps DEF Inv
<1>6. PinInv'
  <2>1. Pinners(f)' = Pinners(f) \cup {t} /\ t \notin Pinners(f)
    BY <1>0, <1>3, <1>f DEF Pinners
  <2>2. \A g \in Frames : g # f => Pinners(g)' = Pinners(g)
    BY <1>0, <1>3, <1>f DEF Pinners
  <2>3. Cardinality(Pinners(f) \cup {t}) = Cardinality(Pinners(f)) + 1
    BY <2>1, ThreadsFinite, FS_AddElement
  <2>4. pf'[f].pins = Cardinality(Pinners(f)')
    BY <1>2, <1>4, <2>1, <2>3
  <2>5. ASSUME NEW g \in Frames, g # f PROVE pf'[g].pins = Cardinality(Pinners(g)')
    BY <1>2, <2>2, <2>5, Zenon DEF Inv, PinInv
  <2>6. \A g \in Frames : pf'[g].pins = Cardinality(Pinners(g)')
    BY <2>4, <2>5, Zenon
  <2> QED BY <2>6, Zenon DEF PinInv
<1>7. ListInv'
  <2>1. \A q : PageFrames(q)' = PageFrames(q)
    BY <1>2 DEF PageFrames
  <2>2. hash' = hash
    BY <1>0
  <2>3. /\ ListOf(alloc_list', Unpinned') /\ nallocated' = Len(alloc_list')
        /\ pinned_list' = {g \in Frames : pf'[g].pins # 0}
    <3>0. /\ ListOf(alloc_list, Unpinned) /\ nallocated = Len(alloc_list) /\ Len(alloc_list) \in Nat
          /\ pinned_list = {g \in Frames : pf[g].pins # 0}
      BY ListOfIsSet DEF Inv, ListInv
    <3>1. CASE pf[f].pins = 0
      <4>1. /\ alloc_list' = list_remove(alloc_list, f) /\ nallocated' = nallocated - 1
            /\ pinned_list' = pinned_list \cup {f}
        BY <1>f, <3>1 DEF pframe_pin
      <4>2. f \in Unpinned /\ Unpinned' = Unpinned \ {f}
        BY <1>2, <1>3, <3>1 DEF Unpinned
      <4>3. ListOf(alloc_list', Unpinned') /\ Len(alloc_list') = Len(alloc_list) - 1
        BY <3>0, <4>1, <4>2, RemoveLink
      <4>4. pinned_list' = {g \in Frames : pf'[g].pins # 0}
        BY <1>2, <3>0, <3>1, <4>1
      <4> QED BY <3>0, <4>1, <4>3, <4>4
    <3>2. CASE pf[f].pins # 0
      <4>1. UNCHANGED <<alloc_list, nallocated, pinned_list>>
        BY <1>f, <3>2 DEF pframe_pin
      <4>2. Unpinned' = Unpinned
        BY <1>2, <1>4, <3>2 DEF Unpinned
      <4>3. pinned_list' = {g \in Frames : pf'[g].pins # 0}
        BY <1>2, <1>4, <3>0, <3>2, <4>1
      <4> QED BY <3>0, <4>1, <4>2, <4>3, Zenon
    <3> QED BY <3>1, <3>2
  <2> QED BY <2>1, <2>2, <2>3, Zenon DEF Inv, ListInv
<1> QED BY <1>5, <1>6, <1>7

\* pframe_unpin: the last one moves the page back.
LEMMA UnpinKeepsInv ==
    ASSUME Inv, NEW t \in Threads, pframe_unpin(t)
    PROVE  IoInv' /\ PinInv' /\ ListInv'
<1> USE DEF At, Goto
<1>0. /\ pc[t] = "pinned" /\ pc' = [pc EXCEPT ![t] = "has"]
      /\ UNCHANGED <<hash, res, wchan, unsaved>>
  BY DEF pframe_unpin
<1>1. /\ res[t] \in Frames
      /\ Becomes(pf', res[t], pf[res[t]].page, pf[res[t]].busy, pf[res[t]].dirty, pf[res[t]].pins - 1)
  BY FramesOfSteps DEF Inv
<1>f. PICK f \in Frames : f = res[t]
  BY <1>1
<1>2. /\ \A g \in Frames : g # f => pf'[g] = pf[g]
      /\ pf'[f].page = pf[f].page /\ pf'[f].busy = pf[f].busy /\ pf'[f].dirty = pf[f].dirty
      /\ pf'[f].pins = pf[f].pins - 1
  BY <1>1, <1>f DEF Becomes
<1>3. /\ pc \in [Threads -> Stations] /\ unsaved \subseteq Frames
      /\ \A u \in Threads : pc[u] \in Owning => res[u] \in Frames
  BY DEF Inv, Types, StationsInv, WithFrame, Holding
<1>a. t \in Pinners(f)
  BY <1>0, <1>f DEF Pinners
<1>4. pf[f].pins = Cardinality(Pinners(f)) /\ pf[f].pins \in Nat /\ pf[f].pins # 0
  <2>1. Cardinality(Pinners(f)) # 0
    BY <1>a, ThreadsFinite, FS_EmptySet
  <2> QED BY <2>1, ThreadsFinite DEF Inv, PinInv
<1>b. pf[f].page # NoPage
  BY <1>4 DEF Inv, IoInv, FrameInv
<1>5. IoInv'
  <2>1. SameOwners /\ SleepsOnBusy
    BY <1>0, <1>3 DEF SameOwners, SleepsOnBusy, Owning
  <2>2. \A g \in Frames : /\ pf'[g].busy = pf[g].busy /\ pf'[g].dirty = pf[g].dirty
                          /\ pf'[g].page = pf[g].page
                          /\ pf'[g].pins # 0 => pf[g].page # NoPage
    BY <1>2, <1>b DEF Inv, IoInv, FrameInv
  <2> QED BY <1>0, <1>3, <2>1, <2>2, IoKeeps DEF Inv
<1>6. PinInv'
  <2>1. Pinners(f)' = Pinners(f) \ {t}
    BY <1>0, <1>3, <1>f DEF Pinners
  <2>2. \A g \in Frames : g # f => Pinners(g)' = Pinners(g)
    BY <1>0, <1>3, <1>f DEF Pinners
  <2>3. Cardinality(Pinners(f) \ {t}) = Cardinality(Pinners(f)) - 1
    BY <1>a, ThreadsFinite, FS_RemoveElement
  <2>4. pf'[f].pins = Cardinality(Pinners(f)')
    BY <1>2, <1>4, <2>1, <2>3
  <2>5. ASSUME NEW g \in Frames, g # f PROVE pf'[g].pins = Cardinality(Pinners(g)')
    BY <1>2, <2>2, <2>5, Zenon DEF Inv, PinInv
  <2>6. \A g \in Frames : pf'[g].pins = Cardinality(Pinners(g)')
    BY <2>4, <2>5, Zenon
  <2> QED BY <2>6, Zenon DEF PinInv
<1>7. ListInv'
  <2>1. \A q : PageFrames(q)' = PageFrames(q)
    BY <1>2 DEF PageFrames
  <2>2. hash' = hash
    BY <1>0
  <2>3. /\ ListOf(alloc_list', Unpinned') /\ nallocated' = Len(alloc_list')
        /\ pinned_list' = {g \in Frames : pf'[g].pins # 0}
    <3>0. /\ ListOf(alloc_list, Unpinned) /\ nallocated = Len(alloc_list) /\ Len(alloc_list) \in Nat
          /\ pinned_list = {g \in Frames : pf[g].pins # 0}
      BY ListOfIsSet DEF Inv, ListInv
    <3>1. CASE pf[f].pins = 1
      <4>1. /\ alloc_list' = Append(alloc_list, f) /\ nallocated' = nallocated + 1
            /\ pinned_list' = pinned_list \ {f}
        BY <1>f, <3>1 DEF pframe_unpin
      <4>2. f \notin Unpinned /\ Unpinned' = Unpinned \cup {f}
        BY <1>2, <1>b, <3>1 DEF Unpinned
      <4>3. ListOf(alloc_list', Unpinned') /\ Len(alloc_list') = Len(alloc_list) + 1
        BY <3>0, <4>1, <4>2, AppendLink
      <4>4. pinned_list' = {g \in Frames : pf'[g].pins # 0}
        BY <1>2, <3>0, <3>1, <4>1
      <4> QED BY <3>0, <4>1, <4>3, <4>4
    <3>2. CASE pf[f].pins # 1
      <4>1. UNCHANGED <<alloc_list, nallocated, pinned_list>>
        BY <1>f, <3>2 DEF pframe_unpin
      <4>2. Unpinned' = Unpinned
        BY <1>2, <1>4, <3>2 DEF Unpinned
      <4>3. pinned_list' = {g \in Frames : pf'[g].pins # 0}
        BY <1>2, <1>4, <3>0, <3>2, <4>1
      <4> QED BY <3>0, <4>1, <4>2, <4>3, Zenon
    <3> QED BY <3>1, <3>2
  <2> QED BY <2>1, <2>2, <2>3, Zenon DEF Inv, ListInv
<1> QED BY <1>5, <1>6, <1>7

\* pframe_free: a page that is neither busy nor dirty has no owner and no unsaved data.
LEMMA FreeKeepsInv ==
    ASSUME Inv, NEW t \in Threads, pframe_free(t)
    PROVE  IoInv' /\ PinInv' /\ ListInv'
<1> USE DEF At
<1>1. Victim \in Unpinned /\ Becomes(pf', Victim, NoPage, FALSE, FALSE, 0)
  BY FramesOfSteps DEF Inv
<1>f. PICK f \in Frames : f = Victim
  BY <1>1 DEF Unpinned
<1>2. /\ \A g \in Frames : g # f => pf'[g] = pf[g]
      /\ pf'[f].page = NoPage /\ pf'[f].busy = FALSE /\ pf'[f].dirty = FALSE /\ pf'[f].pins = 0
  BY <1>1, <1>f DEF Becomes
<1>3. /\ ~ pf[f].busy /\ ~ pf[f].dirty /\ pf[f].pins = 0 /\ pf[f].page # NoPage /\ f \in Unpinned
      /\ unsaved \subseteq Frames /\ pf[f] \in FrameRecords
  BY <1>1, <1>f DEF pframe_free, Unpinned, Inv, Types
<1>p. PICK p \in Pages : p = pf[f].page
  BY <1>3 DEF FrameRecords
<1>4. UNCHANGED <<pinned_list, pc, res, wchan, unsaved>>
  BY DEF pframe_free
<1>5. IoInv'
  <2>1. \A u \in Threads : pc[u] \in Owning => res[u] \in Frames /\ res[u] # f
    BY <1>3 DEF Inv, StationsInv, IoInv, OwnerInv, WithFrame, Holding
  <2>2. FrameInv'
    BY <1>2 DEF Inv, IoInv, FrameInv
  <2>3. OwnerInv'
    BY <1>2, <1>4, <2>1 DEF Inv, IoInv, OwnerInv
  <2>4. SleepInv'
    BY <1>2, <1>3, <1>4 DEF Inv, IoInv, SleepInv
  <2>5. WriteInv'
    BY <1>2, <1>3, <1>4 DEF Inv, IoInv, WriteInv
  <2> QED BY <2>2, <2>3, <2>4, <2>5 DEF IoInv
<1>6. PinInv'
  <2>1. \A g \in Frames : Pinners(g)' = Pinners(g)
    BY <1>4 DEF Pinners
  <2>2. \A g \in Frames : pf'[g].pins = pf[g].pins
    BY <1>2, <1>3
  <2> QED BY <2>1, <2>2, Zenon DEF Inv, PinInv
<1>7. ListInv'
  <2>0. /\ ListOf(alloc_list, Unpinned) /\ nallocated = Len(alloc_list) /\ Len(alloc_list) \in Nat
        /\ pinned_list = {g \in Frames : pf[g].pins # 0} /\ alloc_list # << >>
        /\ hash \in [Pages -> Seq(Frames)]
    BY ListOfIsSet DEF Inv, ListInv, pframe_free, MustReclaim
  <2>1. /\ alloc_list' = Tail(alloc_list) /\ nallocated' = nallocated - 1
        /\ f = Head(alloc_list)
    BY <1>f DEF pframe_free, Victim
  <2>2. hash' = [hash EXCEPT ![p] = list_remove(@, f)]
    BY <1>f, <1>p DEF pframe_free
  <2>3. Unpinned' = Unpinned \ {f}
    BY <1>2, <1>3 DEF Unpinned
  <2>4. PageFrames(p)' = PageFrames(p) \ {f} /\ f \in PageFrames(p)
    BY <1>2, <1>p, PframeAssumption DEF PageFrames
  <2>5. \A q \in Pages : q # p => PageFrames(q)' = PageFrames(q)
    BY <1>2, <1>p, PframeAssumption DEF PageFrames
  <2>6. ListOf(alloc_list', Unpinned') /\ nallocated' = Len(alloc_list')
    <3>1. /\ ListOf(Tail(alloc_list), Unpinned \ {Head(alloc_list)})
          /\ Len(Tail(alloc_list)) = Len(alloc_list) - 1
      BY <2>0, HeadLink
    <3> QED BY <2>0, <2>1, <2>3, <3>1, Zenon
  <2>7. pinned_list' = {g \in Frames : pf'[g].pins # 0}
    BY <1>2, <1>3, <1>4, <2>0
  <2> DEFINE l == list_remove(hash[p], f)
  <2>8. ListOf(l, PageFrames(p)')
    <3>1. ListOf(hash[p], PageFrames(p))
      BY DEF Inv, ListInv
    <3>2. ListOf(l, PageFrames(p) \ {f})
      BY <2>4, <3>1, RemoveLink
    <3> QED BY <2>4, <3>2, Zenon
  <2>9. l \in Seq(Frames)
    <3>1. PageFrames(p)' \subseteq Frames
      BY DEF PageFrames
    <3> QED BY <2>8, <3>1, ListElements, Zenon
  <2>10. hash' = [hash EXCEPT ![p] = l]
    BY <2>2
  <2> HIDE DEF l
  <2>11. hash' \in [Pages -> Seq(Frames)] /\ hash'[p] = l /\ \A q \in Pages : q # p => hash'[q] = hash[q]
    BY <2>0, <2>9, <2>10
  <2>12. \A q \in Pages : ListOf(hash'[q], PageFrames(q)')
    <3> SUFFICES ASSUME NEW q \in Pages PROVE ListOf(hash'[q], PageFrames(q)')
      OBVIOUS
    <3>1. CASE q = p
      BY <2>8, <2>11, <3>1, Zenon
    <3>2. CASE q # p
      BY <2>5, <2>11, <3>2, Zenon DEF Inv, ListInv
    <3> QED BY <3>1, <3>2
  <2> QED BY <2>6, <2>7, <2>11, <2>12, Zenon DEF ListInv
<1> QED BY <1>5, <1>6, <1>7
-----------------------------------------------------------------------------
\* pframe_init establishes Inv.
LEMMA InitInv == Init => Inv
<1> SUFFICES ASSUME Init PROVE Inv
  OBVIOUS
<1> USE DEF Init
<1>0. \A f \in Frames : /\ pf[f] = FreeFrame /\ FreeFrame.page = NoPage /\ FreeFrame.busy = FALSE
                        /\ FreeFrame.dirty = FALSE /\ FreeFrame.pins = 0
  BY DEF FreeFrame
<1>1. Types
  BY WchansDiffer, PframeAssumption DEF Types, FreeFrame, FrameRecords, Stations
<1>2. StationsInv
  BY DEF StationsInv, WithFrame, Holding, Owning, Threads
<1>3. IoInv
  BY <1>0, WchansDiffer DEF IoInv, FrameInv, OwnerInv, SleepInv, WriteInv, Owning
<1>4. PinInv
  <2>1. \A f \in Frames : Pinners(f) = {}
    BY DEF Pinners
  <2> QED BY <1>0, <2>1, FS_EmptySet DEF PinInv
<1>5. ListInv
  <2>1. ListOf(<< >>, {}) /\ Len(<< >>) = 0
    BY DEF ListOf
  <2>2. Unpinned = {} /\ \A p \in Pages : PageFrames(p) = {}
    BY <1>0, PframeAssumption DEF Unpinned, PageFrames
  <2>3. pinned_list = {f \in Frames : pf[f].pins # 0}
    BY <1>0
  <2>4. hash \in [Pages -> Seq(Frames)] /\ \A p \in Pages : hash[p] = << >>
    OBVIOUS
  <2> QED BY <2>1, <2>2, <2>3, <2>4 DEF ListInv
<1> QED BY <1>1, <1>2, <1>3, <1>4, <1>5 DEF Inv

\* One step per group of actions.
LEMMA NextPreservesInv == Inv /\ [Next]_vars => Inv'
<1> SUFFICES ASSUME Inv, [Next]_vars PROVE Inv'
  OBVIOUS
<1>1. CASE UNCHANGED vars
  <2>1. UNCHANGED <<pf, alloc_list, pinned_list, hash, nallocated, npinned, pc, res, want,
                    wchan, running, valid, unsaved, writes, errors, asserts>>
    BY <1>1 DEF vars, lists
  <2>2. Types' /\ StationsInv'
    BY <2>1 DEF Inv, Types, StationsInv
  <2>3. SameOwners /\ SamePinners /\ SleepsOnBusy
    BY <2>1 DEF SameOwners, SamePinners, SleepsOnBusy
  <2>4. ListOf(alloc_list', Unpinned) /\ Len(alloc_list') = Len(alloc_list)
    BY <2>1, Zenon DEF Inv, ListInv
  <2>5. IoInv' /\ PinInv' /\ ListInv'
    BY <2>1, <2>3, <2>4, NeutralStep
  <2> QED BY <2>2, <2>5 DEF Inv
<1>2. ASSUME NEW t \in Threads, Step(t) \/ sync(t) \/ \E p \in Pages : Call(t, p) PROVE Inv'
  <2>1. StationsInv'
    BY <1>2, StepStations DEF Inv
  <2>2. Types'
    <3>1. CASE Step(t)
      BY <3>1, StepTypes DEF Inv, IoInv
    <3>2. CASE sync(t) \/ \E p \in Pages : Call(t, p)
      BY <3>2 DEF Inv, Types, sync, Call, Arrive, Goto, lists, Stations
    <3> QED BY <1>2, <3>1, <3>2
  <2>3. IoInv' /\ PinInv' /\ ListInv'
    <3>1. ASSUME Neutral(t) PROVE IoInv' /\ PinInv' /\ ListInv'
      BY <3>1, NeutralKeepsInv
    <3>2. ASSUME NEW f \in Frames, pframe_alloc(t, f) PROVE IoInv' /\ PinInv' /\ ListInv'
      BY <3>2, AllocKeepsInv
    <3>3. ASSUME NEW ok \in BOOLEAN, pframe_fill(t, ok) \/ sync_cleaned(t, ok) \/ pageoutd_cleaned(t, ok)
          PROVE  IoInv' /\ PinInv' /\ ListInv'
      BY <3>3, FillKeepsInv
    <3>4. ASSUME pframe_pin(t) PROVE IoInv' /\ PinInv' /\ ListInv'
      BY <3>4, PinKeepsInv, PanicKeepsInv
    <3>5. ASSUME pframe_unpin(t) PROVE IoInv' /\ PinInv' /\ ListInv'
      BY <3>5, UnpinKeepsInv
    <3>6. ASSUME pframe_dirty(t) PROVE IoInv' /\ PinInv' /\ ListInv'
      BY <3>6, DirtyKeepsInv, PanicKeepsInv
    <3>7. ASSUME pframe_clean_all(t) PROVE IoInv' /\ PinInv' /\ ListInv'
      <4>0. ListOf(alloc_list, Unpinned) /\ pc \in [Threads -> Stations] /\ wchan \in [Threads -> Wchans]
        BY DEF Inv, ListInv, Types
      <4>a. pc[t] = "sync"
        BY <3>7 DEF pframe_clean_all, At
      <4>1. CASE Goto(t, "idle") /\ UNCHANGED <<pf, lists, res, wchan, unsaved>>
        <5>1. SameOwners /\ SamePinners /\ SleepsOnBusy
          BY <4>0, <4>a, <4>1 DEF SameOwners, SamePinners, SleepsOnBusy, Goto, Owning
        <5> QED BY <4>0, <4>1, <5>1, NeutralStep DEF lists
      <4>2. ASSUME NEW i \in ToSync, pf[alloc_list[i]].busy, SleepOn(t, PfWaitq(alloc_list[i])),
                   UNCHANGED <<pf, lists, pc, res, unsaved>>
            PROVE  IoInv' /\ PinInv' /\ ListInv'
        <5>1. SameOwners /\ SamePinners
          BY <4>2 DEF SameOwners, SamePinners
        <5>2. SleepsOnBusy
          BY <4>0, <4>2, WchansDiffer DEF SleepsOnBusy, SleepOn
        <5> QED BY <4>0, <4>2, <5>1, <5>2, NeutralStep DEF lists
      <4>3. ASSUME NEW i \in ToSync, ~ pf[alloc_list[i]].busy, start_clean(t, alloc_list[i], "syncing")
            PROVE  IoInv' /\ PinInv' /\ ListInv'
        <5>1. alloc_list[i] \in Unpinned
          BY <4>3, FoundFrames DEF Inv
        <5> QED BY <4>a, <4>3, <5>1, CleanKeepsInv
      <4> QED BY <3>7, <4>1, <4>2, <4>3 DEF pframe_clean_all
    <3>8. ASSUME pageoutd_cleans(t) PROVE IoInv' /\ PinInv' /\ ListInv'
      <4>1. Victim \in Unpinned /\ pc[t] = "loop" /\ ~ pf[Victim].busy
        BY <3>8, FoundFrames DEF Inv, pageoutd_cleans, MustReclaim, At
      <4> QED BY <3>8, <4>1, CleanKeepsInv DEF pageoutd_cleans
    <3>9. ASSUME pframe_free(t) PROVE IoInv' /\ PinInv' /\ ListInv'
      BY <3>9, FreeKeepsInv
    <3> QED BY <1>2, <3>1, <3>2, <3>3, <3>4, <3>5, <3>6, <3>7, <3>8, <3>9 DEF Step, Neutral
  <2> QED BY <2>1, <2>2, <2>3 DEF Inv
<1> QED BY <1>1, <1>2 DEF Next

\* Inv is an invariant of the page cache.
THEOREM InvIsInvariant == Spec => []Inv
<1> QED BY InitInv, NextPreservesInv, PTL DEF Spec

\* The lists, the hash table and nallocated always describe the same frames, and
\* no frame has more pins than there are threads that can pin it.
THEOREM ListsAlwaysAgree == Spec => []ListsAgree
<1>1. Inv => ListsAgree
  <2> SUFFICES ASSUME Inv PROVE ListsAgree
    OBVIOUS
  <2>1. \A f \in Frames : pf[f].pins \in 0..Cardinality(Clients)
    <3> SUFFICES ASSUME NEW f \in Frames PROVE pf[f].pins \in 0..Cardinality(Clients)
      OBVIOUS
    <3>1. Pinners(f) \in SUBSET Clients
      BY DEF Inv, StationsInv, Pinners, Threads
    <3>2. Cardinality(Pinners(f)) <= Cardinality(Clients) /\ Cardinality(Clients) \in Nat
      BY <3>1, PframeAssumption, FS_Subset, FS_CardinalityType
    <3>3. Cardinality(Pinners(f)) \in Nat
      BY ThreadsFinite
    <3> QED BY <3>2, <3>3 DEF Inv, PinInv
  <2>2. pf \in [Frames -> FrameState]
    <3>1. \A f \in Frames : pf[f] \in FrameState
      BY <2>1 DEF Inv, Types, FrameRecords, FrameState
    <3> QED BY <3>1 DEF Inv, Types
  <2>3. /\ IsInjective(alloc_list) /\ Range(alloc_list) = Unpinned
        /\ nallocated = Len(alloc_list) /\ Len(alloc_list) \in Nat
    BY ListOfIsSet DEF Inv, ListInv
  <2>4. \A p \in Pages : Range(hash[p]) = PageFrames(p)
    BY ListOfIsSet DEF Inv, ListInv
  <2>5. alloc_list \in Seq(Frames)
    BY FoundFrames DEF Inv
  <2>6. TypeOK
    <3>1. pinned_list \subseteq Frames /\ hash \in [Pages -> Seq(Frames)] /\ nallocated \in Int
      BY <2>3 DEF Inv, ListInv
    <3> QED BY <2>2, <2>5, <3>1, Zenon DEF TypeOK, Inv, Types
  <2>7. Unpinned = {f \in InUse : pf[f].pins = 0}
    BY DEF Unpinned, InUse
  <2>8. \A p \in Pages : PageFrames(p) = {f \in InUse : pf[f].page = p}
    BY PframeAssumption DEF PageFrames, InUse
  <2>9. pinned_list = {f \in InUse : pf[f].pins > 0}
    BY <2>1 DEF Inv, ListInv, InUse, IoInv, FrameInv
  <2> QED BY <2>3, <2>4, <2>6, <2>7, <2>8, <2>9 DEF ListsAgree
<1> QED BY <1>1, InvIsInvariant, PTL

\* Every busy page has exactly one thread that will end its I/O and wake those
\* who wait for it, and nobody waits on a page that is not busy.
THEOREM BusyPagesAreOwned == Spec => []BusyHasOneOwner
<1>1. Inv => BusyHasOneOwner
  <2> SUFFICES ASSUME Inv, NEW f \in Frames
               PROVE  /\ Cardinality({t \in Threads : res[t] = f /\ pc[t] \in {"filling", "syncing", "cleaning"}})
                             = IF pf[f].busy THEN 1 ELSE 0
                      /\ \A t \in Threads : wchan[t] = PfWaitq(f) => pf[f].busy
    BY DEF BusyHasOneOwner
  <2> DEFINE owners == {t \in Threads : res[t] = f /\ pc[t] \in {"filling", "syncing", "cleaning"}}
  <2>1. CASE pf[f].busy
    <3>1. PICK t \in Threads : pc[t] \in Owning /\ res[t] = f
      BY <2>1 DEF Inv, IoInv, OwnerInv
    <3>2. owners = {t}
      BY <3>1 DEF Inv, IoInv, OwnerInv, Owning
    <3>3. Cardinality(owners) = 1
      BY <3>2, FS_Singleton
    <3> QED BY <2>1, <3>3
  <2>2. CASE ~ pf[f].busy
    <3>1. owners = {}
      BY <2>2 DEF Inv, IoInv, OwnerInv, Owning
    <3>2. Cardinality(owners) = 0
      BY <3>1, FS_EmptySet
    <3> QED BY <2>2, <3>2 DEF Inv, IoInv, SleepInv
  <2> QED BY <2>1, <2>2
<1> QED BY <1>1, InvIsInvariant, PTL

\* Whatever pframe_clean, sync and the daemon do and whichever disk writes
\* fail, a frame with data that the disk lacks stays resident, and dirty or
\* in the middle of being written.
THEOREM WritesAreNotLost == Spec => []NoLostWrites
<1>1. Inv => NoLostWrites
  BY DEF Inv, Types, IoInv, WriteInv, NoLostWrites, InUse
<1> QED BY <1>1, InvIsInvariant, PTL

\* A thread that waits for memory has woken the daemon, which does not go back
\* to sleep before it has woken the thread.
THEOREM DaemonAwakeForWaiters == Spec => []DaemonWorksForWaiters
<1> DEFINE D == DaemonWorksForWaiters
<1>1. Init => D
  BY WchansDiffer DEF Init, DaemonWorksForWaiters
<1>2. Inv /\ D /\ [Next]_vars => D'
  <2> SUFFICES ASSUME Inv, D, [Next]_vars PROVE D'
    OBVIOUS
  <2> USE DEF SleepOn
  <2>0. wchan \in [Threads -> Wchans] /\ Pageoutd \in Threads
    BY DEF Inv, Types, Threads
  <2>1. ASSUME \A u \in Threads : wchan'[u] \in {AllocWaitq, PageoutdWaitq} => wchan'[u] = wchan[u]
        PROVE  D'
    BY <2>0, <2>1 DEF DaemonWorksForWaiters
  <2>2. CASE UNCHANGED wchan
    BY <2>1, <2>2
  <2>3. ASSUME NEW t \in Threads, NEW q, q \notin {AllocWaitq, PageoutdWaitq},
               wchan' = [wchan EXCEPT ![t] = q]
        PROVE  D'
    BY <2>0, <2>1, <2>3
  <2>4. ASSUME NEW queues, wchan' = Broadcast(queues) PROVE D'
    <3>1. \A u \in Threads : wchan'[u] = IF wchan[u] \in queues THEN Awake ELSE wchan[u]
      BY <2>0, <2>4, BroadcastTypes
    <3> QED BY <2>1, <3>1, WchansDiffer
  <2>5. ASSUME NEW t \in Threads, wait_for_pageoutd(t) PROVE D'
    <3>1. wchan' = [Broadcast({PageoutdWaitq}) EXCEPT ![t] = AllocWaitq]
      BY <2>5 DEF wait_for_pageoutd
    <3>2. wchan'[Pageoutd] # PageoutdWaitq
      BY <2>0, <3>1, WchansDiffer, BroadcastTypes
    <3> QED BY <3>2 DEF DaemonWorksForWaiters
  <2>6. ASSUME NEW t \in Threads, pageoutd_sleeps(t) PROVE D'
    <3>1. wchan' = [Broadcast({AllocWaitq}) EXCEPT ![t] = PageoutdWaitq]
      BY <2>6 DEF pageoutd_sleeps
    <3>2. \A u \in Threads : wchan'[u] # AllocWaitq
      BY <2>0, <3>1, WchansDiffer, BroadcastTypes
    <3> QED BY <3>2 DEF DaemonWorksForWaiters
  <2>7. ASSUME NEW t \in Threads, Step(t) \/ sync(t) \/ \E p \in Pages : Call(t, p) PROVE D'
    <3>2. CASE wait_for_pageoutd(t) \/ pageoutd_sleeps(t)
      BY <2>5, <2>6, <3>2
    <3>3. ASSUME DiskDone(t) \/ get_resident_page(t) \/ busy_wait(t) \/ pageoutd_waits(t)
                 \/ pageoutd_cleans(t) \/ pframe_clean_all(t) \/ \E f \in Frames : pframe_alloc(t, f)
          PROVE  D'
      <4>1. \/ UNCHANGED wchan
            \/ \E f : wchan' = [wchan EXCEPT ![t] = PfWaitq(f)]
            \/ wchan' = [wchan EXCEPT ![t] = Disk]
            \/ wchan' = [wchan EXCEPT ![t] = Awake]
        BY <3>3 DEF DiskDone, get_resident_page, busy_wait, pageoutd_waits, pageoutd_cleans,
                    pframe_clean_all, pframe_alloc, start_clean
      <4> QED BY <2>2, <2>3, <4>1, WchansDiffer
    <3>4. ASSUME NEW ok \in BOOLEAN, pframe_fill(t, ok) \/ sync_cleaned(t, ok) \/ pageoutd_cleaned(t, ok)
          PROVE  D'
      BY <2>4, <3>4 DEF pframe_fill, sync_cleaned, pageoutd_cleaned, end_clean
    <3>5. ASSUME pframe_dirty(t) PROVE D'
      BY <2>2, <2>4, <3>5 DEF pframe_dirty, Panic
    <3>6. ASSUME Dispatch(t) \/ pframe_alloc_fails(t) \/ Forget(t) \/ pframe_pin(t) \/ pframe_unpin(t)
                 \/ pframe_free(t) \/ sync(t) \/ \E p \in Pages : Call(t, p)
          PROVE  D'
      <4>1. UNCHANGED wchan
        BY <3>6 DEF Dispatch, pframe_alloc_fails, Forget, pframe_pin, Panic, pframe_unpin,
                    pframe_free, sync, Call
      <4> QED BY <2>2, <4>1
    <3> QED BY <2>7, <3>2, <3>3, <3>4, <3>5, <3>6 DEF Step
  <2> QED BY <2>2, <2>7 DEF Next, vars
<1> QED BY <1>1, <1>2, InvIsInvariant, PTL DEF Spec
=============================================================================

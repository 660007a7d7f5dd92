------------------------------- MODULE Vmmap -------------------------------
(***************************************************************************)
(* Address spaces: vm/vmmap.c, the objects behind their areas (vm/anon.c,  *)
(* the vnodes' objects) and the page tables of mm/pagetable.c, as          *)
(* operators on the state of one process and of the objects it uses.       *)
(*                                                                         *)
(* A map is the sequence of its areas, in list order.  An area is a record *)
(* of pages start .. end - 1, the offset off, whether it may be written,   *)
(* and its object: a file, an anonymous object, or Unset when vmmap_map    *)
(* failed after it had inserted the area.                                  *)
(*                                                                         *)
(* m is a record: areas, the map; vrefs, the references of every vnode;    *)
(* anons, the references of every anonymous object; err, the error         *)
(* of the last operation, "panic" when an assertion failed or a null       *)
(* pointer was used.                                                       *)
(***************************************************************************)
EXTENDS Integers, SequencesExt

CONSTANTS PAGE_SIZE,
          UserLow, UserHigh,    \* the first user page, the first page after
          TablePages            \* PT_ENTRY_COUNT, the pages of a page table

ASSUME UserMemoryAssumption ==
    /\ PAGE_SIZE \in Nat \ {0} /\ TablePages \in Nat \ {0}
    /\ UserLow \in Nat \ {0} /\ UserHigh \in Nat /\ UserLow < UserHigh
    /\ UserLow % TablePages = 0 /\ UserHigh % TablePages = 0

Unset == [file |-> "unset", anon |-> 0]
FileObj(f) == [file |-> f, anon |-> 0]
AnonObj(n) == [file |-> "anon", anon |-> n]

ADDR_TO_PN(a) == a \div PAGE_SIZE
PAGE_OFFSET(a) == a % PAGE_SIZE
PAGE_ALIGN_UP(a) == ((a + PAGE_SIZE - 1) \div PAGE_SIZE) * PAGE_SIZE

Panic(m) == [m EXCEPT !.err = "panic"]

-----------------------------------------------------------------------------
(* The areas of a map.                                                     *)

(* The first area of the list that covers the page; 0 if none does.        *)
vmmap_lookup(areas, vfn) ==
    SelectInSeq(areas, LAMBDA a : a.start <= vfn /\ vfn < a.end)

(* Only an area that lies inside the range and ends before its last page   *)
(* is noticed.                                                             *)
vmmap_is_range_empty(areas, startvfn, npages) ==
    \A i \in DOMAIN areas : ~ /\ areas[i].start >= startvfn
                              /\ areas[i].end < startvfn + npages

RangeIsLegal(startvfn, npages) ==
    npages > 0 /\ UserLow <= startvfn /\ startvfn + npages <= UserHigh

(* The new area is compared with the first area only.                      *)
vmmap_insert(areas, new) ==
    IF areas = <<>> \/ new.start > areas[1].start
    THEN Append(areas, new) ELSE <<new>> \o areas

(* Candidates are the gaps right below an area, from the last area of the  *)
(* list; the length handed to vmmap_is_range_empty is a page number.       *)
Below(areas, i, npages) == areas[i].start - npages

vmmap_find_range(areas, npages) ==
    LET fits == {i \in DOMAIN areas :
                    vmmap_is_range_empty(areas, Below(areas, i, npages), areas[i].start - 1)}
    IN  IF fits = {} THEN -1 ELSE Below(areas, Max(fits), npages)

-----------------------------------------------------------------------------
(* The objects.  A vnode's object counts on the vnode; an anonymous object *)
(* begins with one reference that nothing puts back.                       *)

ref(m, o) ==
    IF o.file = "anon" THEN [m EXCEPT !.anons[o.anon] = @ + 1]
                       ELSE [m EXCEPT !.vrefs[o.file] = @ + 1]

put(m, o) ==
    IF o.file = "anon" THEN [m EXCEPT !.anons[o.anon] = @ - 1]
                       ELSE [m EXCEPT !.vrefs[o.file] = @ - 1]

anon_create(m) == [m EXCEPT !.anons = Append(@, 1)]

(* Every area's object is put once.  An area whose object was never set    *)
(* has the one its memory was left with, stale: Unset for memory that is   *)
(* new (MM_POISON_ALLOC, and using it is a crash), an object that another  *)
(* area had for memory that is used again.                                 *)
HasUnset(areas) == \E i \in DOMAIN areas : areas[i].obj = Unset

vmmap_destroy(m, stale) ==
    IF HasUnset(m.areas) /\ stale = Unset THEN Panic(m)
    ELSE [FoldLeft(LAMBDA acc, a : put(acc, IF a.obj = Unset THEN stale ELSE a.obj), m, m.areas)
             EXCEPT !.areas = <<>>]

-----------------------------------------------------------------------------
(* vmmap_remove walks the list; kept is what it has passed.                *)
(* The five cases of one area, for the pages lo .. hi - 1.                 *)
(* mmo_refcount is what an anonymous object counts; a vnode's object       *)
(* counts on the vnode, which the increment does not reach.                *)
Shared(m, o) == IF o.file = "anon" THEN ref(m, o) ELSE m

Split(m, a, lo, hi) ==       \* 1: inside the area
    LET m2 == [m EXCEPT !.areas = Append(@, [a EXCEPT !.off = @ + (hi - lo), !.end = lo])]
    IN  Shared([m2 EXCEPT !.later = Append(@, [a EXCEPT !.start = hi, !.off = 0])], a.obj)

Keep(m, a) == [m EXCEPT !.areas = Append(@, a)]

RemoveFrom(m, a, lo, hi) ==
    IF m.stopped THEN Keep(m, a)
    ELSE CASE lo > a.start /\ hi < a.end -> Split(m, a, lo, hi)
           [] lo > a.start /\ lo <= a.end /\ hi >= a.end -> Keep(m, [a EXCEPT !.end = lo])
           [] lo <= a.start /\ hi < a.end /\ hi >= a.start ->
                  Keep(m, [a EXCEPT !.off = @ + hi - a.start, !.start = hi])
           [] lo <= a.start /\ hi >= a.end -> put(m, a.obj)
           [] lo < a.start /\ hi < a.start -> [Keep(m, a) EXCEPT !.stopped = TRUE]
           [] OTHER -> Keep(m, a)

Removed(m) ==
    [areas |-> FoldLeft(vmmap_insert, m.areas, m.later),
     vrefs |-> m.vrefs, anons |-> m.anons, err |-> "ok"]

vmmap_remove(m, lopage, npages) ==
    Removed(FoldLeft(LAMBDA acc, a : RemoveFrom(acc, a, lopage, lopage + npages),
                     [areas |-> <<>>, later |-> <<>>, stopped |-> FALSE,
                      vrefs |-> m.vrefs, anons |-> m.anons, err |-> "ok"],
                     m.areas))

-----------------------------------------------------------------------------
(* vmmap_map at a given page.  trouble is what fails on the way: "none",   *)
(* "area" (no memory for the area, whose fields are then written through a *)
(* null pointer) or "object" (no object).                                  *)
WithArea(m, a) == [m EXCEPT !.areas = vmmap_insert(@, a)]

SetObject(m, a, o) ==
    ref([m EXCEPT !.areas = [i \in DOMAIN @ |-> IF @[i] = a THEN [a EXCEPT !.obj = o] ELSE @[i]]], o)

MapObject(m, a, file, trouble) ==
    CASE trouble = "object" -> [m EXCEPT !.err = "ENOMEM"]
      [] trouble = "none" /\ file # "anon" -> SetObject(m, a, FileObj(file))
      [] trouble = "none" /\ file = "anon" ->
             SetObject(anon_create(m), a, AnonObj(Len(m.anons) + 1))

Vacated(m, lopage, npages) ==
    IF vmmap_is_range_empty(m.areas, lopage, npages) THEN m
    ELSE vmmap_remove(m, lopage, npages)

MapInto(m, a, file, trouble) == MapObject(WithArea(m, a), a, file, trouble)

vmmap_map(m, file, lopage, npages, write, off, trouble) ==
    IF ~RangeIsLegal(lopage, npages) \/ trouble = "area" THEN Panic(m)
    ELSE MapInto(Vacated(m, lopage, npages),
                 [start |-> lopage, end |-> lopage + npages, off |-> off,
                  write |-> write, obj |-> Unset],
                 file, trouble)

-----------------------------------------------------------------------------
(* vmmap_write.  mem holds what was written to the pages of objects, a     *)
(* function from <<object, page>> to the words of the page.  A write that  *)
(* does not fit in what is left of the page goes to the beginning of each  *)
(* page, from the beginning of buf, and count grows.                       *)
SizeInPages(count) ==
    IF count \div PAGE_SIZE = 0 THEN 1 ELSE (count + PAGE_SIZE - 1) \div PAGE_SIZE

PageOf(a, vfn) == <<a.obj, vfn - a.start + a.off>>

Patch(page, at, buf, n) ==
    [i \in 0 .. PAGE_SIZE - 1 |-> IF i \in at .. at + n - 1 THEN buf[i - at + 1] ELSE page[i]]

WritePage(mem, p, vaddr, buf) ==
    (p :> IF Len(buf) <= PAGE_SIZE - PAGE_OFFSET(vaddr)
          THEN Patch(mem[p], PAGE_OFFSET(vaddr), buf, Len(buf))
          ELSE Patch(mem[p], 0, buf, PAGE_SIZE - PAGE_OFFSET(vaddr))) @@ mem

Zeroes == [i \in 0 .. PAGE_SIZE - 1 |-> 0]

Touch(mem, p) == IF p \in DOMAIN mem THEN mem ELSE (p :> Zeroes) @@ mem

(* The pages written; empty when one of them has no area (EFAULT).         *)
Covered(areas, vaddr, count) ==
    \A k \in 0 .. SizeInPages(count) - 1 : vmmap_lookup(areas, ADDR_TO_PN(vaddr) + k) # 0

vmmap_write(mem, areas, vaddr, buf) ==
    FoldLeft(LAMBDA acc, k :
                LET vfn == ADDR_TO_PN(vaddr) + k - 1
                    p   == PageOf(areas[vmmap_lookup(areas, vfn)], vfn)
                IN  WritePage(Touch(acc, p), p, vaddr, buf),
             mem, [k \in 1 .. SizeInPages(Len(buf)) |-> k])

-----------------------------------------------------------------------------
(* The page tables.  A page directory is a function from the numbers of    *)
(* the tables it has to the pages each one maps.                           *)

vaddr_to_pdindex(vfn) == vfn \div TablePages

(* pt_map with a table for the page, or with a new one.                    *)
pt_map(pd, vfn, target) ==
    LET t == vaddr_to_pdindex(vfn)
    IN  (t :> ((vfn :> target) @@ (IF t \in DOMAIN pd THEN pd[t] ELSE <<>>))) @@ pd

pt_entry(pd, vfn) ==
    LET t == vaddr_to_pdindex(vfn)
    IN  IF t \in DOMAIN pd /\ vfn \in DOMAIN pd[t] THEN {pd[t][vfn]} ELSE {}

(* The partial tables at both ends are cleared from the low end up and to  *)
(* the high end; whole tables between them are freed.                      *)
Cleared(pd, t, drop) ==
    IF t \in DOMAIN pd THEN (t :> Restrict(pd[t], DOMAIN pd[t] \ drop)) @@ pd ELSE pd

LowTable(vlow) == (vlow + TablePages - 1) \div TablePages

pt_unmap_range(pd, vlow, vhigh) ==
    LET low  == IF vlow % TablePages = 0 THEN pd
                ELSE Cleared(pd, vaddr_to_pdindex(vlow), vlow .. (LowTable(vlow) * TablePages - 1))
        high == IF vhigh % TablePages = 0 THEN low
                ELSE Cleared(low, vaddr_to_pdindex(vhigh),
                             (vaddr_to_pdindex(vhigh) * TablePages) .. (vhigh - 1))
    IN  Restrict(high, DOMAIN high \ (LowTable(vlow) .. (vaddr_to_pdindex(vhigh) - 1)))

=============================================================================

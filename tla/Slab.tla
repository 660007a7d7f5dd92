-------------------------------- MODULE Slab ---------------------------------
(***************************************************************************)
(* The slab allocator of kernel/mm/slab.c, with kmalloc and kfree, on the  *)
(* page allocator of PageCore, which it shares with direct clients and     *)
(* which reclaims unused slabs when it has no block left.                  *)
(*                                                                         *)
(* An object is known by its slab's address and its place in the slab.     *)
(* The chain of sb_next pointers from s_free is a sequence; sb_slab and    *)
(* the allocator pointer kmalloc stores in front of the object are fields  *)
(* of the handle a client keeps.  The allocators exist from the start:     *)
(* slab_init and slab_allocator_create run at boot, and the slab of        *)
(* slab_allocator_allocator itself is not counted in Ranges.               *)
(***************************************************************************)
EXTENDS PageCore

CONSTANTS
    PAGE_SIZE,         \* bytes in a page
    SizeofSlab,        \* sizeof(struct slab)
    SizeofBufctl,      \* sizeof(struct slab_bufctl)
    SizeofPointer,     \* sizeof(struct slab_allocator *)
    SizeofRedzone,     \* sizeof(SLAB_REDZONE)
    SLAB_MAX_ORDER,
    Buckets,           \* the object sizes of kmalloc_allocators, ascending
    Caches,            \* the object sizes of the other allocators
    Sizes,             \* the sizes asked of kmalloc
    Requests,          \* the numbers of pages asked of page_alloc_n
    MaxObjs,           \* bound: objects handed out
    MaxHeld            \* bound: allocations of direct clients of page_alloc_n

ASSUME SizesAssumption ==
    /\ {PAGE_SIZE, SizeofSlab, SizeofBufctl, SLAB_MAX_ORDER} \subseteq Nat \ {0}
    /\ Requests \subseteq 1 .. 2^(PAGE_NSIZES - 1)
    /\ \A n \in Sizes : \E i \in DOMAIN Buckets : Buckets[i] >= n + SizeofPointer

VARIABLES
    mem,        \* the page allocator
    sa_slabs,   \* sa_slabs[a]: the slabs of allocator a, head first
    objs,       \* the objects clients hold: [sa, slab, place]
    held        \* the allocations of direct page clients: [addr, npages]

vars == <<mem, sa_slabs, objs, held>>
-----------------------------------------------------------------------------
(***************************************************************************)
(* How many objects a slab has: the block size, from the smallest that     *)
(* holds one object, that wastes least; the smaller block wins a tie.      *)
(***************************************************************************)
_slab_size(objsize, nobjs) == nobjs * (objsize + SizeofBufctl) + SizeofSlab

_slab_nobjs(objsize, order) ==
    (PAGE_SIZE * 2^order - SizeofSlab) \div (objsize + SizeofBufctl)

_slab_waste(objsize, order) ==
    PAGE_SIZE * 2^order - _slab_size(objsize, _slab_nobjs(objsize, order))

_calc_slab_size(objsize) ==
    LET minorder == Min({o \in Orders : PAGE_SIZE * 2^o >= _slab_size(objsize, 1)})
        tried    == {minorder} \cup (minorder + 1 .. SLAB_MAX_ORDER - 1)
        waste    == Min({_slab_waste(objsize, o) : o \in tried})
    IN  Min({o \in tried : _slab_waste(objsize, o) = waste})

\* Allocators in the order of creation; slab_allocators lists them backwards.
Allocators == 1 .. Len(Buckets) + Len(Caches)
_allocator_init(a) == (Buckets \o Caches)[a] + 2 * SizeofRedzone
sa_objsize == [a \in Allocators |-> _allocator_init(a)]
sa_order == [a \in Allocators |-> _calc_slab_size(sa_objsize[a])]
sa_slab_nobjs == [a \in Allocators |-> _slab_nobjs(sa_objsize[a], sa_order[a])]
-----------------------------------------------------------------------------
Slab == [s_addr : Nat, s_inuse : Int, s_free : Seq(Nat)]
Object == [sa : Allocators, slab : Nat, place : Nat]

TypeOK ==
    /\ mem \in MemStates
    /\ sa_slabs \in [Allocators -> Seq(Slab)]
    /\ objs \subseteq Object
    /\ held \subseteq [addr : Nat, npages : Requests]

Init ==
    /\ mem = page_add_range
    /\ sa_slabs = [a \in Allocators |-> << >>]
    /\ objs = {}
    /\ held = {}

(***************************************************************************)
(* slab_allocators_reclaim(0): every slab with s_inuse 0 leaves its list   *)
(* and its block is freed, allocator by allocator, slab by slab.           *)
(***************************************************************************)
Unused(slab) == slab.s_inuse = 0

reclaim_allocator(s, a) ==
    FoldLeft(LAMBDA t, slab : _page_free_order(t, slab.s_addr, sa_order[a]), s,
             SelectSeq(sa_slabs[a], Unused))

slab_allocators_reclaim(s) ==
    FoldLeft(reclaim_allocator, s, [i \in Allocators |-> Len(Buckets) + Len(Caches) + 1 - i])

Used(slab) == ~ Unused(slab)
\* Mutant: a reclaimed slab stays on its list.
reclaimed_slabs_still_listed == sa_slabs
reclaimed_slabs == [a \in Allocators |-> SelectSeq(sa_slabs[a], Used)]

\* page_alloc_n without a block to give: reclaim, then NULL.
out_of_memory ==
    /\ mem' = slab_allocators_reclaim(mem)
    /\ sa_slabs' = reclaimed_slabs
    /\ UNCHANGED <<objs, held>>
-----------------------------------------------------------------------------
\* The slabs before and after the first one with a free object.
HasRoom(a, slab) == slab.s_inuse < sa_slab_nobjs[a]
RoomyPlaces(a, slabs) == {i \in DOMAIN slabs : HasRoom(a, slabs[i])}

take_first(a, slabs, m) ==
    LET i    == Min(RoomyPlaces(a, slabs))
        slab == slabs[i]
    IN  /\ mem' = m
        /\ sa_slabs' = [sa_slabs EXCEPT ![a] =
              [slabs EXCEPT ![i] = [slab EXCEPT !.s_free = Tail(@), !.s_inuse = @ + 1]]]
        /\ objs' = objs \cup {[sa |-> a, slab |-> slab.s_addr, place |-> Head(slab.s_free)]}
        /\ UNCHANGED held

_slab_allocator_grow(a, addr) ==
    <<[s_addr  |-> addr,
       s_inuse |-> 0,
       s_free  |-> [i \in 1 .. sa_slab_nobjs[a] |-> i]]>> \o sa_slabs[a]

slab_obj_alloc(a) ==
    \/ /\ RoomyPlaces(a, sa_slabs[a]) # {}
       /\ take_first(a, sa_slabs[a], mem)
    \/ /\ RoomyPlaces(a, sa_slabs[a]) = {}
       /\ CanAlloc(mem, sa_order[a])
       /\ LET r == _page_alloc_order(mem, sa_order[a])
          IN  take_first(a, _slab_allocator_grow(a, r.addr), r.mem)
    \/ /\ RoomyPlaces(a, sa_slabs[a]) = {}
       /\ ~ CanAlloc(mem, sa_order[a])
       /\ out_of_memory

\* Mutant: s_inuse is not decremented.
slab_obj_free_forgets_count(obj) ==
    LET slabs == sa_slabs[obj.sa]
        i     == CHOOSE j \in DOMAIN slabs : slabs[j].s_addr = obj.slab
    IN  /\ sa_slabs' = [sa_slabs EXCEPT ![obj.sa][i].s_free = <<obj.place>> \o @]
        /\ objs' = objs \ {obj}
        /\ UNCHANGED <<mem, held>>

\* The object goes back to the head of the free list of the slab sb_slab names.
slab_obj_free(obj) ==
    LET slabs == sa_slabs[obj.sa]
        i     == CHOOSE j \in DOMAIN slabs : slabs[j].s_addr = obj.slab
    IN  /\ sa_slabs' = [sa_slabs EXCEPT ![obj.sa][i] =
                          [@ EXCEPT !.s_free = <<obj.place>> \o @, !.s_inuse = @ - 1]]
        /\ objs' = objs \ {obj}
        /\ UNCHANGED <<mem, held>>

\* Mutant: the bucket is chosen by the request alone.
kmalloc_forgets_pointer(size) ==
    slab_obj_alloc(Min({i \in DOMAIN Buckets : Buckets[i] >= size}))

\* The first bucket that holds the request and the allocator pointer.
kmalloc(size) ==
    slab_obj_alloc(Min({i \in DOMAIN Buckets : Buckets[i] >= size + SizeofPointer}))

\* The allocator is the one kmalloc stored in front of the object.
kfree(obj) == slab_obj_free(obj)

IsBucket(a) == a <= Len(Buckets)

page_alloc_n(npages) ==
    /\ Cardinality(held) < MaxHeld
    /\ \/ /\ CanAlloc(mem, OrderOf(npages))
          /\ LET r == _page_alloc_order(mem, OrderOf(npages))
             IN  mem' = r.mem /\ held' = held \cup {[addr |-> r.addr, npages |-> npages]}
          /\ UNCHANGED <<sa_slabs, objs>>
       \/ ~ CanAlloc(mem, OrderOf(npages)) /\ out_of_memory

\* The client gives the number of pages it asked for, as page.h demands.
page_free_n(h) ==
    /\ mem' = _page_free_order(mem, h.addr, OrderOf(h.npages))
    /\ held' = held \ {h}
    /\ UNCHANGED <<sa_slabs, objs>>

\* What follows a join with memory that is no block is not modelled.
Next ==
    /\ ~ mem.wild
    /\ \/ Cardinality(objs) < MaxObjs /\ \E size \in Sizes : kmalloc(size)
       \/ Cardinality(objs) < MaxObjs /\ \E a \in Allocators : ~ IsBucket(a) /\ slab_obj_alloc(a)
       \/ \E obj \in objs : IsBucket(obj.sa) /\ kfree(obj)
       \/ \E obj \in objs : ~ IsBucket(obj.sa) /\ slab_obj_free(obj)
       \/ \E npages \in Requests : page_alloc_n(npages)
       \/ \E h \in held : page_free_n(h)

Spec == Init /\ [][Next]_vars
-----------------------------------------------------------------------------
SlabBlocks == UNION {{Block(slab.s_addr, sa_order[a]) : slab \in ToSet(sa_slabs[a])} : a \in Allocators}
FreeBlocks ==
    UNION {{Block(addr, o) : addr \in ToSet(mem.pg_freelist[g][o])} : <<g, o>> \in Groups \X Orders}

\* In every slab the free list and the objects handed out are the objects of
\* the slab, each once, and s_inuse counts those handed out.  An object in use
\* always lies in a slab of its allocator: reclaiming while memory is short
\* never takes a page from under an object.
SlabBooksBalance ==
    /\ TypeOK
    /\ \A a \in Allocators : \A slab \in ToSet(sa_slabs[a]) :
          LET out == {o.place : o \in {x \in objs : x.sa = a /\ x.slab = slab.s_addr}}
          IN  /\ IsInjective(slab.s_free)
              /\ ToSet(slab.s_free) \cap out = {}
              /\ ToSet(slab.s_free) \cup out = 1 .. sa_slab_nobjs[a]
              /\ slab.s_inuse = Cardinality(out)
    /\ \A obj \in objs : \E slab \in ToSet(sa_slabs[obj.sa]) : slab.s_addr = obj.slab

HeldBlocks == {Block(h.addr, OrderOf(h.npages)) : h \in held}
Requested(h) == h.addr .. h.addr + h.npages - 1

\* The pages of slabs, those of direct clients and the free ones never overlap,
\* together they are all of memory, so reclaiming leaks no block, the pages a
\* client asked for are its own, and page_free_count() counts the free ones.
PagesHaveOneOwner ==
    LET blocks == SlabBlocks \cup HeldBlocks \cup FreeBlocks
    IN  /\ SlabBlocks \cap HeldBlocks = {} /\ (SlabBlocks \cup HeldBlocks) \cap FreeBlocks = {}
        /\ \A b, d \in blocks : b # d => Pages(b) \cap Pages(d) = {}
        /\ UNION {Pages(b) : b \in blocks} = UNION {PagesOf(g) : g \in Groups}
        /\ \A h, k \in held : h # k => Requested(h) \cap Requested(k) = {}
        /\ \A h \in held, b \in SlabBlocks \cup FreeBlocks : Requested(h) \cap Pages(b) = {}
        /\ \A g \in Groups, o \in Orders : IsInjective(mem.pg_freelist[g][o])
        /\ mem.page_freecount = FoldSet(LAMBDA b, n : n + 2^b.order, 0, FreeBlocks)

\* What __page_join takes for a free block: one on the free list, or memory that
\* is no block of the group at all.
ReadsFree(g, order, addr) ==
    \/ Block(addr, order) \in FreeBlocks
    \/ ~ Pages(Block(addr, order)) \subseteq PagesOf(g)

\* A bit of a buddy bitmap is set exactly when one of the two buddies is on
\* the free list of the order below and the other is not, where what lies beyond
\* the end of the group reads as free, and no KASSERT on the bitmaps fails.
\* Hence a join never takes a block in use.  Free buddies are always joined:
\* below the largest order no block is free together with its buddy.  And the
\* joining goes wild only over a block whose buddy would reach beyond the group.
BuddyMapsAgree ==
    /\ \A g \in Groups, o \in 1 .. MaxOrder : \A addr \in PagesOf(g) :
          (addr - Ranges[g].base) % 2^o = 0 =>
              (bit_check(mem, g, o, addr)
               <=> ReadsFree(g, o - 1, addr) # ReadsFree(g, o - 1, Buddy(g, o - 1, addr)))
    /\ \A g \in Groups, o \in Orders \ {MaxOrder} : \A addr \in ToSet(mem.pg_freelist[g][o]) :
          Buddy(g, o, addr) \notin ToSet(mem.pg_freelist[g][o])
    /\ mem.wild => \E b \in FreeBlocks : b.order < MaxOrder
          /\ ~ HasBuddy(_pagegroup_from_address(b.addr), b.order, b.addr)
    /\ mem.asserts

\* Known deviation: the leftover blocks at the end of a group cannot be freed.
EveryFreeJoinsBlocks == ~ mem.wild

EverySizeFits ==
    \A objsize \in 1 .. PAGE_SIZE * 2^MaxOrder - SizeofSlab - SizeofBufctl :
        LET order == _calc_slab_size(objsize)
            nobjs == _slab_nobjs(objsize, order)
        IN  nobjs >= 1 /\ _slab_size(objsize, nobjs) <= PAGE_SIZE * 2^order

SlabsFit ==
    /\ EverySizeFits
    /\ \A a \in Allocators : \A slab \in ToSet(sa_slabs[a]) :
          \A place \in ToSet(slab.s_free) \cup {o.place : o \in {x \in objs : x.slab = slab.s_addr}} :
              _slab_size(sa_objsize[a], place) <= PAGE_SIZE * 2^sa_order[a]

\* Every object of a slab, handed out or free, ends with its bufctl before the
\* struct slab at the end of the slab's block.  The same holds of the numbers
\* _calc_slab_size picks for every object size that a block can hold, and there
\* is at least one object, or slab_obj_alloc would loop.  And kmalloc never
\* hands out an object too small for the request and for the pointer in front
\* of it.
ObjectsFit ==
    /\ []SlabsFit
    /\ [][\A size \in Sizes : kmalloc(size) =>
             \A obj \in objs' \ objs :
                 sa_objsize[obj.sa] - 2 * SizeofRedzone >= size + SizeofPointer]_vars
=============================================================================

------------------------------ MODULE PageCore -------------------------------
(***************************************************************************)
(* The buddy page allocator of kernel/mm/page.c as operators on a memory   *)
(* state s, a record of                                                    *)
(*                                                                         *)
(*   pg_freelist    pg_freelist[g][o]: the free blocks of 2^o pages of     *)
(*                  group g, by the number of their first page             *)
(*   pg_map         pg_map[g][o]: the indices of the bits that are set in  *)
(*                  the buddy bitmap of order o                            *)
(*   page_freecount the number of free pages                               *)
(*   asserts        TRUE while no KASSERT has failed                       *)
(*   wild           TRUE once __page_join has gone for a buddy that is not *)
(*                  a block of the group                                   *)
(*                                                                         *)
(* Addresses are page numbers.  Group g manages the pages Ranges[g].base   *)
(* up to, not including, Ranges[g].end, the pages that _pagegroup_create   *)
(* keeps for the struct pagegroup and its bitmaps already taken off.       *)
(***************************************************************************)
EXTENDS Integers, Sequences, SequencesExt, FiniteSetsExt

CONSTANTS
    PAGE_NSIZES,   \* the number of block sizes
    Ranges         \* the page groups, in the order of pagegroup_list

ASSUME NSizesAssumption == PAGE_NSIZES \in Nat \ {0}
ASSUME RangesAssumption ==
    /\ Ranges \in Seq([base : Nat, end : Nat])
    /\ \A g \in DOMAIN Ranges : Ranges[g].base < Ranges[g].end

Groups == DOMAIN Ranges
Orders == 0 .. PAGE_NSIZES - 1
MaxOrder == PAGE_NSIZES - 1
NULL == -1

Pages(block) == block.addr .. block.addr + 2^block.order - 1
Block(addr, order) == [addr |-> addr, order |-> order]
PagesOf(g) == Ranges[g].base .. Ranges[g].end - 1

MemStates ==
    [pg_freelist    : [Groups -> [Orders -> Seq(Nat)]],
     pg_map         : [Groups -> [Orders -> SUBSET Nat]],
     page_freecount : Int,
     asserts        : BOOLEAN,
     wild           : BOOLEAN]
-----------------------------------------------------------------------------
(***************************************************************************)
(* _pagegroup_create: the pages that do not fill a block of the largest    *)
(* order go to the smaller lists, smallest block last, and the rest is cut *)
(* into blocks of the largest order, each pushed on the head of its list.  *)
(***************************************************************************)
Leftover(npages, order) == (npages \div 2^order) % 2

LargestBlocks(g) ==
    LET npages == Ranges[g].end - Ranges[g].base
    IN  [i \in 1 .. npages \div 2^MaxOrder |->
            Ranges[g].base + (npages \div 2^MaxOrder - i) * 2^MaxOrder]

_pagegroup_create(g) ==
    LET npages == Ranges[g].end - Ranges[g].base
    IN  [o \in Orders |->
            IF o = MaxOrder THEN LargestBlocks(g)
            ELSE IF Leftover(npages, o) = 1
                 THEN <<Ranges[g].end - (npages % 2^(o + 1))>>
                 ELSE << >>]

page_add_range ==
    [pg_freelist    |-> [g \in Groups |-> _pagegroup_create(g)],
     pg_map         |-> [g \in Groups |-> [o \in Orders |-> {}]],
     page_freecount |-> FoldSet(LAMBDA g, n : n + Ranges[g].end - Ranges[g].base, 0, Groups),
     asserts        |-> TRUE,
     wild           |-> FALSE]
-----------------------------------------------------------------------------
\* The KASSERT on the address range; the alignment it asserts is that of a page.
InGroup(g, addr) == Ranges[g].base <= addr /\ addr < Ranges[g].end

_pagegroup_from_address(addr) ==
    IF \E g \in Groups : InGroup(g, addr)
    THEN CHOOSE g \in Groups :
            InGroup(g, addr) /\ \A h \in Groups : InGroup(h, addr) => g <= h
    ELSE NULL

_pagegroup_calculate_index(g, order, addr) == (addr - Ranges[g].base) \div 2^order

bit_check(s, g, order, addr) ==
    _pagegroup_calculate_index(g, order, addr) \in s.pg_map[g][order]

\* bit_flip on the bitmap of an order, for a block of the order below.
bit_flip(s, g, order, addr) ==
    IF order > MaxOrder THEN s
    ELSE LET index == _pagegroup_calculate_index(g, order, addr)
         IN  [s EXCEPT !.pg_map[g][order] = SymDiff(@, {index}),
                       !.asserts = @ /\ InGroup(g, addr)]

list_insert_head(s, g, order, addr) ==
    [s EXCEPT !.pg_freelist[g][order] = <<addr>> \o @]

list_remove_head(s, g, order) == [s EXCEPT !.pg_freelist[g][order] = Tail(@)]

\* For a block that is on the list; see __page_join for the other.
list_remove(s, g, order, addr) == [s EXCEPT !.pg_freelist[g][order] = Remove(@, addr)]

\* The group that list_iterate_begin meets first among those with a free
\* block of the order.
FirstWith(s, order) == Min({g \in Groups : s.pg_freelist[g][order] # << >>})
HasFree(s, order) == \E g \in Groups : s.pg_freelist[g][order] # << >>
-----------------------------------------------------------------------------
__page_split(s, g, order) ==
    LET target == Head(s.pg_freelist[g][order])
        t      == bit_flip(list_remove_head(s, g, order), g, order + 1, target)
        buddy  == target + 2^(order - 1)
    IN  list_insert_head(
            list_insert_head(
                [t EXCEPT !.asserts = @ /\ ~ bit_check(t, g, order, target)],
                g, order - 1, target),
            g, order - 1, buddy)

\* The while loop of _page_split: norder, norder - 1, ..., order + 1.
SplitDown(s, g, norder, order) ==
    FoldLeft(LAMBDA t, i : __page_split(t, g, norder + 1 - i), s,
             [i \in 1 .. norder - order |-> i])

\* The smallest order above the given one that has a free block.
LargerFree(s, order) == {o \in order + 1 .. MaxOrder : HasFree(s, o)}

_page_split(s, order) ==
    LET norder == Min(LargerFree(s, order))
    IN  SplitDown(s, FirstWith(s, norder), norder, order)

\* Whether _page_alloc_order finds a block at once or by splitting.
CanAlloc(s, order) == HasFree(s, order) \/ LargerFree(s, order) # {}

\* The address that _page_alloc_order returns and the memory it leaves.
_page_alloc_order(s, order) ==
    LET t    == IF HasFree(s, order) THEN s ELSE _page_split(s, order)
        g    == FirstWith(t, order)
        addr == Head(t.pg_freelist[g][order])
    IN  [addr |-> addr,
         mem  |-> [bit_flip(list_remove_head(t, g, order), g, order + 1, addr)
                      EXCEPT !.page_freecount = @ - 2^order]]
-----------------------------------------------------------------------------
Buddy(g, order, addr) ==
    IF ((addr - Ranges[g].base) \div 2^order) % 2 = 1
    THEN addr - 2^order ELSE addr + 2^order

JoinOnce(s, g, order, addr) ==
    LET buddy == Buddy(g, order, addr)
        low   == IF addr < buddy THEN addr ELSE buddy
        t     == list_remove(list_remove(s, g, order, addr), g, order, buddy)
    IN  bit_flip(list_insert_head(t, g, order + 1, low), g, order + 2, low)

\* A buddy that reaches beyond pg_endaddr is no block: the pages from there on
\* hold the bitmaps and the struct pagegroup.
HasBuddy(g, order, addr) == Pages(Block(Buddy(g, order, addr), order)) \subseteq PagesOf(g)

\* Nothing but the bit is asked, and the bit of a block without a buddy is clear
\* while the block is free.  The list_remove of that "buddy" then writes through
\* whatever its memory holds; the model says so in wild and stops there.
RECURSIVE __page_join(_, _, _, _)
__page_join(s, g, order, addr) ==
    IF order = MaxOrder \/ bit_check(s, g, order + 1, addr) THEN s
    ELSE IF ~ HasBuddy(g, order, addr) THEN [s EXCEPT !.wild = TRUE]
    ELSE __page_join(JoinOnce(s, g, order, addr), g, order + 1,
                     Min({addr, Buddy(g, order, addr)}))

\* Mutant: joins with one buddy and stops.
_page_free_order_once(s, addr, order) ==
    LET g == _pagegroup_from_address(addr)
    IN  [bit_flip(list_insert_head(s, g, order, addr), g, order + 1, addr)
            EXCEPT !.page_freecount = @ + 2^order]

_page_free_order(s, addr, order) ==
    LET g == _pagegroup_from_address(addr)
        t == [list_insert_head(s, g, order, addr) EXCEPT !.page_freecount = @ + 2^order]
    IN  IF g = NULL THEN s
        ELSE IF order < MaxOrder
        THEN __page_join(bit_flip(t, g, order + 1, addr), g, order, addr)
        ELSE t

\* The loop at the head of page_alloc_n and page_free_n.
OrderOf(npages) == Min({o \in Orders : 2^o >= npages})
=============================================================================

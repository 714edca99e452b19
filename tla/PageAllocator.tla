--------------------------- MODULE PageAllocator ---------------------------
(***************************************************************************)
(* The buddy allocator for heap pages, HeapMemoryRegion and PageRef of     *)
(* kernel/src/mm/alloc.rs.                                                 *)
(*                                                                         *)
(* The region m holds one descriptor per page, a linked list of free       *)
(* blocks per order, threaded through the descriptors, and two counters    *)
(* per order.  All functions run under the lock of ROOT_MEM, so each       *)
(* public function is one action; the methods they are made of are         *)
(* operators that map a region to a region.  Addresses are page numbers,   *)
(* and the contents of pages are left out.                                 *)
(***************************************************************************)
EXTENDS Integers, SequencesExt

CONSTANTS
    MAX_ORDER,      \* number of orders (6 in the code)
    USIZE,          \* number of values of a counter (2^64)
    Layouts,        \* heaps to start from: pages, pages in use at boot and
                    \* those of them that hold the boot parameters
    MaxRefs         \* PageRefs to one page in a behaviour

ASSUME OrderAssumption == MAX_ORDER \in Nat \ {0}

NO_PAGE == -1       \* usize::MAX
Orders == 0..(MAX_ORDER - 1)

VARIABLES
    m,          \* the HeapMemoryRegion
    held,       \* held[p]: order of the block p the kernel has been given and
                \* has not freed
    refs,       \* refs[p]: live PageRefs to page p
    boot        \* pages in use since before the heap was set up: those that hold
                \* the boot parameters, and those that stay

vars == <<m, held, refs, boot>>

Free(o, next) == [type |-> "Free", order |-> o, next |-> next, count |-> 0]
Allocated(o) == [type |-> "Allocated", order |-> o, next |-> NO_PAGE, count |-> 0]
SlabInfo == [type |-> "Slab", order |-> 0, next |-> NO_PAGE, count |-> 0]
Compound(o) == [type |-> "Compound", order |-> o, next |-> NO_PAGE, count |-> 0]
FileInfo(n) == [type |-> "File", order |-> 0, next |-> NO_PAGE, count |-> n]
ReservedInfo == [type |-> "Reserved", order |-> 0, next |-> NO_PAGE, count |-> 0]

PageInfo ==
    [type : {"Free", "Allocated", "Slab", "Compound", "File", "Reserved"},
     order : Orders, next : Nat \union {NO_PAGE}, count : Nat]

Pages == DOMAIN m.info

TypeOK ==
    /\ m.info \in [Pages -> PageInfo]
    /\ m.next_page \in [Orders -> Pages \union {NO_PAGE}]
    /\ m.nr_pages \in [Orders -> 0..(USIZE - 1)]
    /\ m.free_pages \in [Orders -> 0..(USIZE - 1)]
    /\ m.panic \in BOOLEAN
    /\ held \in [DOMAIN held -> Orders] /\ DOMAIN held \subseteq Pages
    /\ refs \in [Pages -> 0..MaxRefs]
    /\ boot \in [params : SUBSET Pages, stay : SUBSET Pages]

Panic(r) == [r EXCEPT !.panic = TRUE]

-----------------------------------------------------------------------------
(* Methods of HeapMemoryRegion.                                            *)

\* The page at the head of a list is taken off it
get_next_page(r, order) ==
    LET pfn == r.next_page[order] IN
    IF r.info[pfn].type # "Free" THEN Panic(r)
    ELSE [r EXCEPT !.next_page[order] = r.info[pfn].next,
                   !.free_pages[order] = (@ - 1) % USIZE]

mark_compound_page(r, pfn, order) ==
    [r EXCEPT !.info = [p \in DOMAIN @ |->
        IF p \in (pfn + 1)..(pfn + 2^order - 1) THEN Compound(order) ELSE @[p]]]

init_compound_page(r, pfn, order, next_pfn) ==
    mark_compound_page([r EXCEPT !.info[pfn] = Free(order, next_pfn)], pfn, order)

\* Mutant: the second half starts one order too far
split_page_wide(r, pfn, order) ==
    LET o == order - 1
        pfn2 == pfn + 2^order
    IN [init_compound_page(init_compound_page(r, pfn, o, pfn2), pfn2, o, r.next_page[o])
          EXCEPT !.next_page[o] = pfn,
                 !.nr_pages[order] = (@ - 1) % USIZE,
                 !.nr_pages[o] = (@ + 2) % USIZE,
                 !.free_pages[o] = (@ + 2) % USIZE]

split_page(r, pfn, order) ==
    LET o == order - 1
        pfn2 == pfn + 2^o
    IN [init_compound_page(init_compound_page(r, pfn, o, pfn2), pfn2, o, r.next_page[o])
          EXCEPT !.next_page[o] = pfn,
                 !.nr_pages[order] = (@ - 1) % USIZE,
                 !.nr_pages[o] = (@ + 2) % USIZE,
                 !.free_pages[o] = (@ + 2) % USIZE]

\* refill_page_list() succeeds
Refillable(r, order) == \E o \in order..(MAX_ORDER - 1) : r.next_page[o] # NO_PAGE

\* The smallest block that is large enough is split down to the order
refill_page_list(r, order) ==
    LET refill_order == Min({o \in order..(MAX_ORDER - 1) : r.next_page[o] # NO_PAGE})
        Down == [i \in 1..(refill_order - order) |-> refill_order - i + 1]
        Split(q, o) == split_page(get_next_page(q, o), q.next_page[o], o)
    IN FoldLeft(Split, r, Down)

\* The region after allocate_pages_info(); the page is the one at the head of
\* the refilled list
allocate_pages_info(r, order, pg) ==
    LET q == refill_page_list(r, order) IN
    [get_next_page(q, order) EXCEPT !.info[q.next_page[order]] = pg]

allocated_pfn(r, order) == refill_page_list(r, order).next_page[order]

\* pfn ^ (1 << order), or NO_PAGE if there is none
compound_neighbor(r, pfn, order) ==
    LET n == IF (pfn \div 2^order) % 2 = 0 THEN pfn + 2^order ELSE pfn - 2^order IN
    IF order >= MAX_ORDER - 1 \/ n >= r.page_count THEN NO_PAGE ELSE n

\* Mutant: the pages of the merged block keep the order of its halves
merge_pages_unmarked(r, pfn1, pfn2, order) ==
    [r EXCEPT !.info[Min({pfn1, pfn2})] = Allocated(order + 1),
              !.info[Max({pfn1, pfn2})] = Compound(order + 1),
              !.nr_pages[order] = (@ - 2) % USIZE,
              !.nr_pages[order + 1] = (@ + 1) % USIZE]

merge_pages(r, pfn1, pfn2, order) ==
    LET pfn == Min({pfn1, pfn2}) IN
    [mark_compound_page([r EXCEPT !.info[pfn] = Allocated(order + 1)], pfn, order + 1)
       EXCEPT !.nr_pages[order] = (@ - 2) % USIZE,
              !.nr_pages[order + 1] = (@ + 1) % USIZE]

\* The pages met when the list of an order is walked
FreeList(r, order) ==
    LET step(p) == IF p \in DOMAIN r.info /\ r.info[p].type = "Free"
                   THEN r.info[p].next ELSE NO_PAGE
        walk[k \in 0..r.page_count] == IF k = 0 THEN r.next_page[order] ELSE step(walk[k - 1])
    IN SelectSeq([k \in 1..(r.page_count + 1) |-> walk[k - 1]], LAMBDA p : p # NO_PAGE)

\* Mutant: the list ends where the block was
allocate_pfn_cut(r, pfn, order) ==
    LET before == {p \in Range(FreeList(r, order)) : r.info[p].next = pfn} IN
    IF r.next_page[order] = pfn THEN get_next_page(r, order)
    ELSE LET old == CHOOSE p \in before : TRUE IN
         [r EXCEPT !.info[old] = Free(order, NO_PAGE),
                   !.info[pfn] = Allocated(order),
                   !.free_pages[order] = (@ - 1) % USIZE]

\* allocate_pfn(): a block is unlinked, wherever in the list it is; its
\* descriptor is written only if it was not the first
allocate_pfn(r, pfn, order) ==
    LET before == {p \in Range(FreeList(r, order)) : r.info[p].next = pfn} IN
    IF r.next_page[order] = pfn THEN get_next_page(r, order)
    ELSE LET old == CHOOSE p \in before : TRUE IN
         [r EXCEPT !.info[old] = Free(order, r.info[pfn].next),
                   !.info[pfn] = Allocated(order),
                   !.free_pages[order] = (@ - 1) % USIZE]

free_page_raw(r, pfn, order) ==
    [r EXCEPT !.info[pfn] = Free(order, r.next_page[order]),
              !.next_page[order] = pfn,
              !.free_pages[order] = (@ + 1) % USIZE]

\* try_to_merge_page() succeeds
Mergeable(r, pfn, order) ==
    LET n == compound_neighbor(r, pfn, order) IN
    /\ n # NO_PAGE
    /\ r.info[n].type = "Free" /\ r.info[n].order = order
    /\ n \in Range(FreeList(r, order))

try_to_merge_page(r, pfn, order) ==
    LET n == compound_neighbor(r, pfn, order) IN
    merge_pages(allocate_pfn(r, n, order), pfn, n, order)

\* Mutant: at most one merge
free_page_order_once(r, pfn, order) ==
    IF Mergeable(r, pfn, order)
    THEN free_page_raw(try_to_merge_page(r, pfn, order),
                       Min({pfn, compound_neighbor(r, pfn, order)}), order + 1)
    ELSE free_page_raw(r, pfn, order)

\* Merges as long as the neighbour is free and of the same order
free_page_order(r, pfn, order) ==
    LET Merge(s, o) ==
            IF s.order = o /\ Mergeable(s.r, s.pfn, o)
            THEN [r |-> try_to_merge_page(s.r, s.pfn, o),
                  pfn |-> Min({s.pfn, compound_neighbor(s.r, s.pfn, o)}), order |-> o + 1]
            ELSE s
        end == FoldLeft(Merge, [r |-> r, pfn |-> pfn, order |-> order],
                        [i \in 1..(MAX_ORDER - order) |-> order + i - 1])
    IN free_page_raw(end.r, end.pfn, end.order)

free_page(r, pfn) ==
    CASE r.info[pfn].type = "Allocated" -> free_page_order(r, pfn, r.info[pfn].order)
      [] r.info[pfn].type \in {"Slab", "File"} -> free_page_order(r, pfn, 0)
      [] OTHER -> Panic(r)

FreeEach(r, first, last) ==
    FoldLeft(LAMBDA q, p : free_page_order(q, p, 0), r,
             [i \in 1..(last - first) |-> first + i - 1])

-----------------------------------------------------------------------------
\* The descriptors, of 8 bytes each, are in the last pages of the heap
meta_pages(page_count) == (page_count * 8 + 4095) \div 4096

init_memory(page_count, allocated) ==
    LET alloc_pages == page_count - meta_pages(page_count)
        alignment == 2^(MAX_ORDER - 1)
        first == ((allocated + alignment - 1) \div alignment) * alignment
        last == (alloc_pages \div alignment) * alignment
        none == [o \in Orders |-> 0]
        r == [page_count |-> page_count, panic |-> FALSE,
              info |-> [p \in 0..(page_count - 1) |->
                           IF p < alloc_pages THEN Allocated(0) ELSE ReservedInfo],
              next_page |-> [o \in Orders |-> NO_PAGE],
              nr_pages |-> none, free_pages |-> none]
        Whole(q, i) == free_page_raw(mark_compound_page(q, i, MAX_ORDER - 1), i, MAX_ORDER - 1)
        aligned == FoldLeft(Whole,
                            [r EXCEPT !.nr_pages[MAX_ORDER - 1] = (last - first) \div alignment],
                            [i \in 1..((last - first) \div alignment) |->
                                first + (i - 1) * alignment])
        rest == (first - allocated) + (alloc_pages - last)
    IN IF last > first
       THEN FreeEach(FreeEach([aligned EXCEPT !.nr_pages[0] = @ + rest], allocated, first),
                     last, alloc_pages)
       ELSE FreeEach([r EXCEPT !.nr_pages[0] = alloc_pages - allocated], allocated, alloc_pages)

Init ==
    \E l \in Layouts :
        /\ m = init_memory(l.page_count, l.allocated)
        /\ held = <<>>
        /\ refs = [p \in 0..(l.page_count - 1) |-> 0]
        /\ boot = [params |-> l.params, stay |-> (0..(l.allocated - 1)) \ l.params]

With(f, p, x) == [q \in DOMAIN f \union {p} |-> IF q = p THEN x ELSE f[q]]
Without(f, p) == [q \in DOMAIN f \ {p} |-> f[q]]

\* allocate_page(), allocate_pages(), allocate_zeroed_page(); without memory
\* they return an error and nothing changes
AllocatePages(order) ==
    /\ Refillable(m, order)
    /\ m' = allocate_pages_info(m, order, Allocated(order))
    /\ held' = With(held, allocated_pfn(m, order), order)
    /\ UNCHANGED <<refs, boot>>

\* A slab takes a page
AllocateSlabPage ==
    /\ Refillable(m, 0)
    /\ m' = allocate_pages_info(m, 0, SlabInfo)
    /\ held' = With(held, allocated_pfn(m, 0), 0)
    /\ UNCHANGED <<refs, boot>>

\* free_page() by the owner of a block
FreePage(pfn) ==
    /\ m' = free_page(m, pfn)
    /\ held' = Without(held, pfn)
    /\ UNCHANGED <<refs, boot>>

\* PageRef::new() and try_copy_page()
AllocateFilePage ==
    /\ Refillable(m, 0)
    /\ m' = allocate_pages_info(m, 0, FileInfo(1))
    /\ refs' = [refs EXCEPT ![allocated_pfn(m, 0)] = 1]
    /\ UNCHANGED <<held, boot>>

\* PageRef::clone(): get_file_page()
GetFilePage(pfn) ==
    /\ refs[pfn] \in 1..(MaxRefs - 1)
    /\ m' = IF m.info[pfn].type = "File" /\ m.info[pfn].count > 0
            THEN [m EXCEPT !.info[pfn].count = @ + 1] ELSE Panic(m)
    /\ refs' = [refs EXCEPT ![pfn] = @ + 1]
    /\ UNCHANGED <<held, boot>>


\* Drop of a PageRef: put_file_page()
PutFilePage(pfn) ==
    /\ refs[pfn] > 0
    /\ m' = CASE m.info[pfn].type # "File" \/ m.info[pfn].count = 0 -> Panic(m)
              [] m.info[pfn].count > 1 -> [m EXCEPT !.info[pfn].count = @ - 1]
              [] OTHER -> free_page(m, pfn)
    /\ refs' = [refs EXCEPT ![pfn] = @ - 1]
    /\ UNCHANGED <<held, boot>>

\* Drop of the BootParamBox: free_multiple_pages() on pages that were in use
\* before the heap was set up
FreeBootParams ==
    /\ boot.params # {}
    /\ m' = FoldLeft(free_page, m, SetToSortSeq(boot.params, <))
    /\ boot' = [boot EXCEPT !.params = {}]
    /\ UNCHANGED <<held, refs>>

Next ==
    /\ ~m.panic
    /\ \/ \E order \in Orders : AllocatePages(order)
       \/ AllocateSlabPage \/ AllocateFilePage
       \/ \E pfn \in DOMAIN held : FreePage(pfn)
       \/ \E pfn \in Pages : GetFilePage(pfn) \/ PutFilePage(pfn)
       \/ FreeBootParams

Spec == Init /\ [][Next]_vars

-----------------------------------------------------------------------------
Block(p, order) == p..(p + 2^order - 1)
Heads == {p \in Pages : m.info[p].type \notin {"Compound", "Reserved"}}
FreeOf(order) == {p \in Heads : m.info[p].type = "Free" /\ m.info[p].order = order}

\* Every list holds exactly the free blocks of its order, each once, and its
\* counter is their number; a list that lost or repeated a block would leak
\* memory or hand it out twice.
FreeListsExact ==
    \A o \in Orders :
        LET list == FreeList(m, o) IN
        /\ IsInjective(list)
        /\ Range(list) = FreeOf(o)
        /\ Len(list) = m.free_pages[o]

\* The blocks tile the heap: each is aligned to its size, its other pages are
\* marked as parts of a block of that order, and no page is outside a block.
\* The blocks that are not free are exactly those somebody owns, with the order
\* that was asked for or the number of PageRefs that are alive.
BlocksTile ==
    /\ \A p \in Heads :
          /\ p % 2^m.info[p].order = 0
          /\ \A q \in Block(p, m.info[p].order) \ {p} :
                q \in Pages /\ m.info[q] = Compound(m.info[p].order)
    /\ {q \in Pages : m.info[q].type # "Reserved"} = UNION {Block(p, m.info[p].order) : p \in Heads}
    /\ \A p \in Heads :
          CASE m.info[p].type \in {"Allocated", "Slab"} ->
                   IF p \in DOMAIN held THEN held[p] = m.info[p].order
                   ELSE p \in boot.params \union boot.stay
            [] m.info[p].type = "File" -> refs[p] = m.info[p].count /\ refs[p] > 0
            [] OTHER -> refs[p] = 0 /\ p \notin DOMAIN held \union boot.params \union boot.stay

\* Memory is not lost to fragmentation that freeing could have undone: if all
\* pages of an aligned block are free, an allocation of its size succeeds.
NoSpuriousFailure ==
    \A o \in Orders : \A p \in Pages :
        /\ p % 2^o = 0
        /\ \A q \in Block(p, o) :
              q \in Pages /\ \E h \in Heads : m.info[h].type = "Free" /\ q \in Block(h, m.info[h].order)
        => Refillable(m, o)

\* No descriptor is of an unexpected type, no reference count underflows.
NoPanic == ~m.panic

\* memory_info() reports the "total and free pages in different orders": there
\* are never more free blocks of an order than blocks.
FreeWithinTotal == \A o \in Orders : m.free_pages[o] <= m.nr_pages[o]
=============================================================================

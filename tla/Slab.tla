-------------------------------- MODULE Slab --------------------------------
(***************************************************************************)
(* The slab allocator of kernel/src/mm/alloc.rs: one Slab per size, each   *)
(* behind its lock, and SLAB_PAGE_SLAB, the slab the descriptors of slab   *)
(* pages come from, its own included.  A slab changes only under its lock, *)
(* and calls SLAB_PAGE_SLAB and the heap at most once, so a call of the    *)
(* allocator is one action.                                                *)
(*                                                                         *)
(* A slab page is the address of its memory and the slots in use; the      *)
(* first of a slab is part of the slab, the others have a descriptor in a  *)
(* slot of SLAB_PAGE_SLAB.                                                 *)
(***************************************************************************)
EXTENDS Integers, SequencesExt

CONSTANTS
    Slabs,          \* the slabs of SvsmAllocator
    Capacity,       \* Capacity[k]: slots in a page of k
    HeapPages       \* pages of the heap that slabs may get

PageSlab == "SlabPageSlab"
All == Slabs \union {PageSlab}

VARIABLES
    alloc,      \* common: the SlabCommon of each slab; heap: free pages; desc:
                \* where the descriptor of a page is; panic, an assertion failed
    live        \* objects allocated and not freed

slabVars == <<alloc, live>>

SlabPage(k, base) == [base |-> base, free |-> Capacity[k], used |-> {}]
SlabCommon == [capacity |-> 0, free |-> 0, pages |-> 0, full_pages |-> 0, free_pages |-> 0,
               list |-> <<>>]

SlabInit ==
    /\ alloc = [common |-> [k \in All |-> SlabCommon], heap |-> HeapPages,
                desc |-> [p \in HeapPages |-> <<>>], panic |-> FALSE]
    /\ live = {}

Panicked(a) == [a EXCEPT !.panic = TRUE]
Failed(a) == [a |-> a, ok |-> FALSE, slot |-> <<>>]
Done(a) == [a |-> a, ok |-> TRUE, slot |-> <<>>]
Got(a, slot) == [a |-> a, ok |-> TRUE, slot |-> slot]

-----------------------------------------------------------------------------
(* SlabCommon and SlabPage.                                                *)

common_init(a, k) ==
    IF a.heap = {} THEN Failed(a)
    ELSE Done([a EXCEPT
            !.heap = @ \ {Min(a.heap)},
            !.common[k] = [@ EXCEPT !.capacity = Capacity[k], !.free = Capacity[k], !.pages = 1,
                                    !.full_pages = 0, !.free_pages = 1,
                                    !.list = <<SlabPage(k, Min(a.heap))>>]])

add_slab_page(a, k, page) ==
    [a EXCEPT !.common[k] = [@ EXCEPT !.pages = @ + 1, !.free_pages = @ + 1,
                                      !.capacity = @ + Capacity[k], !.free = @ + Capacity[k],
                                      !.list = InsertAt(@, 2, page)]]

\* The first page of the list with a free slot, and its first one
page_allocate(k, page) == Min((0..(Capacity[k] - 1)) \ page.used)

allocate_slot(a, k) ==
    LET c == a.common[k]
        with == {i \in 1..Len(c.list) : c.list[i].free # 0}
        i == Min(with)
        page == c.list[i]
        slot == page_allocate(k, page)
    IN IF c.free = 0 \/ with = {} THEN Failed(Panicked(a))
       ELSE Got([a EXCEPT !.common[k] =
                   [@ EXCEPT !.free = @ - 1,
                             !.free_pages = IF page.free = Capacity[k] THEN @ - 1 ELSE @,
                             !.full_pages = IF page.free = 1 THEN @ + 1 ELSE @,
                             !.list[i] = [@ EXCEPT !.free = @ - 1, !.used = @ \union {slot}]]],
                <<page.base, slot>>)

\* Mutant: a page counts as free one slot too early
deallocate_slot_full(a, k, slot) ==
    LET c == a.common[k]
        i == CHOOSE n \in 1..Len(c.list) : c.list[n].base = slot[1]
    IN [a EXCEPT !.common[k] =
            [@ EXCEPT !.free = @ + 1,
                      !.full_pages = IF c.list[i].free = 0 THEN @ - 1 ELSE @,
                      !.free_pages = IF c.list[i].free + 1 >= Capacity[k] - 1 THEN @ + 1 ELSE @,
                      !.list[i] = [@ EXCEPT !.free = @ + 1, !.used = @ \ {slot[2]}]]]

deallocate_slot(a, k, slot) ==
    LET c == a.common[k]
        with == {n \in 1..Len(c.list) : c.list[n].base = slot[1]}
        i == Min(with)
        page == c.list[i]
    IN IF with = {} THEN Panicked(a)
       ELSE [a EXCEPT !.common[k] =
            [@ EXCEPT !.free = @ + 1,
                      !.full_pages = IF page.free = 0 THEN @ - 1 ELSE @,
                      !.free_pages = IF page.free # 0 /\ page.free + 1 = Capacity[k]
                                     THEN @ + 1 ELSE @,
                      !.list[i] = [@ EXCEPT !.free = @ + 1, !.used = @ \ {slot[2]}]]]

\* A slot of SLAB_PAGE_SLAB and a page for the descriptor in it, or neither
allocate_page_slot(a) ==
    LET got == allocate_slot(a, PageSlab)
        base == Min(a.heap)
    IN IF ~got.ok THEN got
       ELSE IF a.heap = {} THEN Failed(deallocate_slot(got.a, PageSlab, got.slot))
       ELSE Got([got.a EXCEPT !.heap = @ \ {base}, !.desc[base] = got.slot], <<base>>)

deallocate_page_slot(a, base) ==
    deallocate_slot([a EXCEPT !.heap = @ \union {base}, !.desc[base] = <<>>], PageSlab, a.desc[base])

\* The page of the slab that free_one_page() takes: not the first one
unused_page(a, k) ==
    Min({i \in 2..Len(a.common[k].list) : a.common[k].list[i].free = Capacity[k]})

free_one_page(a, k) ==
    [a EXCEPT !.common[k] = [@ EXCEPT !.pages = @ - 1, !.free_pages = @ - 1,
                                      !.capacity = @ - Capacity[k], !.free = @ - Capacity[k],
                                      !.list = RemoveAt(@, unused_page(a, k))]]

-----------------------------------------------------------------------------
(* SlabPageSlab.                                                           *)

\* The page a slab was given, if it was, joins its list.
add_page_to_slab(got, k) ==
    IF got.ok THEN Done(add_slab_page(got.a, k, SlabPage(k, got.slot[1]))) ELSE got

\* Mutant: the slab grows only when it has no slot left
page_slab_grow_late(a) ==
    CASE a.common[PageSlab].capacity = 0 -> common_init(a, PageSlab)
      [] a.common[PageSlab].free >= 1 -> Done(a)
      [] OTHER -> add_page_to_slab(allocate_page_slot(a), PageSlab)

page_slab_grow(a) ==
    CASE a.common[PageSlab].capacity = 0 -> common_init(a, PageSlab)
      [] a.common[PageSlab].free >= 2 -> Done(a)
      [] OTHER -> add_page_to_slab(allocate_page_slot(a), PageSlab)

\* The loop: freeing a page may empty another one
page_slab_shrink(a) ==
    LET Shrink(b, i) ==
            IF b.common[PageSlab].free_pages <= 1 THEN b
            ELSE deallocate_page_slot(
                    free_one_page(b, PageSlab),
                    b.common[PageSlab].list[unused_page(b, PageSlab)].base)
    IN FoldLeft(Shrink, a, [i \in 1..Len(a.common[PageSlab].list) |-> i])

allocate_if_grown(grown) == IF grown.ok THEN allocate_page_slot(grown.a) ELSE grown

page_slab_allocate(a) == allocate_if_grown(page_slab_grow(a))

page_slab_deallocate(a, base) == page_slab_shrink(deallocate_page_slot(a, base))

-----------------------------------------------------------------------------
(* Slab.                                                                   *)

grow_slab(a, k) ==
    CASE a.common[k].capacity = 0 -> common_init(a, k)
      [] a.common[k].free # 0 -> Done(a)
      [] OTHER -> add_page_to_slab(page_slab_allocate(a), k)

\* Mutant: the last page is freed, whether it is unused or not
shrink_slab_last(a, k) ==
    LET list == a.common[k].list IN
    IF Len(list) < 2 \/ 2 * a.common[k].free < a.common[k].capacity THEN a
    ELSE page_slab_deallocate([a EXCEPT !.common[k].list = Front(list)], Last(list).base)

shrink_slab(a, k) ==
    IF a.common[k].free_pages <= 1 \/ 2 * a.common[k].free < a.common[k].capacity THEN a
    ELSE page_slab_deallocate(free_one_page(a, k), a.common[k].list[unused_page(a, k)].base)

SlabAllocate(k) ==
    \E grown \in {grow_slab(alloc, k)} :
       IF grown.ok
       THEN \E got \in {allocate_slot(grown.a, k)} :
               alloc' = got.a /\ live' = live \union {<<k, got.slot>>}
       ELSE alloc' = grown.a /\ UNCHANGED live

SlabDeallocate(k, slot) ==
    /\ <<k, slot>> \in live
    /\ alloc' = shrink_slab(deallocate_slot(alloc, k, slot), k)
    /\ live' = live \ {<<k, slot>>}

SlabNext ==
    /\ ~alloc.panic
    /\ \/ \E k \in Slabs : SlabAllocate(k)
       \/ \E object \in live : SlabDeallocate(object[1], object[2])

SlabSpec == SlabInit /\ [][SlabNext]_slabVars

-----------------------------------------------------------------------------
PagesOf(k) == {alloc.common[k].list[i].base : i \in 1..Len(alloc.common[k].list)}
SlotsOf(k) ==
    UNION {{<<page.base, i>> : i \in page.used} : page \in Range(alloc.common[k].list)}

\* Memory in use stays in use: the slots in use are those of the live objects
\* and, in SLAB_PAGE_SLAB, of the descriptors of pages that still belong to a
\* slab, however pages were added, found empty and freed; no page of a slab is
\* free in the heap or belongs to two slabs.
SlotsAreLive ==
    /\ \A k \in Slabs : SlotsOf(k) = {o[2] : o \in {x \in live : x[1] = k}}
    /\ SlotsOf(PageSlab) = {alloc.desc[p] : p \in {q \in HeapPages : alloc.desc[q] # <<>>}}
    /\ \A p, q \in HeapPages : alloc.desc[p] # <<>> /\ alloc.desc[p] = alloc.desc[q] => p = q
    /\ \A k \in All : PagesOf(k) \intersect alloc.heap = {}
    /\ \A j, k \in All : j # k => PagesOf(j) \intersect PagesOf(k) = {}

\* The counters that decide when a slab grows and shrinks are those of its
\* pages, so that "Cannot fail with free slots" holds in allocate_slot(), and
\* SLAB_PAGE_SLAB always keeps one slot to extend itself with: the assertions in
\* grow_slab() and allocate_slot() and the expect() of free_one_page() hold.
CountersExact ==
    /\ ~alloc.panic
    /\ alloc.common[PageSlab].capacity # 0 => alloc.common[PageSlab].free >= 1
    /\ \A k \in All :
          LET c == alloc.common[k]
              NumberWith(n) == Cardinality({i \in 1..Len(c.list) : c.list[i].free = n})
          IN /\ c.pages = Len(c.list) /\ c.capacity = c.pages * Capacity[k]
             /\ c.free_pages = NumberWith(Capacity[k]) /\ c.full_pages = NumberWith(0)
             /\ \A i \in 1..Len(c.list) : c.list[i].free = Capacity[k] - Cardinality(c.list[i].used)
             /\ c.free + Cardinality(SlotsOf(k)) = c.capacity
=============================================================================

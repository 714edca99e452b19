------------------------------ MODULE MCMemory ------------------------------
(***************************************************************************)
(* One run for the models of the kernel's memory: the page allocator, the  *)
(* slab allocator on top of it, pages shared with the host, the regions of *)
(* an address space (Vmr) and the global windows (GlobalMemory).  A        *)
(* behaviour is one of the model that part names; the variables of the     *)
(* others stay 0.                                                          *)
(***************************************************************************)
EXTENDS PageAllocator

CONSTANTS c1, c2, Sharers, Dropped

VARIABLES
    part,
    alloc, live,
    pmd, rmp, bitmap, visTlb, free, boxes, lock, refused, visOp,
    mem, tree, parts, root, tlb, op, per_cpu, unflushed,
    gmem, range_4k, range_2m, guards, gtlb, gop, local

Cpu == {c1, c2}

Layout(page_count, allocated, pages) ==
    [page_count |-> page_count, allocated |-> allocated, params |-> pages]

MCLayouts ==
    {\* no aligned block of the largest order
     Layout(7, 1, {0}),
     \* blocks in and after the aligned part
     Layout(10, 5, {2, 3}),
     \* blocks before it
     Layout(9, 4, {0})}

\* Two slabs whose pages hold two and three objects; a page of the slab of
\* descriptors holds two.
Sl == INSTANCE Slab
        WITH Slabs <- {"a", "b"}, HeapPages <- 1 .. 5,
             Capacity <- [k \in {"a", "b", "SlabPageSlab"} |-> IF k = "b" THEN 3 ELSE 2]

Vi == INSTANCE PageVisibility
        WITH Cpus <- Cpu, Pages <- {1, 2}, BoxPages <- {1, 2}, tlb <- visTlb, op <- visOp

\* Two granules of two tables each; anonymous memory, a stack, reserved and
\* physical ranges, and a private mapping of a file of one page.
Vm == INSTANCE Vmr
        WITH Cpus <- Cpu, Fan <- [l \in 0 .. 2 |-> IF l = 2 THEN 1 ELSE 2],
             File <- <<101>>, Pool <- 1 .. 4, Watched <- {1}, MaxMappings <- 2,
             Granules <- 2, Hints <- {1, 3},
             Requests <- {[kind |-> "anon", n |-> 2], [kind |-> "stack", n |-> 1],
                          [kind |-> "reserved", n |-> 1], [kind |-> "phys", n |-> 1],
                          [kind |-> "file", n |-> 1, offset |-> 0, private |-> TRUE,
                           write |-> TRUE]}

Gm == INSTANCE GlobalMemory
        WITH Cpus <- Cpu, Fan <- [l \in 0 .. 2 |-> IF l = 0 THEN 5 ELSE IF l = 1 THEN 4 ELSE 1],
             Tables <- {1, 2, 3}, Physical <- {100, 200}, Counts <- {1, 2}, MaxGuards <- 2,
             WordBits <- 3, Words <- 2, LogCapacity <- 2

slabVars == <<alloc, live>>
visVars == <<pmd, rmp, bitmap, visTlb, free, boxes, lock, refused, visOp>>
vmrVars == <<mem, tree, parts, root, tlb, op, per_cpu, unflushed>>
gmVars == <<gmem, range_4k, range_2m, guards, gtlb, gop, local>>
allVars == <<part, vars, slabVars, visVars, vmrVars, gmVars>>

PagesOff == m = 0 /\ held = 0 /\ refs = 0 /\ boot = 0
SlabOff == alloc = 0 /\ live = 0
VisOff ==
    /\ pmd = 0 /\ rmp = 0 /\ bitmap = 0 /\ visTlb = 0 /\ free = 0
    /\ boxes = 0 /\ lock = 0 /\ refused = 0 /\ visOp = 0
VmrOff ==
    /\ mem = 0 /\ tree = 0 /\ parts = 0 /\ root = 0 /\ tlb = 0
    /\ op = 0 /\ per_cpu = 0 /\ unflushed = 0
GmOff ==
    /\ gmem = 0 /\ range_4k = 0 /\ range_2m = 0 /\ guards = 0
    /\ gtlb = 0 /\ gop = 0 /\ local = 0

MCInit ==
    \/ part = "pages" /\ Init /\ SlabOff /\ VisOff /\ VmrOff /\ GmOff
    \/ part = "slab" /\ Sl!SlabInit /\ PagesOff /\ VisOff /\ VmrOff /\ GmOff
    \/ part = "vis" /\ Vi!VisInit /\ PagesOff /\ SlabOff /\ VmrOff /\ GmOff
    \/ part = "vmr" /\ Vm!VmrInit /\ PagesOff /\ SlabOff /\ VisOff /\ GmOff
    \/ part = "gm" /\ Gm!GmInit /\ PagesOff /\ SlabOff /\ VisOff /\ VmrOff

MCNext ==
    /\ \/ part = "pages" /\ Next /\ UNCHANGED <<slabVars, visVars, vmrVars, gmVars>>
       \/ part = "slab" /\ Sl!SlabNext /\ UNCHANGED <<vars, visVars, vmrVars, gmVars>>
       \/ part = "vis" /\ Vi!VisNext /\ UNCHANGED <<vars, slabVars, vmrVars, gmVars>>
       \/ part = "vmr" /\ Vm!VmrNext /\ UNCHANGED <<vars, slabVars, visVars, gmVars>>
       \/ part = "gm" /\ Gm!GmNext /\ UNCHANGED <<vars, slabVars, visVars, vmrVars>>
    /\ UNCHANGED part

MCSpec == MCInit /\ [][MCNext]_allVars

\* Pages, or objects of a slab, are where the free lists and counters say: the
\* blocks tile the heap, and every free block is in the list of its order.
FreeExact == part = "pages" => TypeOK /\ FreeListsExact /\ BlocksTile


\* An object in use has a slot of its own in a page the slab still has, and the
\* counters of a slab count its pages and free slots.
ObjectsKept == part = "slab" => Sl!SlotsAreLive /\ Sl!CountersExact



\* The page tables map what the bookkeeping says they map, and no page is lost.
TablesExact ==
    /\ part = "vmr" => Vm!TablesMatchTree /\ Vm!PagesAccounted
    /\ part = "gm" => Gm!GuardsMapped

\* No CPU translates an address through an entry that was removed, once the
\* address or the page can be used again.
NoStaleTranslation ==
    /\ part = "vmr" => Vm!NoStaleTranslation
    /\ part = "gm" => Gm!NoReuseBeforeFlush

\* Address ranges are chosen where the bookkeeping says they are free.
RangesChosen ==
    /\ part = "vmr" => Vm!FirstFit
    /\ part = "gm" => Gm!BitmapsExact
=============================================================================

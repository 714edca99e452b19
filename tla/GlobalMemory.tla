---------------------------- MODULE GlobalMemory ----------------------------
(***************************************************************************)
(* Mappings made at addresses of the SVSM's own choice: map_global_range() *)
(* and its guard (kernel/src/mm/global_memory.rs), visible to every CPU,   *)
(* and PerCPUPageMappingGuard (kernel/src/mm/ptguards.rs), visible to one. *)
(* Both take addresses from a pair of VirtualRanges, one for 4KiB and one  *)
(* for 2MiB pages, map them, and when the guard is dropped unmap, flush    *)
(* and give the addresses back.                                            *)
(*                                                                         *)
(* The 4KiB range covers the first 2MiB of the window and the 2MiB range   *)
(* the rest; an address is a 4KiB page number.  One CPU maps: the tables   *)
(* of the global window are common to all CPUs and its lock is not, and    *)
(* the boot CPU makes all global mappings.  Any CPU may drop one.          *)
(***************************************************************************)
EXTENDS Naturals, FiniteSets, Sequences, SequencesExt, PageTables, BitmapAllocator

CONSTANTS
    Cpus,
    Tables,         \* pages for tables, positive numbers; the least one is the top table
    Physical,       \* first pages of the memory that is mapped, far apart
    Counts,         \* page counts asked for
    MaxGuards       \* bound on the guards alive

VARIABLES
    gmem,           \* the tables, see PageTables
    range_4k,       \* the bitmap of each VirtualRange
    range_2m,
    guards,         \* guards alive or being made
    gtlb,           \* of each CPU, its cached translations
    gop,            \* of each CPU, the guard it makes or drops, and how far it is
    local           \* the window belongs to one CPU: PerCPUPageMappingGuard

gmVars == <<gmem, range_4k, range_2m, guards, gtlb, gop, local>>

Mapper == CHOOSE c \in Cpus : TRUE
Users == IF local THEN {Mapper} ELSE Cpus
Top == Min(Tables)
NoGuard == [vstart |-> 0, pages |-> 0, huge |-> FALSE, paddr |-> 0]
NoOp == [pc |-> "idle", g |-> NoGuard, wait |-> {}]
Window == 0..(Fan[0] * Fan[1] - 1)

PageSize(huge) == IF huge THEN Fan[0] ELSE 1
Region(g) == g.vstart..(g.vstart + g.pages * PageSize(g.huge) - 1)

\* GlobalRanges::init: the bits of addresses that do not exist stay set
GmInit ==
    /\ \E spare \in SUBSET (Tables \ {Top}) :
         gmem = [free |-> spare, tab |-> [t \in Tables |-> EmptyTable]]
    /\ range_4k = set_bits(new_full, 0, Fan[0], FALSE)
    /\ range_2m = set_bits(new_full, 0, Fan[1] - 1, FALSE)
    /\ guards = {} /\ gtlb = [c \in Cpus |-> {}] /\ gop = [c \in Cpus |-> NoOp]
    /\ local \in BOOLEAN

\* VirtualRange::alloc keeps a page free behind every allocation.
VirtualRangeAlloc(bits, pages) == alloc_aligned(bits, pages + 1, 0)
VirtualRangeTake(bits, offset, pages) == set_bits(bits, offset, pages + 1, TRUE)
VirtualRangeFree(bits, offset, pages) == set_bits(bits, offset, pages + 1, FALSE)

\* The 2MiB range starts behind the 4KiB one.
Address(offset, huge) == IF huge THEN Fan[0] * (offset + 1) ELSE offset
Offset(g) == IF g.huge THEN g.vstart \div Fan[0] - 1 ELSE g.vstart

\* GlobalRanges::alloc under the lock of the ranges, VRangeAlloc::new_4k and new_2m
GlobalRangesAlloc(pages, huge, paddr) ==
    LET bits == IF huge THEN range_2m ELSE range_4k
        offset == VirtualRangeAlloc(bits, pages)
        g == [vstart |-> Address(offset, huge), pages |-> pages, huge |-> huge, paddr |-> paddr]
    IN  /\ gop[Mapper].pc = "idle" /\ Cardinality(guards) < MaxGuards /\ offset # NoOffset
        /\ paddr \notin {k.paddr : k \in guards}
        /\ IF huge THEN range_2m' = VirtualRangeTake(bits, offset, pages) /\ UNCHANGED range_4k
                   ELSE range_4k' = VirtualRangeTake(bits, offset, pages) /\ UNCHANGED range_2m
        /\ guards' = guards \cup {g}
        /\ gop' = [gop EXCEPT ![Mapper] = [pc |-> "map", g |-> g, wait |-> {}]]
        /\ UNCHANGED <<gmem, gtlb, local>>

MapOneFirst(st, g, i) ==
    LET v == g.vstart + i * PageSize(g.huge)
    IN  IF ~st.ok THEN st
        ELSE IF g.huge THEN map_2m(st.mem, Top, v, g.paddr) ELSE map_4k(st.mem, Top, v, g.paddr)

\* map_region_4k and map_region_2m stop at the first page that fails.
MapOne(st, g, i) ==
    LET v == g.vstart + i * PageSize(g.huge)
        p == g.paddr + i * PageSize(g.huge)
    IN  IF ~st.ok THEN st
        ELSE IF g.huge THEN map_2m(st.mem, Top, v, p) ELSE map_4k(st.mem, Top, v, p)

map_region(g) ==
    FoldLeft(LAMBDA st, i : MapOne(st, g, i), [mem |-> gmem, ok |-> TRUE],
             [i \in 1..g.pages |-> i - 1])

unmap_region(g) ==
    FoldLeft(LAMBDA m, i : IF g.huge THEN unmap_2m(m, Top, g.vstart + i * PageSize(TRUE))
                                     ELSE unmap_4k(m, Top, g.vstart + i),
             gmem, [i \in 1..g.pages |-> i - 1])

\* GlobalRangeGuard::map.  When it fails a global guard is dropped like any
\* other; a per-CPU one only gives back its addresses.
GuardMap ==
    \E r \in {map_region(gop[Mapper].g)} :
        /\ gop[Mapper].pc = "map"
        /\ gmem' = r.mem
        /\ gop' = [gop EXCEPT ![Mapper] =
                     IF r.ok THEN NoOp ELSE [@ EXCEPT !.pc = IF local THEN "free" ELSE "drop"]]
        /\ UNCHANGED <<range_4k, range_2m, guards, gtlb, local>>

StartDrop(c) ==
    \E g \in guards :
      /\ gop[c].pc = "idle" /\ c \in Users
      /\ \A d \in Cpus : gop[d].g # g
      /\ gop' = [gop EXCEPT ![c] = [pc |-> "drop", g |-> g, wait |-> {}]]
      /\ UNCHANGED <<gmem, range_4k, range_2m, guards, gtlb, local>>

FlushOwnCpu(c) == {c}

\* The CPUs that the drop of a guard flushes: flush_tlb_global_sync_range for
\* a global guard, flush_address_percpu for a per-CPU one
FlushTargets(c) == IF local THEN {c} ELSE Cpus

GuardUnmap(c) ==
    /\ gop[c].pc = "drop"
    /\ gmem' = unmap_region(gop[c].g)
    /\ gop' = [gop EXCEPT ![c].pc = "flush", ![c].wait = FlushTargets(c)]
    /\ UNCHANGED <<range_4k, range_2m, guards, gtlb, local>>

FlushOn(c, d) ==
    /\ gop[c].pc = "flush" /\ d \in gop[c].wait
    /\ gtlb' = [gtlb EXCEPT ![d] = {e \in @ : e[1] \notin Region(gop[c].g)}]
    /\ gop' = [gop EXCEPT ![c].wait = @ \ {d}, ![c].pc = IF gop[c].wait = {d} THEN "free" ELSE @]
    /\ UNCHANGED <<gmem, range_4k, range_2m, guards, local>>

GlobalRangesFree(c) ==
    LET g == gop[c].g
    IN  /\ gop[c].pc = "free"
        /\ IF g.huge
             THEN range_2m' = VirtualRangeFree(range_2m, Offset(g), g.pages) /\ UNCHANGED range_4k
             ELSE range_4k' = VirtualRangeFree(range_4k, Offset(g), g.pages) /\ UNCHANGED range_2m
        /\ guards' = guards \ {g}
        /\ gop' = [gop EXCEPT ![c] = NoOp]
        /\ UNCHANGED <<gmem, gtlb, local>>

\* A CPU accesses an address of a guard, and caches the translation.
AccessGuard(c) ==
    /\ c \in Users
    /\ \E g \in guards :
         LET v == g.vstart + g.pages * PageSize(g.huge) - 1
             p == Translate(gmem, Top, v)
         IN  /\ \A d \in Cpus : gop[d].g = g => gop[d].pc \in {"drop", "flush"}
             /\ p # 0 /\ <<v, p>> \notin gtlb[c]
             /\ gtlb' = [gtlb EXCEPT ![c] = @ \cup {<<v, p>>}]
    /\ UNCHANGED <<gmem, range_4k, range_2m, guards, gop, local>>

GmNext ==
    \/ \E n \in Counts, huge \in BOOLEAN, p \in Physical : GlobalRangesAlloc(n, huge, p)
    \/ GuardMap
    \/ \E c \in Cpus : StartDrop(c) \/ GuardUnmap(c) \/ GlobalRangesFree(c) \/ AccessGuard(c)
    \/ \E c, d \in Cpus : FlushOn(c, d)

GmSpec == GmInit /\ [][GmNext]_gmVars

-----------------------------------------------------------------------------
\* A guard whose map() is done and whose drop has not begun
Live(g) == \A c \in Cpus : gop[c].g # g
Covers(g, v, p) == v \in Region(g) /\ p = g.paddr + v - g.vstart

\* A guard maps its memory from the end of map() to the beginning of its drop,
\* and the page behind it stays unmapped: an access that runs off the end of a
\* mapping faults instead of reaching the next one.
GuardsMapped ==
    \A g \in guards : Live(g) =>
      /\ \A v \in Region(g) : Translate(gmem, Top, v) = g.paddr + v - g.vstart
      /\ LET v == g.vstart + g.pages * PageSize(g.huge)
         IN  v \in Window => Translate(gmem, Top, v) = 0 \/ \E h \in guards : v \in Region(h) /\ h.huge # g.huge

\* No CPU reaches, through a translation cached for an earlier guard, an
\* address that was given out again: the addresses are free only after every
\* CPU has flushed them ("Flush TLB before allowing to re-use addresses").
NoReuseBeforeFlush ==
    \A c \in Cpus : \A e \in gtlb[c] :
      \E g \in guards : Covers(g, e[1], e[2])

\* The bitmaps say which addresses are taken, the summary bits which words
\* have any, and the aligned search finds the lowest run there is.
Taken(a, huge) == UNION {Offset(g)..(Offset(g) + g.pages) : g \in {h \in guards : h.huge = huge}}
Reserved(huge) == (IF huge THEN Fan[1] - 1 ELSE Fan[0])..(CAPACITY - 1)
BitmapsExact ==
    /\ \A huge \in BOOLEAN :
         LET a == IF huge THEN range_2m ELSE range_4k
         IN  /\ {o \in 0..(CAPACITY - 1) : get(a, o)} = Taken(a, huge) \cup Reserved(huge)
             /\ a.bits = {i \in 0..(Words - 1) : a.child[i] # {}}
             /\ \A n \in Counts, align \in 0..LogCapacity :
                  alloc_aligned(a, n, align) =
                    IF align >= LogCapacity THEN NoOffset ELSE LowestRun(a, n, align)
=============================================================================

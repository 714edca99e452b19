-------------------------------- MODULE Vmr --------------------------------
(***************************************************************************)
(* A virtual memory region, kernel/src/mm/vm/range.rs: the tree of         *)
(* mappings, the page-table parts they are written to, the page tables of  *)
(* the threads that share the region, and the TLBs of their CPUs.  The     *)
(* kinds of mapping are those of kernel/src/mm/vm/mapping.                 *)
(*                                                                         *)
(* Addresses are page numbers from 0 to End - 1; a granule is the span of  *)
(* one part.  All pages, for tables and for data, come from one pool.      *)
(* The write lock of the tree makes an operation exclusive, so that op is  *)
(* one record; page faults and the CPUs' walks interleave with it.         *)
(***************************************************************************)
EXTENDS Naturals, FiniteSets, Sequences, SequencesExt, PageTables

CONSTANTS
    Cpus,           \* each runs a thread with a page table of its own
    Pool,           \* the pages of the allocator, a set of positive numbers
    Granules,       \* number of granules of the region
    Requests,       \* the mappings asked for, see NewMapping
    MaxMappings,    \* bound on the mappings in the tree
    Hints,          \* addresses passed to insert_at and insert_hint
    Watched,        \* addresses the CPUs access
    File            \* the pages of a file that can be mapped, outside Pool

VARIABLES
    mem,        \* free pages and the contents of the tables, see PageTables
    tree,       \* the VMMs inserted: [start, m]
    parts,      \* of each granule, the table of its part, 0 when not allocated
    root,       \* of each thread, the granules its page table has populated
    tlb,        \* of each CPU, the translations it has cached: <<page number, page>>
    op,         \* the operation that holds the tree's write lock
    per_cpu,    \* the region is visible on one CPU only
    unflushed   \* of each CPU, what it had cached of inserts that failed

vmrVars == <<mem, tree, parts, root, tlb, op, per_cpu, unflushed>>

Granule == Fan[0] * Fan[1] * Fan[2]
End == Granules * Granule
Addresses == 0..(End - 1)
Idle == [pc |-> "idle", vmm |-> [start |-> 0, m |-> [pages |-> <<>>, owned |-> FALSE, data |-> FALSE]],
         wait |-> {}]

\* One CPU uses a per-CPU region; any CPU uses the others.
Users == IF per_cpu THEN {CHOOSE c \in Cpus : TRUE} ELSE Cpus

Size(m) == Len(m.pages)
EndOf(vmm) == vmm.start + Size(vmm.m)
Span(vmm) == vmm.start..(EndOf(vmm) - 1)
MapsTo(vmm, v) == IF vmm.m.data /\ v \in Span(vmm) THEN vmm.m.pages[v - vmm.start + 1] ELSE 0

-----------------------------------------------------------------------------
(* The kinds of mapping                                                    *)

NoMapping(mm) == [ok |-> FALSE, mem |-> mm, m |-> Idle.vmm.m]

Zeros(n) == [i \in 1..n |-> 0]
next_power_of_two(n) == Min({2 ^ k : k \in 0..n} \cap {i \in 1..(2 * n + 1) : i >= n})

\* The n lowest free pages; a failure frees the ones already taken.
RawAlloc(mm, n, guard) ==
    LET pages == SubSeq(SetToSortSeq(mm.free, <), 1, n)
    IN  IF Cardinality(mm.free) < n THEN NoMapping(mm)
        ELSE [ok |-> TRUE,
              mem |-> [mm EXCEPT !.free = @ \ ToSet(pages)],
              m |-> [pages |-> Zeros(guard) \o pages \o Zeros(guard),
                     owned |-> TRUE, data |-> TRUE]]

VMalloc(mm, n) == RawAlloc(mm, n, 0)

\* At least one guard page on either side of a stack
VMKernelStack(mm, n) ==
    LET total == next_power_of_two(n + 2) IN RawAlloc(mm, n, (total - n) \div 2)

VMReserved(mm, n) ==
    [ok |-> TRUE, mem |-> mm, m |-> [pages |-> Zeros(n), owned |-> FALSE, data |-> FALSE]]

VMPhysMem(mm, base, n) ==
    [ok |-> TRUE, mem |-> mm,
     m |-> [pages |-> [i \in 1..n |-> base + i - 1], owned |-> FALSE, data |-> TRUE]]

\* The file is open for reading only.
VMFileMapping(mm, offset, n, private, write) ==
    IF n + offset > Len(File) \/ (write /\ ~private) THEN NoMapping(mm)
    ELSE IF private THEN RawAlloc(mm, n, 0)
    ELSE [ok |-> TRUE, mem |-> mm,
          m |-> [pages |-> SubSeq(File, offset + 1, offset + n), owned |-> FALSE, data |-> TRUE]]

NewMapping(mm, r) ==
    CASE r.kind = "anon" -> VMalloc(mm, r.n)
      [] r.kind = "stack" -> VMKernelStack(mm, r.n)
      [] r.kind = "reserved" -> VMReserved(mm, r.n)
      [] r.kind = "phys" -> VMPhysMem(mm, Max(Pool) + 1, r.n)
      [] r.kind = "file" -> VMFileMapping(mm, r.offset, r.n, r.private, r.write)

\* The last reference to a mapping goes away: it gives its pages back.
DropMapping(mm, m) ==
    [mm EXCEPT !.free = @ \cup (IF m.owned THEN ToSet(m.pages) \ {0} ELSE {})]

-----------------------------------------------------------------------------
(* The region                                                              *)

\* VMR::new, then initialize (all parts allocated and populated) or
\* initialize_lazy
VmrInit ==
    \E lazy, single \in BOOLEAN :
      LET tables == SubSeq(SetToSortSeq(Pool, <), 1, Granules)
      IN  /\ mem = [free |-> IF lazy THEN Pool ELSE Pool \ ToSet(tables),
                    tab |-> [p \in Pool |-> EmptyTable]]
          /\ parts = [g \in 0..(Granules - 1) |-> IF lazy THEN 0 ELSE tables[g + 1]]
          /\ root = [c \in Cpus |-> IF lazy THEN {} ELSE 0..(Granules - 1)]
          /\ per_cpu = single
          /\ tree = {} /\ tlb = [c \in Cpus |-> {}] /\ op = Idle
          /\ unflushed = [c \in Cpus |-> {}]

EnteredInPart(st, g, t, r) == [st EXCEPT !.parts[g] = t, !.mem = r.mem, !.ok = r.ok]

\* PageTablePart::map_4k: the part's table is allocated on first use, and
\* running out of memory there is fatal.
PartMap(st, g, v, p) ==
    IF st.parts[g] # 0 THEN EnteredInPart(st, g, st.parts[g], map_4k(st.mem, st.parts[g], v, p))
    ELSE IF st.mem.free = {} THEN [st EXCEPT !.panic = TRUE]
    ELSE LET t == Min(st.mem.free)
             mm == [st.mem EXCEPT !.free = @ \ {t}, !.tab[t] = EmptyTable]
         IN  EnteredInPart(st, g, t, map_4k(mm, t, v, p))

\* The part is that of the first page; PageTablePart asserts that every
\* address lies in it.
MapPage(st, vmm, v) ==
    IF MapsTo(vmm, v) = 0 \/ ~st.ok \/ st.panic THEN st
    ELSE IF index(3, v) # index(3, vmm.start) THEN [st EXCEPT !.panic = TRUE]
    ELSE PartMap(st, index(3, vmm.start), v, MapsTo(vmm, v))

Ascending(S) == SetToSortSeq(S, <)

map_vmm(mm, vmm) ==
    FoldLeft(LAMBDA st, v : MapPage(st, vmm, v),
             [mem |-> mm, parts |-> parts, ok |-> TRUE, panic |-> FALSE], Ascending(Span(vmm)))

UnmapPage(mm, vmm, v) ==
    LET t == parts[index(3, vmm.start)] IN IF t = 0 THEN mm ELSE unmap_4k(mm, t, v)

unmap_vmm(mm, vmm) ==
    FoldLeft(LAMBDA acc, v : UnmapPage(acc, vmm, v), mm, Ascending(Span(vmm)))

\* unmap_vmm runs over all addresses of the mapping, so that its assertion
\* fails as soon as the range leaves the granule.
Crosses(vmm) == index(3, vmm.start) # index(3, EndOf(vmm) - 1)

\* do_insert.  A map that fails is undone in a step of its own, DoInsertFailed.
do_insert(mm, m, start) ==
    \E vmm \in {[start |-> start, m |-> m]} : \E r \in {map_vmm(mm, vmm)} :
        /\ mem' = r.mem /\ parts' = r.parts
        /\ IF r.panic THEN op' = [Idle EXCEPT !.pc = "panic"] /\ tree' = tree
           ELSE IF r.ok THEN op' = Idle /\ tree' = tree \cup {vmm}
           ELSE op' = [Idle EXCEPT !.pc = "failed", !.vmm = vmm] /\ tree' = tree
        /\ UNCHANGED <<root, tlb, per_cpu, unflushed>>

DoInsertFailedNoUnmap ==
    /\ op.pc = "failed"
    /\ mem' = DropMapping(mem, op.vmm.m)
    /\ op' = Idle
    /\ UNCHANGED <<tree, parts, root, tlb, per_cpu, unflushed>>

DoInsertFailed ==
    /\ op.pc = "failed"
    /\ IF Crosses(op.vmm) THEN op' = [Idle EXCEPT !.pc = "panic"] /\ mem' = mem
       ELSE op' = Idle /\ mem' = DropMapping(unmap_vmm(mem, op.vmm), op.vmm.m)
    /\ unflushed' = [c \in Cpus |-> unflushed[c] \cup {e \in tlb[c] : e[1] \in Span(op.vmm)}]
    /\ UNCHANGED <<tree, parts, root, tlb, per_cpu>>

\* The node with the greatest start not above v, and the ones after it
AtOrBelow(v) == {n \in tree : n.start <= v}
UpperBound(v) == CHOOSE n \in AtOrBelow(v) : \A k \in AtOrBelow(v) : k.start <= n.start
Above(v) == {n.start : n \in {k \in tree : k.start > v}}

\* The gap around v that insert_at compares the new mapping with
Gap(v) ==
    [start |-> IF AtOrBelow(v) = {} THEN 0 ELSE EndOf(UpperBound(v)),
     end   |-> IF Above(v) = {} THEN End ELSE Min(Above(v))]

insert_at ==
    \E r \in Requests, v \in Hints :
      /\ op = Idle
      /\ \E new \in {NewMapping(mem, r)} :
          /\ new.ok /\ Cardinality(tree) < MaxMappings
          /\ v >= Gap(v).start /\ v + Size(new.m) <= Gap(v).end
          /\ do_insert(new.mem, new.m, v)

align_next(v, a) == (v \div a + 1) * a

align_up(v, a) == ((v + a - 1) \div a) * a
align_down(v, a) == (v \div a) * a

\* The search of insert_aligned over the nodes from the one at or below the
\* hint on: where it stops, and the end of the gap it stopped in.
Search(size, hint, align) ==
    LET nodes == {n \in tree : AtOrBelow(hint) = {} \/ n.start >= UpperBound(hint).start}
        step(s, n) ==
            IF s.found THEN s
            ELSE IF n.start > s.start /\ n.start - s.start >= size
                   THEN [s EXCEPT !.end = n.start, !.found = TRUE]
                   ELSE [s EXCEPT !.start = Max({@, align_up(EndOf(n), align)})]
        s == FoldLeft(step, [start |-> align_up(hint, align), end |-> 0, found |-> FALSE],
                      SetToSortSeq(nodes, LAMBDA a, b : a.start < b.start))
    IN  IF s.found THEN s ELSE [s EXCEPT !.end = align_down(End, align)]

\* The address insert_aligned chooses for n pages, End when there is none.
insert_aligned(n, hint, align) ==
    LET size == next_power_of_two(n)
        s == Search(size, hint, align)
    IN  IF s.end > s.start /\ s.end - s.start >= size THEN s.start ELSE End

insert_hint ==
    \E r \in Requests, v \in Hints :
      /\ op = Idle
      /\ \E new \in {NewMapping(mem, r)} :
         \E at \in {insert_aligned(Size(new.m), v, next_power_of_two(Size(new.m)))} :
          /\ new.ok /\ at # End /\ Cardinality(tree) < MaxMappings
          /\ do_insert(new.mem, new.m, at)

FlushOwnCpu(c) == {c}

\* The CPUs whose TLBs remove() flushes before it returns
FlushTargets(c) == IF per_cpu THEN {c} ELSE Cpus

remove(c) ==
    \E n \in tree :
      /\ op = Idle
      /\ tree' = tree \ {n}
      /\ IF Crosses(n) THEN op' = [Idle EXCEPT !.pc = "panic"] /\ mem' = mem
         ELSE /\ op' = [pc |-> "flush", vmm |-> n, wait |-> FlushTargets(c)]
              /\ mem' = unmap_vmm(mem, n)
      /\ UNCHANGED <<parts, root, tlb, per_cpu, unflushed>>

FlushCpu(c) ==
    /\ op.pc = "flush" /\ c \in op.wait
    /\ tlb' = [tlb EXCEPT ![c] = {e \in @ : e[1] \notin Span(op.vmm)}]
    /\ unflushed' = [unflushed EXCEPT ![c] = @ \cap tlb'[c]]
    /\ op' = [op EXCEPT !.wait = @ \ {c}]
    /\ UNCHANGED <<mem, tree, parts, root, per_cpu>>

\* remove() returns the VMM, and its last owner drops it.
RemoveDone ==
    /\ op.pc = "flush" /\ op.wait = {}
    /\ mem' = DropMapping(mem, op.vmm.m)
    /\ op' = Idle
    /\ UNCHANGED <<tree, parts, root, tlb, per_cpu, unflushed>>

\* handle_page_fault: the part is entered in the page table of the thread.
\* Any other fault is an error, for which the task is terminated.
handle_page_fault(c, v) ==
    /\ op.pc # "panic" /\ c \in Users
    /\ parts[index(3, v)] # 0 /\ index(3, v) \notin root[c]
    /\ root' = [root EXCEPT ![c] = @ \cup {index(3, v)}]
    /\ UNCHANGED <<mem, tree, parts, tlb, op, per_cpu, unflushed>>

\* The hardware caches what it finds in the tables, at any time.
TlbFill(c, v) ==
    /\ op.pc # "panic" /\ c \in Users /\ index(3, v) \in root[c]
    /\ LET p == Translate(mem, parts[index(3, v)], v)
       IN  p # 0 /\ <<v, p>> \notin tlb[c] /\ tlb' = [tlb EXCEPT ![c] = @ \cup {<<v, p>>}]
    /\ UNCHANGED <<mem, tree, parts, root, op, per_cpu, unflushed>>

\* The last thread is gone: its CPUs have loaded other page tables, and the
\* tree and the parts are dropped.
PartTablesTop(g) == IF parts[g] = 0 THEN {} ELSE {parts[g]} \cup Targets(mem, parts[g])

PartTables(g) == IF parts[g] = 0 THEN {} ELSE {parts[g]} \cup free_lvl2(mem, parts[g])
TreePages == UNION {IF n.m.owned THEN ToSet(n.m.pages) \ {0} ELSE {} : n \in tree}

VmrDrop ==
    /\ op = Idle
    /\ mem' = [mem EXCEPT !.free = @ \cup TreePages \cup UNION {PartTables(g) : g \in DOMAIN parts}]
    /\ op' = [Idle EXCEPT !.pc = "dropped"]
    /\ tree' = {} /\ parts' = [g \in DOMAIN parts |-> 0]
    /\ root' = [c \in Cpus |-> {}] /\ tlb' = [c \in Cpus |-> {}]
    /\ unflushed' = [c \in Cpus |-> {}]
    /\ UNCHANGED per_cpu

VmrNext ==
    \/ insert_at \/ insert_hint \/ DoInsertFailed \/ RemoveDone \/ VmrDrop
    \/ \E c \in Users : remove(c)
    \/ \E c \in Cpus : FlushCpu(c)
    \/ \E c \in Cpus, v \in Watched : handle_page_fault(c, v) \/ TlbFill(c, v)

VmrSpec == VmrInit /\ [][VmrNext]_vmrVars

-----------------------------------------------------------------------------
(* Properties                                                              *)

Panicked == op.pc = "panic"
Owners == tree \cup (IF op.pc = "failed" THEN {op.vmm} ELSE {})
HeldPages == UNION {IF n.m.owned THEN ToSet(n.m.pages) \ {0} ELSE {}
                    : n \in tree \cup (IF op.pc \in {"failed", "flush"} THEN {op.vmm} ELSE {})}
Tables == UNION {{parts[g]} \cup free_lvl2(mem, parts[g]) : g \in {h \in DOMAIN parts : parts[h] # 0}}

\* The page tables say exactly what the tree says: every page of an inserted
\* mapping is mapped where the mapping puts it, guard pages, removed mappings
\* and whatever a failed insert had mapped are not mapped, and mappings do not
\* overlap (insert_at, insert_aligned, do_insert, remove).
TablesMatchTree ==
    (~Panicked /\ op.pc # "failed") =>
      /\ \A a, b \in tree : a # b => Span(a) \cap Span(b) = {}
      /\ \A v \in Addresses :
           (IF parts[index(3, v)] = 0 THEN 0 ELSE Translate(mem, parts[index(3, v)], v))
             = Max({0} \cup {MapsTo(n, v) : n \in tree})

\* Every page of the pool is free, or one table, or one page of a mapping;
\* none is lost when an insert fails half way, and when the region is dropped
\* all of them are free again.
PagesAccounted ==
    ~Panicked =>
      /\ mem.free \cap (HeldPages \cup Tables) = {} /\ HeldPages \cap Tables = {}
      /\ mem.free \cup HeldPages \cup Tables = Pool

\* A CPU uses a cached translation only for as long as the page belongs to the
\* mapping: what remove() took out of the tables has left every TLB before the
\* pages are free.  The exception is an insert that failed after it had mapped
\* some pages, which do_insert takes out again without a flush.
NoStaleTranslation ==
    ~Panicked =>
      \A c \in Cpus : \A e \in tlb[c] :
        \/ \E n \in Owners : MapsTo(n, e[1]) = e[2]
        \/ op.pc = "flush" /\ c \in op.wait /\ e[1] \in Span(op.vmm)
        \/ e \in unflushed[c]

\* The search of insert_aligned finds the lowest aligned address from the hint
\* on at which the rounded-up size is free, and fails only if there is none.
Fits(v, size) == v + size <= End /\ \A n \in tree : Span(n) \cap (v..(v + size - 1)) = {}
FirstFit ==
    \A n \in 1..4, hint \in Hints :
      LET size == next_power_of_two(n)
          fits == {v \in Addresses : v >= hint /\ v % size = 0 /\ Fits(v, size)}
      IN  insert_aligned(n, hint, size) = IF fits = {} THEN End ELSE Min(fits)
=============================================================================

----------------------------- MODULE PageTables -----------------------------
(***************************************************************************)
(* The page-table walks and edits of kernel/src/mm/pagetable.rs as         *)
(* operators over a memory.                                                *)
(*                                                                         *)
(* A memory is a record: "free" is the set of pages the allocator can      *)
(* still hand out and "tab" gives the entries of every page that is used   *)
(* as a table.  An entry is the page it points to (0 when it is not        *)
(* present) and its HUGE flag.  A table of level l has Fan[l] entries, so  *)
(* a page number splits into indices the way PageTable::index does with    *)
(* nine bits per level.  Access flags are left out: no walk depends on     *)
(* them.                                                                   *)
(***************************************************************************)
EXTENDS Naturals, FiniteSets, Sequences, FiniteSetsExt

CONSTANT Fan            \* Fan[l]: entries of a table of level l, l in 0..2

\* The table index of page number v at a level.
index(level, v) ==
  CASE level = 0 -> v % Fan[0]
    [] level = 1 -> (v \div Fan[0]) % Fan[1]
    [] level = 2 -> (v \div (Fan[0] * Fan[1])) % Fan[2]
    [] level = 3 -> v \div (Fan[0] * Fan[1] * Fan[2])

NoEntry == [to |-> 0, huge |-> FALSE]
Page(p) == [to |-> p, huge |-> FALSE]
HugePage(p) == [to |-> p, huge |-> TRUE]

\* A zeroed table; every table has room for the widest level.
EmptyTable == [i \in 0..(Max({Fan[l] : l \in 0..2}) - 1) |-> NoEntry]

present(e) == e.to # 0

\* PTPage::from_entry: the entry points to a table of the next level.
from_entry(e) == present(e) /\ ~e.huge

Slot(level, t, v) == [level |-> level, t |-> t, i |-> index(level, v)]
Entry(mem, s) == mem.tab[s.t][s.i]
set(mem, s, e) == [mem EXCEPT !.tab[s.t][s.i] = e]

walk_addr_lvl0(mem, t, v) == Slot(0, t, v)

walk_addr_lvl1(mem, t, v) ==
  LET e == Entry(mem, Slot(1, t, v))
  IN  IF from_entry(e) THEN walk_addr_lvl0(mem, e.to, v) ELSE Slot(1, t, v)

walk_addr_lvl2(mem, t, v) ==
  LET e == Entry(mem, Slot(2, t, v))
  IN  IF from_entry(e) THEN walk_addr_lvl1(mem, e.to, v) ELSE Slot(2, t, v)

\* PTPage::alloc and the entry that is made to point to the new table.
Link(mem, s) ==
  LET p == Min(mem.free)
  IN  [free |-> mem.free \ {p},
       tab |-> [mem.tab EXCEPT ![p] = EmptyTable, ![s.t][s.i] = Page(p)]]

alloc_pte_lvl1(mem, s, v, huge) ==
  IF huge \/ present(Entry(mem, s)) \/ mem.free = {}
    THEN [mem |-> mem, at |-> s]
    ELSE [mem |-> Link(mem, s), at |-> Slot(0, Min(mem.free), v)]

alloc_pte_lvl2(mem, s, v, huge) ==
  IF present(Entry(mem, s)) \/ mem.free = {}
    THEN [mem |-> mem, at |-> s]
    ELSE alloc_pte_lvl1(Link(mem, s), Slot(1, Min(mem.free), v), v, huge)

\* RawPageTablePart::alloc_pte_4k and alloc_pte_2m; t is the level 2 table.
alloc_pte_4k(mem, t, v) ==
  LET s == walk_addr_lvl2(mem, t, v)
  IN  CASE s.level = 0 -> [mem |-> mem, at |-> s]
        [] s.level = 1 -> alloc_pte_lvl1(mem, s, v, FALSE)
        [] s.level = 2 -> alloc_pte_lvl2(mem, s, v, FALSE)

alloc_pte_2m(mem, t, v) ==
  LET s == walk_addr_lvl2(mem, t, v)
  IN  IF s.level = 2 THEN alloc_pte_lvl2(mem, s, v, TRUE)
                     ELSE [mem |-> mem, at |-> s]

\* A failed map keeps the tables it allocated on the way down.
SetAt(a, level, entry) ==
  IF a.at.level = level THEN [ok |-> TRUE, mem |-> set(a.mem, a.at, entry)]
                        ELSE [ok |-> FALSE, mem |-> a.mem]

map_4k(mem, t, v, p) == SetAt(alloc_pte_4k(mem, t, v), 0, Page(p))
map_2m(mem, t, v, p) == SetAt(alloc_pte_2m(mem, t, v), 1, HugePage(p))

\* The assertions of the two unmap functions that no huge page is in the way
\* hold in every use the models make of them.
unmap_4k(mem, t, v) ==
  LET s == walk_addr_lvl2(mem, t, v)
  IN  IF s.level = 0 THEN set(mem, s, NoEntry) ELSE mem

unmap_2m(mem, t, v) ==
  LET s == walk_addr_lvl2(mem, t, v)
  IN  IF s.level = 1 THEN set(mem, s, NoEntry) ELSE mem

\* The pages a CPU reaches from the level 2 table t for page number v: the
\* hardware's walk, 0 when it faults.
Translate(mem, t, v) ==
  LET s == walk_addr_lvl2(mem, t, v)
      e == Entry(mem, s)
  IN  CASE s.level = 0 -> e.to
        [] s.level = 1 /\ e.huge -> e.to + index(0, v)
        [] OTHER -> 0

Targets(mem, t) == {mem.tab[t][i].to : i \in {j \in DOMAIN mem.tab[t] : from_entry(mem.tab[t][j])}}

\* The tables below a level 2 table: what RawPageTablePart::free gives back.
free_lvl1(mem, t) == Targets(mem, t)
free_lvl2(mem, t) == UNION {{u} \cup free_lvl1(mem, u) : u \in Targets(mem, t)}
=============================================================================

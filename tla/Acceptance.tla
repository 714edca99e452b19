---------------------------- MODULE Acceptance ----------------------------
(***************************************************************************)
(* How the SVSM takes ownership of physical memory: page state changes     *)
(* requested from the host (sev/ghcb.rs), PVALIDATE (sev/utils.rs), TDX    *)
(* page acceptance (tdx/tdcall.rs), the platform layer above them          *)
(* (platform/snp.rs, tdp.rs, native.rs) and the bitmap of valid pages      *)
(* (mm/validate.rs).                                                       *)
(*                                                                         *)
(* A memory m is a record: the sets of valid (SNP: validated, TDX:         *)
(* accepted), private and guest-accessible pages, the pages that still     *)
(* hold the data the image gave them, the large frames the host backs with *)
(* one large page, the kernel page tables, and the first error a function  *)
(* returned.  Errors propagate: every caller on these paths uses `?` or    *)
(* expect(), so an operator leaves a memory with an error alone.           *)
(***************************************************************************)
EXTENDS Integers, FiniteSets, Sequences, FiniteSetsExt, SequencesExt

CONSTANTS
    PAGE_SIZE,      \* bytes of a page
    PTE_PER_PAGE,   \* entries of a page table, and pages of a large page
    MaxPscEntries,  \* entries of one page state change request
    WordBits        \* bits of a word of the valid bitmap

PAGE_SIZE_2M == PAGE_SIZE * PTE_PER_PAGE

Page(addr) == addr \div PAGE_SIZE

Frame(addr) == addr \div PAGE_SIZE_2M

is_aligned(addr, size) == addr % size = 0

page_align_up(n) == ((n + PAGE_SIZE - 1) \div PAGE_SIZE) * PAGE_SIZE

\* The pages that [addr, addr + len) touches.
PagesIn(addr, len) == IF len = 0 THEN {} ELSE Page(addr) .. Page(addr + len - 1)

SizeOf(size) == IF size = "2M" THEN PAGE_SIZE_2M ELSE PAGE_SIZE

Fail(m, e) == [m EXCEPT !.err = e]

\* The next step of a loop can be a large page.
FitsLarge(addr, end) == is_aligned(addr, PAGE_SIZE_2M) /\ addr + PAGE_SIZE_2M <= end

(***************************************************************************)
(* Translation by the kernel page tables (PageTable::virt_to_frame), or by *)
(* a temporary mapping of one frame (PerCPUPageMappingGuard).              *)
(***************************************************************************)
KernelMap == [kind |-> "kernel", pa |-> 0, size |-> "4K"]

Guard(pa, size) == [kind |-> "guard", pa |-> pa, size |-> size]

NoEntry == [pa |-> 0, kind |-> "none", c |-> FALSE]

pte_index(vaddr, level) == vaddr \div (PAGE_SIZE * PTE_PER_PAGE ^ level)

index(vaddr, level) == pte_index(vaddr, level) % PTE_PER_PAGE

Entry(m, table, i) == IF Page(table) \in DOMAIN m.tab THEN m.tab[Page(table)][i] ELSE NoEntry

virt_to_frame(m, map, vaddr) ==
    IF map.kind = "guard"
    THEN [pa |-> map.pa + vaddr, size |-> map.size]
    ELSE LET pml4e == Entry(m, m.root, index(vaddr, 3))
             pdpe  == Entry(m, pml4e.pa, index(vaddr, 2))
             pde   == Entry(m, pdpe.pa, index(vaddr, 1))
             pte   == Entry(m, pde.pa, index(vaddr, 0))
         IN CASE "none" \in {pml4e.kind, pdpe.kind, pde.kind} -> [pa |-> 0, size |-> "none"]
              [] pde.kind = "RwLarge" -> [pa |-> pde.pa + (vaddr % PAGE_SIZE_2M), size |-> "2M"]
              [] pte.kind # "none" -> [pa |-> pte.pa + (vaddr % PAGE_SIZE), size |-> "4K"]
              [] OTHER -> [pa |-> 0, size |-> "none"]

(***************************************************************************)
(* Page state changes.  The host applies the entries of a request; shared  *)
(* pages lose their content.                                               *)
(***************************************************************************)
HostChange(m, pages, op) ==
    [m EXCEPT !.private = IF op = "Private" THEN @ \union pages ELSE @ \ pages,
              !.data = IF op = "Private" THEN @ ELSE @ \ pages]

RECURSIVE page_state_change_loop(_, _, _, _, _, _)
page_state_change_loop(m, paddr, end, op, entries, pages) ==
    IF m.err # "" \/ paddr >= end
    THEN m
    ELSE LET size == IF FitsLarge(paddr, end) THEN PAGE_SIZE_2M ELSE PAGE_SIZE
             next == paddr + size
             all  == pages \union PagesIn(paddr, size)
         IN IF entries + 1 = MaxPscEntries \/ next >= end
            THEN page_state_change_loop(HostChange(m, all, op), next, end, op, 0, {})
            ELSE page_state_change_loop(m, next, end, op, entries + 1, all)

ghcb_page_state_change(m, start, len, op) ==
    page_state_change_loop(m, start, start + len, op, 0, {})

\* Sharing a page removes the private page, and with it its acceptance.
tdvmcall_map_gpa(m, gpa, size, op) ==
    LET pages == PagesIn(gpa, size)
    IN [HostChange(m, pages, op) EXCEPT !.valid = IF op = "Shared" THEN @ \ pages ELSE @]

page_state_change(m, platform, start, len, op) ==
    CASE m.err # "" -> m
      [] platform = "snp" -> ghcb_page_state_change(m, start, len, op)
      [] platform = "tdp" -> IF is_aligned(start, PAGE_SIZE) /\ is_aligned(len, PAGE_SIZE)
                             THEN tdvmcall_map_gpa(m, start, len, op)
                             ELSE Fail(m, "InvalidAddress")
      [] OTHER -> m

(***************************************************************************)
(* PVALIDATE.  A frame the host backs with 4K pages refuses the large form;*)
(* the 4K form on a large frame makes the host split it; a page whose      *)
(* state does not change is an error.  A page the host has not made        *)
(* private faults to the host, which then does (external).                 *)
(***************************************************************************)
pvalidate(m, paddr, size, op) ==
    LET pages == PagesIn(paddr, SizeOf(size))
        change == [m EXCEPT !.valid = IF op = "Valid" THEN @ \union pages ELSE @ \ pages,
                            !.private = @ \union pages,
                            !.huge = IF size = "2M" THEN @ ELSE @ \ {Frame(paddr)},
                            !.data = @ \ pages,
                            !.guest = @ \ pages]
    IN CASE m.err # "" -> m
         [] size = "2M" /\ Frame(paddr) \notin m.huge -> Fail(m, "FAIL_SIZEMISMATCH")
         [] (op = "Valid") = (pages \subseteq m.valid) -> Fail(m, "FAIL_UNCHANGED")
         [] OTHER -> change

RECURSIVE pvalidate_range_4k(_, _, _, _, _)
pvalidate_range_4k(m, map, addr, end, op) ==
    IF m.err # "" \/ addr >= end
    THEN m
    ELSE pvalidate_range_4k(pvalidate(m, virt_to_frame(m, map, addr).pa, "4K", op),
                            map, addr + PAGE_SIZE, end, op)

PvalidateLarge(m, map, addr, op) ==
    LET large == pvalidate(m, virt_to_frame(m, map, addr).pa, "2M", op)
    IN IF large.err = "FAIL_SIZEMISMATCH"
       THEN pvalidate_range_4k(m, map, addr, addr + PAGE_SIZE_2M, op)
       ELSE large

RECURSIVE pvalidate_range(_, _, _, _, _)
pvalidate_range(m, map, addr, end, op) ==
    IF m.err # "" \/ addr >= end
    THEN m
    ELSE IF FitsLarge(addr, end) /\ virt_to_frame(m, map, addr).size = "2M"
         THEN pvalidate_range(PvalidateLarge(m, map, addr, op), map,
                              addr + PAGE_SIZE_2M, end, op)
         ELSE pvalidate_range(pvalidate(m, virt_to_frame(m, map, addr).pa, "4K", op), map,
                              addr + PAGE_SIZE, end, op)

RECURSIVE pvalidate_page_range(_, _, _, _)
pvalidate_page_range(m, paddr, end, op) ==
    IF m.err # "" \/ paddr >= end
    THEN m
    ELSE LET size == IF FitsLarge(paddr, end) THEN "2M" ELSE "4K"
             len  == SizeOf(size)
         IN pvalidate_page_range(pvalidate_range(m, Guard(paddr, size), 0, len, op),
                                 paddr + len, end, op)

(***************************************************************************)
(* TDX acceptance.  Accepting zeroes a page; a page that was accepted      *)
(* before reports PageAlreadyAccepted and the caller zeroes it.            *)
(***************************************************************************)
tdg_mem_page_accept(m, paddr, size) ==
    LET pages == PagesIn(paddr, SizeOf(size))
    IN CASE size = "2M" /\ Frame(paddr) \notin m.huge -> "PageSizeMismatch"
         [] pages \subseteq m.valid -> "PageAlreadyAccepted"
         [] OTHER -> "Success"

\* The accepted pages, zeroed by the module or, when already accepted, by the caller.
Accepted(m, paddr, size) ==
    LET pages == PagesIn(paddr, SizeOf(size))
    IN [m EXCEPT !.valid = @ \union pages, !.private = @ \union pages, !.data = @ \ pages,
                 !.huge = IF size = "2M" THEN @ ELSE @ \ {Frame(paddr)}]

RECURSIVE td_accept_physical_loop(_, _, _)
td_accept_physical_loop(m, addr, end) ==
    IF addr >= end
    THEN m
    ELSE IF FitsLarge(addr, end) /\ tdg_mem_page_accept(m, addr, "2M") # "PageSizeMismatch"
         THEN td_accept_physical_loop(Accepted(m, addr, "2M"), addr + PAGE_SIZE_2M, end)
         ELSE td_accept_physical_loop(Accepted(m, addr, "4K"), addr + PAGE_SIZE, end)

td_accept_physical_memory(m, start, end) ==
    IF is_aligned(start, PAGE_SIZE) THEN td_accept_physical_loop(m, start, end)
    ELSE Fail(m, "InvalidAddress")

td_accept_virtual_4k(m, paddr) == Accepted(m, paddr, "4K")

td_accept_virtual_2m(m, paddr) ==
    IF tdg_mem_page_accept(m, paddr, "2M") = "PageSizeMismatch"
    THEN FoldLeft(LAMBDA mm, offset : td_accept_virtual_4k(mm, paddr + (offset - 1) * PAGE_SIZE),
                  m, [i \in 1 .. PTE_PER_PAGE |-> i])
    ELSE Accepted(m, paddr, "2M")

RECURSIVE td_accept_virtual_loop(_, _, _, _)
td_accept_virtual_loop(m, map, vaddr, end) ==
    IF vaddr >= end
    THEN m
    ELSE LET frame == virt_to_frame(m, map, vaddr)
         IN IF FitsLarge(vaddr, end) /\ frame.size = "2M"
            THEN td_accept_virtual_loop(td_accept_virtual_2m(m, frame.pa), map,
                                        vaddr + PAGE_SIZE_2M, end)
            ELSE td_accept_virtual_loop(td_accept_virtual_4k(m, frame.pa), map,
                                        vaddr + PAGE_SIZE, end)

td_accept_virtual_memory(m, map, start, end) ==
    IF is_aligned(start, PAGE_SIZE) THEN td_accept_virtual_loop(m, map, start, end)
    ELSE Fail(m, "InvalidAddress")

(***************************************************************************)
(* The platform layer (trait SvsmPlatform).                                *)
(***************************************************************************)
validate_physical_page_range(m, platform, start, len, op) ==
    CASE m.err # "" -> m
      [] platform = "snp" -> pvalidate_page_range(m, start, start + len, op)
      [] platform = "tdp" /\ op = "Valid" -> td_accept_physical_memory(m, start, start + len)
      [] OTHER -> m

validate_virtual_page_range(m, platform, map, start, len, op) ==
    CASE m.err # "" -> m
      [] platform = "snp" -> pvalidate_range(m, map, start, start + len, op)
      [] platform = "tdp" /\ op = "Valid" -> td_accept_virtual_memory(m, map, start, start + len)
      [] OTHER -> m

\* rmp_adjust granting the guest's VMPL access; only a validated page can be adjusted.
rmp_adjust(m, paddr) ==
    CASE m.err # "" -> m
      [] Page(paddr) \notin m.valid -> Fail(m, "FAIL_PERMISSION")
      [] OTHER -> [m EXCEPT !.guest = @ \union {Page(paddr)}]

(***************************************************************************)
(* The bitmap of valid pages: a sequence of words, a word the set of its   *)
(* bits that are one.                                                      *)
(***************************************************************************)
bitmap_elems(len) ==
    LET pages == (len + PAGE_SIZE - 1) \div PAGE_SIZE
    IN (pages + WordBits - 1) \div WordBits

BitmapIndex(start, paddr) ==
    LET page_offset == (paddr - start) \div PAGE_SIZE
    IN <<(page_offset \div WordBits) + 1, page_offset % WordBits>>

modify_bitmap_word(bitmap, i, mask, new_val) ==
    [bitmap EXCEPT ![i] = IF new_val THEN @ \union mask ELSE @ \ mask]

set_range(bitmap, start, paddr_begin, paddr_end, new_val) ==
    LET head == BitmapIndex(start, paddr_begin)
        tail == BitmapIndex(start, paddr_end)
        Bits(a, b) == a .. (b - 1)
        filled == [i \in DOMAIN bitmap |->
                     IF head[1] < i /\ i < tail[1]
                     THEN IF new_val THEN Bits(0, WordBits) ELSE {}
                     ELSE bitmap[i]]
        headed == modify_bitmap_word(filled, head[1], Bits(head[2], WordBits), new_val)
    IN CASE head[1] = tail[1] ->
              modify_bitmap_word(bitmap, head[1], Bits(head[2], tail[2]), new_val)
         [] tail[2] # 0 -> modify_bitmap_word(headed, tail[1], Bits(0, tail[2]), new_val)
         [] OTHER -> headed

init_valid_bitmap(start, end) ==
    set_range([i \in 1 .. bitmap_elems(end - start) |-> {}], start, start, end, TRUE)

is_valid_4k(bitmap, start, paddr) ==
    LET i == BitmapIndex(start, paddr) IN i[2] \in bitmap[i[1]]
=============================================================================

-------------------------------- MODULE Boot --------------------------------
(***************************************************************************)
(* Boot of the SVSM as far as memory is concerned: the host loads the      *)
(* image, the boot loader (boot/bldr) finishes the kernel page tables, the *)
(* kernel takes its region into possession (memory_init, idt_init), uses   *)
(* low memory, gives the boot loader's memory back and prepares the guest  *)
(* firmware (svsm_init, platform/snp_fw.rs).  Nothing runs concurrently;   *)
(* what is hard is that five programs must agree on which page is valid.   *)
(***************************************************************************)
EXTENDS BootImage

CONSTANT Configs    \* the configurations: build options, platform, what the host reports

VARIABLES
    cfg,      \* the configuration
    boot,     \* what the builder computed (BootImageInfo and addresses)
    li,       \* KernelLaunchInfo
    mem,      \* memory, as in Acceptance
    heap,     \* pages of the heap allocated when root_mem_init is called, and its length
    bitmap,   \* the valid bitmap
    memmap,   \* MEMORY_MAP
    pc        \* the next step

bootVars == <<cfg, boot, li, mem, heap, bitmap, memmap, pc>>

NoMemory == [valid |-> {}, private |-> {}, guest |-> {}, data |-> {}, huge |-> {},
             tab |-> <<>>, root |-> 0, err |-> ""]

BootInit ==
    /\ cfg \in Configs
    /\ boot = <<>> /\ li = <<>> /\ mem = NoMemory
    /\ heap = [allocated |-> 0, length |-> 0]
    /\ bitmap = <<>> /\ memmap = <<>>
    /\ pc = "build"

Region(start, end) == [start |-> start, end |-> end]

KernelRegion == Region(li.kernel_region_phys_start, li.kernel_region_phys_end)

PagesOf(r) == PagesIn(r.start, r.end - r.start)

overlap(r, s) == r.start < s.end /\ r.end > s.start

contiguous(r, s) == r.start <= s.end /\ r.end >= s.start

merge(r, s) == Region(Min({r.start, s.start}), Max({r.end, s.end}))

contains_region(r, s) == r.start <= s.start /\ s.end <= r.end

\* expect(), unwrap() and assert! stop the boot.
Continue(m, next) == pc' = IF m.err = "" THEN next ELSE "panic"

(***************************************************************************)
(* The host builds nothing: it loads the pages of the image.               *)
(***************************************************************************)
Load ==
    /\ pc = "build"
    /\ \E fw \in {Firmware(cfg)}, k \in {KernelLayout(get_elf_sizes(cfg.elf))} :
       \E gpa \in {GpaMap(cfg, fw)} : \E new \in {NewImage(k, gpa)} :
       \E h \in {ImageSteps(cfg, fw, k, new)} : \E final \in {FinishImage(cfg, h)} :
       \E image \in {prepare_boot_image(cfg, gpa, k, new, h, final)} :
       \E b \in {build_directives(cfg, fw, gpa, image)} : \E loaded \in {Range(b.image.pages)} :
          /\ boot' = b
          /\ li' = b.launch_info
          /\ mem' = [NoMemory EXCEPT
                       !.valid = loaded, !.private = loaded, !.data = loaded,
                       !.huge = {f \in cfg.huge : \A p \in loaded : p \div PTE_PER_PAGE # f},
                       !.tab = b.image.tab, !.root = b.launch_info.kernel_page_table]
          /\ pc' = CASE b.image.err # "" -> "rejected"
                     [] cfg.bldr > 0 -> "bldr"
                     [] OTHER -> "memory_init"
    /\ UNCHANGED <<cfg, heap, bitmap, memmap>>

Fw == boot.fw

(***************************************************************************)
(* The boot loader.                                                        *)
(***************************************************************************)
UsesCBit == cfg.platform = "snp" /\ (cfg.no_vtom \/ ~builder_vtom(cfg, boot.fw))

update_kernel_page_tables(tab) ==
    [p \in DOMAIN tab |-> [i \in DOMAIN tab[p] |->
        IF tab[p][i].kind = "none" THEN tab[p][i] ELSE [tab[p][i] EXCEPT !.c = TRUE]]]

\* pvalidate_one executes ud2 when PVALIDATE fails; the copy then fills the page.
copy_cpuid_page(m) ==
    LET paddr == virt_to_frame(m, KernelMap, li.cpuid_page).pa
        v == pvalidate(m, paddr, "4K", "Valid")
    IN [v EXCEPT !.data = @ \union {Page(paddr)}]

bldr_main ==
    /\ pc = "bldr"
    /\ LET tabbed == IF UsesCBit THEN [mem EXCEPT !.tab = update_kernel_page_tables(@)] ELSE mem
           copied == IF cfg.platform = "snp" THEN copy_cpuid_page(tabbed) ELSE tabbed
       IN mem' = copied /\ Continue(copied, "memory_init")
    /\ li' = [li EXCEPT !.lowmem_page_table_paddr = LOWMEM_PT_START,
                        !.lowmem_page_table_count = LOWMEM_PT_COUNT]
    /\ UNCHANGED <<cfg, boot, heap, bitmap, memmap>>

(***************************************************************************)
(* The kernel takes its region: svsm.rs memory_init.                       *)
(***************************************************************************)
find_kernel_region ==
    LET hidden == {i \in DOMAIN cfg.map : cfg.map[i].type = "HIDDEN"
                                          /\ cfg.map[i].start = Page(KernelBase)}
        bytes == cfg.map[Min(hidden)].pages * PAGE_SIZE
        size == IF hidden = {} THEN KernelMinSize
                ELSE Max({KernelMinSize, Min({bytes, kernel_max_size(cfg)})})
    IN Region(KernelBase, KernelBase + size)

\* One large page after the other; s is [m, vaddr, paddr, pdt, allocated].
SetEntry(m, table, i, pa, kind) ==
    [m EXCEPT !.tab[Page(table)][i] = [pa |-> pa, kind |-> kind, c |-> UsesCBit]]


PageDirectory(s) ==
    LET pdpt == Entry(s.m, s.m.root, index(s.vaddr, 3)).pa
        pdpe == Entry(s.m, pdpt, index(s.vaddr, 2))
        new == KernelBase + li.heap_area_offset + s.allocated * PAGE_SIZE
        zeroed == [s.m EXCEPT !.tab = (Page(new) :> EmptyTable) @@ @]
    IN CASE index(s.vaddr, 1) # 0 /\ s.pdt # 0 -> s
         [] pdpe.kind # "none" -> [s EXCEPT !.pdt = pdpe.pa]
         [] OTHER -> [s EXCEPT !.m = SetEntry(zeroed, pdpt, index(s.vaddr, 2), new, "Pxe"),
                               !.pdt = new, !.allocated = @ + 1]

RECURSIVE expand_loop(_, _)
expand_loop(s, left) ==
    IF left = 0 \/ s.m.err # ""
    THEN s
    ELSE LET d == PageDirectory(s)
             mapped == SetEntry(d.m, d.pdt, index(d.vaddr, 1), d.paddr, "RwLarge")
             valid == validate_virtual_page_range(mapped, cfg.platform, KernelMap, d.vaddr,
                                                  PAGE_SIZE_2M, "Valid")
         IN expand_loop([d EXCEPT !.m = valid, !.vaddr = @ + PAGE_SIZE_2M,
                                  !.paddr = @ + PAGE_SIZE_2M], left - PAGE_SIZE_2M)

\* Mutant: pages used for page directories are not counted as allocated.
expand_kernel_heap_uncounted(m, region_end) ==
    LET phys_end == li.kernel_region_phys_end
        end == (region_end \div PAGE_SIZE_2M) * PAGE_SIZE_2M
        start == [m |-> m, vaddr |-> li.kernel_direct_map_vaddr + (phys_end - KernelBase),
                  paddr |-> phys_end, pdt |-> 0, allocated |-> li.heap_area_allocated]
    IN IF end <= phys_end THEN start
       ELSE [expand_loop(start, end - phys_end) EXCEPT !.allocated = li.heap_area_allocated]

expand_kernel_heap(m, region_end) ==
    LET phys_end == li.kernel_region_phys_end
        end == (region_end \div PAGE_SIZE_2M) * PAGE_SIZE_2M
        start == [m |-> m, vaddr |-> li.kernel_direct_map_vaddr + (phys_end - KernelBase),
                  paddr |-> phys_end, pdt |-> 0, allocated |-> li.heap_area_allocated]
    IN IF end <= phys_end THEN start ELSE expand_loop(start, end - phys_end)


heap_adjust_pages ==
    IF li.vmsa_in_kernel_heap /\ cfg.platform = "snp"
    THEN -1
    ELSE (find_kernel_region.end - li.kernel_region_phys_end) \div PAGE_SIZE

\* The heap that is not yet in use is accepted.
AcceptHeap(m, length) ==
    IF li.heap_area_allocated < length
    THEN validate_virtual_page_range(m, cfg.platform, KernelMap,
           li.kernel_direct_map_vaddr + li.heap_area_offset + li.heap_area_allocated * PAGE_SIZE,
           (length - li.heap_area_allocated) * PAGE_SIZE, "Valid")
    ELSE IF li.heap_area_allocated > length THEN Fail(m, "assert") ELSE m

memory_init ==
    /\ pc = "memory_init"
    /\ \E adjust \in {heap_adjust_pages}, pstart \in {KernelBase + li.heap_area_offset} :
       \E length \in {((li.kernel_region_phys_end - pstart) \div PAGE_SIZE) + Min({adjust, 0})} :
       \E accepted \in {AcceptHeap(mem, length)} :
       \E expanded \in {IF adjust > 0
                        THEN expand_kernel_heap(accepted, find_kernel_region.end)
                        ELSE [m |-> accepted, paddr |-> li.kernel_region_phys_end,
                              allocated |-> li.heap_area_allocated]} :
          /\ mem' = expanded.m
          /\ li' = [li EXCEPT !.kernel_region_phys_end = expanded.paddr]
          /\ heap' = [allocated |-> expanded.allocated,
                      length |-> IF adjust > 0 THEN (expanded.paddr - pstart) \div PAGE_SIZE
                                 ELSE length]
          /\ bitmap' = init_valid_bitmap(KernelBase, expanded.paddr)
          /\ Continue(expanded.m, "idt_init")
    /\ UNCHANGED <<cfg, boot, memmap>>

idt_init ==
    /\ pc = "idt_init"
    /\ mem' = validate_virtual_page_range(mem, cfg.platform, KernelMap, li.idt_vaddr,
                                          PAGE_SIZE, "Valid")
    /\ Continue(mem', "low_memory")
    /\ UNCHANGED <<cfg, boot, li, heap, bitmap, memmap>>

(***************************************************************************)
(* svsm_init: low memory, the guest's memory map, the boot loader's memory.*)
(***************************************************************************)
invalidate_lowmem_page_tables(m) ==
    IF cfg.platform = "snp" /\ li.lowmem_page_table_count # 0
    THEN validate_physical_page_range(m, "snp", li.lowmem_page_table_paddr,
           li.lowmem_page_table_count * PAGE_SIZE, "Invalid")
    ELSE m

validate_low_memory(m) ==
    LET stub_end == SIPI_STUB_GPA + PAGE_SIZE
    IN IF cfg.platform = "tdp"
       THEN validate_physical_page_range(
              validate_physical_page_range(m, "tdp", 0, SIPI_STUB_GPA, "Valid"),
              "tdp", stub_end, LOWMEM_END - stub_end, "Valid")
       ELSE validate_physical_page_range(m, cfg.platform, 0, LOWMEM_END, "Valid")

LowMemory ==
    /\ pc = "low_memory"
    /\ mem' = validate_low_memory(invalidate_lowmem_page_tables(mem))
    /\ Continue(mem', "memory_map")
    /\ UNCHANGED <<cfg, boot, li, heap, bitmap, memmap>>

\* Entries are taken up to the first empty one; they must be in increasing order.
Reported == LET empty == {i \in DOMAIN cfg.map : cfg.map[i].pages = 0}
            IN IF empty = {} THEN cfg.map ELSE SubSeq(cfg.map, 1, Min(empty) - 1)

Increasing == \A i \in 2 .. Len(Reported) :
                 Reported[i].start >= Reported[i - 1].start + Reported[i - 1].pages

get_memory_regions ==
    LET memory == SelectSeq(Reported, LAMBDA e : e.type = "MEMORY")
    IN [i \in DOMAIN memory |-> Region(memory[i].start * PAGE_SIZE,
                                       (memory[i].start + memory[i].pages) * PAGE_SIZE)]

\* What is left of one region once the kernel's is cut out of it.
CutOnce(r, k) ==   \* Mutant: a region that contains the kernel's loses its upper part.
    CASE ~overlap(r, k) -> <<r>>
      [] r.start < k.start -> <<Region(r.start, k.start)>>
      [] k.end < r.end -> <<Region(k.end, r.end)>>
      [] OTHER -> <<>>

Cut(r, k) ==
    IF ~overlap(r, k) THEN <<r>>
    ELSE (IF r.start < k.start THEN <<Region(r.start, k.start)>> ELSE <<>>)
         \o (IF k.end < r.end THEN <<Region(k.end, r.end)>> ELSE <<>>)

init_memory_map ==
    /\ pc = "memory_map"
    /\ IF Increasing
       THEN /\ memmap' = FlattenSeq([i \in DOMAIN get_memory_regions |->
                                       Cut(get_memory_regions[i], KernelRegion)])
            /\ pc' = "early_boot"
       ELSE pc' = "panic" /\ UNCHANGED memmap
    /\ UNCHANGED <<cfg, boot, li, mem, heap, bitmap>>

enumerate_early_boot_regions ==
    (IF Fw.in_low_memory THEN <<>> ELSE <<Region(0, LOWMEM_END)>>)
    \o <<Region(li.bldr_start, li.kernel_fs_end)>>

invalidate_boot_memory_region(m, r) ==
    LET len == page_align_up(r.end - r.start)
        invalid == validate_physical_page_range(m, cfg.platform, r.start, len, "Invalid")
    IN IF len > 0 /\ cfg.psc THEN page_state_change(invalid, cfg.platform, r.start, len, "Shared")
       ELSE invalid

invalidate_early_boot_memory ==
    /\ pc = "early_boot"
    /\ mem' = FoldLeft(invalidate_boot_memory_region, mem, enumerate_early_boot_regions)
    /\ Continue(mem', IF cfg.platform = "snp" /\ Fw.size # 0 THEN "validate_fw_memory" ELSE "done")
    /\ UNCHANGED <<cfg, boot, li, heap, bitmap, memmap>>

(***************************************************************************)
(* The guest firmware: platform/snp.rs prepare_fw.                         *)
(***************************************************************************)
PageRegion(paddr) == IF paddr = 0 THEN <<>> ELSE <<Region(paddr, paddr + PAGE_SIZE)>>

valid_mem == [i \in DOMAIN Fw.prevalidated |->
                Region(Fw.prevalidated[i].base, Fw.prevalidated[i].base + Fw.prevalidated[i].size)]

FwRegions ==
    SortSeq(valid_mem \o PageRegion(Fw.cpuid_page) \o PageRegion(Fw.secrets_page)
              \o PageRegion(Fw.caa_page),
            LAMBDA r, s : r.start < s.start)

RECURSIVE validate_fw_pages(_, _, _)
validate_fw_pages(m, paddr, end) ==
    IF m.err # "" \/ paddr >= end THEN m
    ELSE validate_fw_pages(rmp_adjust(pvalidate(m, paddr, "4K", "Valid"), paddr),
                           paddr + PAGE_SIZE, end)

validate_fw_mem_region(m, r) ==
    LET private == IF cfg.psc THEN page_state_change(m, "snp", r.start, r.end - r.start, "Private")
                   ELSE m
    IN validate_fw_pages(private, r.start, r.end)

\* The first region swallows, left to right, the later ones that touch it.
RECURSIVE validate_fw_memory_vec(_, _)
validate_fw_memory_vec(m, regions) ==
    IF regions = <<>> \/ m.err # ""
    THEN m
    ELSE LET Step(acc, next) == IF contiguous(acc.region, next)
                                THEN [acc EXCEPT !.region = merge(@, next)]
                                ELSE [acc EXCEPT !.rest = Append(@, next)]
             merged == FoldLeft(Step, [region |-> Head(regions), rest |-> <<>>], Tail(regions))
         IN validate_fw_memory_vec(validate_fw_mem_region(m, merged.region), merged.rest)

validate_fw_memory ==
    /\ pc = "validate_fw_memory"
    /\ mem' = IF \E i \in DOMAIN FwRegions : overlap(FwRegions[i], KernelRegion)
              THEN Fail(mem, "Firmware") ELSE validate_fw_memory_vec(mem, FwRegions)
    /\ Continue(mem', "write_guest_memory_map")
    /\ UNCHANGED <<cfg, boot, li, heap, bitmap, memmap>>

MapEntrySize == KSymSize   \* three quadwords of a KSym's size

\* The pages that are mapped while the map is written, and those its entries touch.
MapMapping == LET start == Page(Fw.memory_map_address) * PAGE_SIZE
              IN Region(start, start + page_align_up(Fw.memory_map_size))

MapWrites == PagesIn(Fw.memory_map_address,
                     MapEntrySize * Min({Len(memmap) + 1, Fw.memory_map_size \div MapEntrySize}))

\* The map's pages are accepted, unless the builder had them loaded.
AcceptMap(m, start, len) ==
    IF Fw.memory_map_prevalidated THEN m
    ELSE validate_virtual_page_range(
           IF cfg.psc THEN page_state_change(m, "snp", start, len, "Private") ELSE m,
           "snp", Guard(start, "4K"), 0, len, "Valid")

write_guest_memory_map ==
    /\ pc = "write_guest_memory_map"
    /\ \E r \in {MapMapping} : \E valid \in {AcceptMap(mem, r.start, r.end - r.start)} :
          mem' = CASE Fw.memory_map_size = 0 -> mem
                   [] valid.err # "" -> valid
                   [] Len(memmap) > Fw.memory_map_size \div MapEntrySize -> Fail(valid, "Firmware")
                   [] ~(MapWrites \subseteq PagesOf(r)) -> Fail(valid, "unmapped")
                   [] OTHER -> valid
    /\ Continue(mem', "copy_tables_to_fw")
    /\ UNCHANGED <<cfg, boot, li, heap, bitmap, memmap>>

copy_tables_to_fw ==
    /\ pc = "copy_tables_to_fw"
    /\ mem' = IF Fw.secrets_page = 0 \/ Fw.caa_page = 0 THEN Fail(mem, "Missing")
              ELSE [mem EXCEPT !.data = @ \union {Page(p) : p \in {Fw.secrets_page}
                                 \union ({Fw.cpuid_page} \ {0})}]
    /\ Continue(mem', "validate_fw")
    /\ UNCHANGED <<cfg, boot, li, heap, bitmap, memmap>>

get_fw_regions ==
    LET low == IF Fw.in_low_memory THEN <<Region(0, LOWMEM_END)>> ELSE <<>>
        regions == Append(low, Region(Fw.start, Fw.start + Fw.size))
        map == Region(Fw.memory_map_address, Fw.memory_map_address + Fw.memory_map_size)
    IN IF Fw.memory_map_size # 0 /\ \A i \in DOMAIN regions : ~contains_region(regions[i], map)
       THEN Append(regions, map) ELSE regions

RECURSIVE adjust_pages(_, _, _)
adjust_pages(m, paddr, end) ==
    IF m.err # "" \/ paddr >= end THEN m
    ELSE adjust_pages(rmp_adjust(m, paddr), paddr + PAGE_SIZE, end)

validate_fw ==
    /\ pc = "validate_fw"
    /\ mem' = FoldLeft(LAMBDA m, r : adjust_pages(m, r.start, r.end), mem, get_fw_regions)
    /\ Continue(mem', "done")
    /\ UNCHANGED <<cfg, boot, li, heap, bitmap, memmap>>

BootNext ==
    \/ Load
    \/ bldr_main
    \/ memory_init
    \/ idt_init
    \/ LowMemory
    \/ init_memory_map
    \/ invalidate_early_boot_memory
    \/ validate_fw_memory
    \/ write_guest_memory_map
    \/ copy_tables_to_fw
    \/ validate_fw

BootSpec == BootInit /\ [][BootNext]_bootVars

(***************************************************************************)
(* Properties                                                              *)
(***************************************************************************)
ImagePages == Range(boot.image.pages)



\* The physical page the builder intends a segment's, the stack's and the IDT's page to be.
ElfStart(i) == KernelBase + PAGE_SIZE * SumFunction([j \in 1 .. i - 1 |->
                                round_to_pages(cfg.elf[j].end - cfg.elf[j].begin)])

MapsTo(vaddr, paddr, len) ==
    \A k \in 0 .. round_to_pages(len) - 1 :
        LET f == virt_to_frame(mem, KernelMap, vaddr + k * PAGE_SIZE)
        IN f.size # "none" /\ f.pa = paddr + k * PAGE_SIZE

\* When the kernel runs, its page tables map every ELF segment, the initial stack and the IDT
\* where the image put them, leave the guard page below the stack unmapped, and map the whole
\* kernel region, also the part memory_init added, in the direct map; all entries carry
\* the C-bit exactly if the platform runs with one.
KernelMapped ==
    pc \notin {"build", "rejected", "bldr", "panic"} =>
        /\ \A i \in DOMAIN cfg.elf :
              MapsTo(cfg.elf[i].begin, ElfStart(i), cfg.elf[i].end - cfg.elf[i].begin)
        /\ MapsTo(boot.stack_base, boot.stack_paddr, StackPages * PAGE_SIZE)
        /\ MapsTo(li.idt_vaddr, boot.idt_paddr, PAGE_SIZE)
        /\ virt_to_frame(mem, KernelMap, boot.stack_base - PAGE_SIZE).size = "none"
        /\ MapsTo(li.kernel_direct_map_vaddr, KernelBase, li.kernel_region_phys_end - KernelBase)
        /\ \A p \in DOMAIN mem.tab : \A i \in DOMAIN mem.tab[p] :
              mem.tab[p][i].kind # "none" => mem.tab[p][i].c = UsesCBit

\* The pages that belong to the guest firmware.
FwPages ==
    UNION {PagesOf(r) : r \in Range(FwRegions) \union Range(get_fw_regions)}

\* When the firmware is launched it has exactly its own memory: its image, the areas it
\* declared as pre-validated, its CPUID, secrets and calling area pages, its memory map and,
\* if it lives in low memory, low memory; all of it valid.  Memory that only the boot used is
\* no longer valid, and the guest's memory map is what the host reported without the kernel.
GuestHasItsOwn ==
    pc = "done" =>
        /\ UNION {PagesOf(r) : r \in Range(memmap)}
             = UNION {PagesOf(r) : r \in Range(get_memory_regions)} \ PagesOf(KernelRegion)
        /\ cfg.platform = "snp" =>
             /\ mem.guest = IF Fw.size = 0 THEN {} ELSE FwPages
             /\ mem.guest \subseteq mem.valid
             /\ \A r \in Range(enumerate_early_boot_regions) :
                   PagesOf(r) \intersect mem.valid \subseteq mem.guest
=============================================================================

----------------------------- MODULE BootImage -----------------------------
(***************************************************************************)
(* The boot image: where the IGVM builder (tools/igvmbuilder) places       *)
(* things in guest physical memory, how the boot image library             *)
(* (boot/bootimg) lays out the kernel region, its heap and its page        *)
(* tables, and which pages the host loads, and so makes valid, before the  *)
(* first instruction runs.  Everything here is computed once, on the       *)
(* machine that builds the image, from a configuration c.                  *)
(*                                                                         *)
(* Lengths are counted in page table entries: a page of a page table is    *)
(* PAGE_SIZE = PTE_PER_PAGE of them.                                       *)
(***************************************************************************)
EXTENDS Acceptance, TLC

CONSTANTS
    LOWMEM_END, SIPI_STUB_GPA, LOWMEM_PT_START, LOWMEM_PT_COUNT,
    BLDR_BASE, BLDR_STACK_PAGE, CPUID_PAGE, BLDR_START, BLDR_MAXLEN,
    KernelBase, KernelMinSize, KernelMaxSize,   \* GpaMap::new's choices
    FixedVmsa,                                  \* where KVM expects the launch VMSA
    FlashStart, FlashSize,                      \* the flash range, which ends at 4 GB
    KernelVirtBase,                             \* link address of the kernel
    StackPages,                                 \* pages of the initial stack
    SelfMapIndex,                               \* PGTABLE_LVL3_IDX_PTE_SELFMAP
    KSymSize,                                   \* size of a KSym
    MaxPrevalidated                             \* capacity of GuestFwInfoBlock::prevalidated

round_to_pages(len) == page_align_up(len) \div PAGE_SIZE

align_up_2m(addr) == ((addr + PAGE_SIZE_2M - 1) \div PAGE_SIZE_2M) * PAGE_SIZE_2M

round_to_large_pages(len) == align_up_2m(len) \div PAGE_SIZE_2M

(***************************************************************************)
(* Firmware.  An OVMF file describes itself by a list of metadata entries; *)
(* an IGVM firmware file is a list of page directives.                     *)
(***************************************************************************)
NoFirmware ==
    [err |-> "", start |-> 0, size |-> 0, in_low_memory |-> FALSE, prevalidated |-> <<>>,
     secrets_page |-> 0, cpuid_page |-> 0, caa_page |-> 0, param_area |-> <<>>,
     memory_map_address |-> 0, memory_map_size |-> 0, memory_map_prevalidated |-> FALSE,
     guest_context |-> FALSE, vtom |-> FALSE, directives |-> <<>>]

region_overlaps(this, that) ==
    this.base < that.base + that.size /\ this.base + this.size > that.base

region_contains(this, that) ==
    this.base <= that.base /\ that.base + that.size <= this.base + this.size

region_contiguous(this, that) ==
    this.base <= that.base + that.size /\ this.base + this.size >= that.base

region_merge(this, that) ==
    LET start == Min({this.base, that.base})
    IN [base |-> start,
        size |-> Max({this.base + this.size, that.base + that.size}) - start]

add_preval_region(fw, region) ==
    LET touching == {i \in DOMAIN fw.prevalidated :
                       region_contiguous(fw.prevalidated[i], region)}
    IN CASE touching # {} ->
              LET i == Min(touching)
              IN [fw EXCEPT !.prevalidated[i] = region_merge(@, region)]
         [] Len(fw.prevalidated) >= MaxPrevalidated -> [fw EXCEPT !.err = "too many"]
         [] OTHER -> [fw EXCEPT !.prevalidated = Append(@, region)]

SevMetadata(fw, entry) ==
    CASE entry.type = "mem"     -> add_preval_region(fw, [base |-> entry.base, size |-> entry.len])
      [] entry.type = "secrets" -> [fw EXCEPT !.secrets_page = entry.base]
      [] entry.type = "cpuid"   -> [fw EXCEPT !.cpuid_page = entry.base]
      [] entry.type = "caa"     -> [fw EXCEPT !.caa_page = entry.base]
      [] OTHER -> fw

IgvmMetadata(fw, entry) ==
    LET region == [base |-> entry.base, size |-> entry.len]
        area   == fw.param_area[1]
        map    == [base |-> area.base + entry.base, size |-> entry.len]
    IN CASE entry.type = "param_area" ->
              IF fw.param_area # <<>> THEN [fw EXCEPT !.err = "multiple"]
              ELSE [add_preval_region(fw, region) EXCEPT !.param_area = <<region>>]
         [] entry.type = "memory_map" ->
              IF fw.param_area = <<>> \/ ~region_contains(area, map)
              THEN [fw EXCEPT !.err = "memory map"]
              ELSE [fw EXCEPT !.memory_map_address = map.base, !.memory_map_size = map.size,
                              !.memory_map_prevalidated = TRUE]
         [] entry.type = "hob_area" -> add_preval_region(fw, region)
         [] OTHER -> fw

Metadata(fw, entry) ==
    IF fw.err # "" THEN fw
    ELSE IF entry.type \in {"param_area", "memory_map", "hob_area"}
         THEN IgvmMetadata(fw, entry)
         ELSE SevMetadata(fw, entry)

check_regions(fw) ==
    LET flash == [base |-> FlashStart, size |-> FlashSize]
        Preval == fw.prevalidated
    IN IF /\ region_contains(flash, [base |-> fw.start, size |-> fw.size])
          /\ \A i, j \in DOMAIN Preval : j < i => ~region_overlaps(Preval[i], Preval[j])
       THEN fw ELSE [fw EXCEPT !.err = "overlap"]

parse_ovmf(fw, entries) ==
    LET parsed == FoldLeft(Metadata, fw, entries)
    IN IF parsed.err # "" THEN parsed ELSE check_regions(parsed)

PageSeq(gpa, len) == [i \in 1 .. round_to_pages(len) |-> Page(gpa) + i - 1]

OvmfFirmware(len, entries) ==
    LET start == FlashStart + FlashSize - len
    IN parse_ovmf([NoFirmware EXCEPT !.start = start, !.size = len,
                                     !.directives = PageSeq(start, len)], entries)

translate_directive(fw, d) ==
    LET low  == IF fw.size = 0 THEN d.gpa ELSE Min({fw.start, d.gpa})
        high == Max({fw.start + fw.size, d.gpa + PAGE_SIZE})
        ranged == [fw EXCEPT !.start = low, !.size = high - low]
    IN CASE d.gpa = 0 -> fw
         [] d.type = "normal"  -> [ranged EXCEPT !.directives = Append(@, Page(d.gpa))]
         [] d.type = "secrets" -> [ranged EXCEPT !.secrets_page = d.gpa,
                                                 !.caa_page = d.gpa + PAGE_SIZE]
         [] d.type = "memory_map" -> [fw EXCEPT !.memory_map_address = d.gpa,
                                                !.memory_map_size = PAGE_SIZE]
         [] OTHER -> fw

IgvmFirmware(directives) ==
    LET fw == FoldLeft(translate_directive, NoFirmware, directives)
    IN IF fw.start < LOWMEM_END
       THEN [fw EXCEPT !.err = "below 640K"]
       ELSE [fw EXCEPT !.in_low_memory = TRUE, !.guest_context = TRUE, !.vtom = TRUE,
                       !.prevalidated = <<[base |-> LOWMEM_END, size |-> fw.start - LOWMEM_END]>>]

Firmware(c) ==
    CASE c.fw.kind = "ovmf" -> OvmfFirmware(c.fw.len, c.fw.entries)
      [] c.fw.kind = "igvm" -> IgvmFirmware(c.fw.entries)
      [] OTHER -> NoFirmware

(***************************************************************************)
(* Placement (GpaMap::new) and the boot parameter area (BootParamLayout).  *)
(***************************************************************************)
kernel_max_size(c) == IF c.hypervisor = "vanadium" THEN KernelMaxSize ELSE KernelMinSize

vmsa_in_kernel_range(c) == c.hypervisor = "hyperv"

GpaMap(c, fw) ==
    LET kernel_max_end == KernelBase + kernel_max_size(c)
        bldr_end == IF c.bldr = 0 THEN BLDR_BASE ELSE BLDR_START + page_align_up(c.bldr)
    IN [err |-> CASE fw.err # "" -> fw.err
                  [] fw.start < kernel_max_end /\ fw.start + fw.size > KernelBase -> "fw overlap"
                  [] c.bldr > BLDR_MAXLEN -> "bldr too large"
                  [] OTHER -> "",
        bldr_stack |-> IF c.bldr = 0 THEN BLDR_BASE ELSE BLDR_STACK_PAGE,
        kernel_fs_start |-> bldr_end,
        kernel_fs_end |-> bldr_end + c.fs,
        vmsa |-> IF vmsa_in_kernel_range(c) THEN KernelBase + KernelMinSize - PAGE_SIZE
                 ELSE FixedVmsa]

BootParamLayout(include_guest_context) ==
    LET guest_context_size == IF include_guest_context THEN PAGE_SIZE ELSE 0
        general == PAGE_SIZE + guest_context_size
    IN [guest_context |-> guest_context_size, general |-> general,
        madt |-> general + PAGE_SIZE, memory_map |-> general + 2 * PAGE_SIZE,
        total |-> general + 3 * PAGE_SIZE]

(***************************************************************************)
(* The boot image under construction: pages added, the heap, page tables.  *)
(***************************************************************************)
ImageFail(b, e) == IF b.err = "" THEN [b EXCEPT !.err = e] ELSE b

\* add_page_data: every page of [gpa, gpa + len) is loaded, zero-filled after the data.
add_data_pages(b, gpa, len) == [b EXCEPT !.pages = @ \o PageSeq(gpa, len)]

HeapPhys(b) == b.heap.phys_base + b.heap.next_free * PAGE_SIZE

HeapVirt(b) == b.heap.virt_base + b.heap.next_free * PAGE_SIZE

allocate_pages(b, n) ==
    IF b.heap.next_free + n <= b.heap.page_count
    THEN [b EXCEPT !.heap.next_free = @ + n]
    ELSE ImageFail(b, "HeapTooSmall")

allocate_and_add_pages(b, len) ==
    add_data_pages(allocate_pages(b, round_to_pages(len)), HeapPhys(b), len)

get_elf_sizes(elf) ==
    [virt_len |-> page_align_up(Max({s.end : s \in Range(elf)}) - KernelVirtBase),
     phys_page_count |-> SumFunction([i \in DOMAIN elf |->
                                        round_to_pages(elf[i].end - elf[i].begin)])]

create_kernel_heap(sizes, direct_map_base) ==
    LET kernel_size == sizes.phys_page_count * PAGE_SIZE
    IN [phys_base |-> KernelBase + kernel_size, virt_base |-> direct_map_base + kernel_size,
        page_count |-> (KernelMinSize \div PAGE_SIZE) - sizes.phys_page_count, next_free |-> 0]

EmptyTable == [i \in 0 .. PTE_PER_PAGE - 1 |-> NoEntry]

Pte(pa, kind) == [pa |-> pa, kind |-> kind, c |-> FALSE]

\* The four levels: root, PDPT and PD are final; the leaf entries fill as ranges are mapped.
setup_kernel_page_tables(b, direct_map_base) ==
    LET pte_count == round_to_pages(direct_map_base - KernelVirtBase)
        end_pte_index == index(KernelVirtBase, 0) + pte_count
        pde_count == round_to_pages(end_pte_index)
        large_page_count == round_to_large_pages(KernelMinSize)
        start_pde == index(KernelVirtBase, 1)
        end_pde == start_pde + pde_count + large_page_count
        root == HeapPhys(b)
        pdpt == root + PAGE_SIZE
        pd == pdpt + PAGE_SIZE
        leaf == pd + PAGE_SIZE
        pd_entries == [i \in 0 .. PTE_PER_PAGE - 1 |->
            CASE i \in start_pde .. start_pde + pde_count - 1 ->
                   Pte(leaf + (i - start_pde) * PAGE_SIZE, "Pxe")
              [] i \in start_pde + pde_count .. end_pde - 1 ->
                   Pte(KernelBase + (i - start_pde - pde_count) * PAGE_SIZE_2M, "RwLarge")
              [] OTHER -> NoEntry]
        tables == (Page(root) :> [EmptyTable EXCEPT ![SelfMapIndex] = Pte(root, "SelfMap"),
                                                    ![index(KernelVirtBase, 3)] = Pte(pdpt, "Pxe")])
               @@ (Page(pdpt) :> [EmptyTable EXCEPT ![index(KernelVirtBase, 2)] = Pte(pd, "Pxe")])
               @@ (Page(pd) :> pd_entries)
        allocated == allocate_pages(b, pde_count + 3)
    IN CASE end_pde > PTE_PER_PAGE -> ImageFail(b, "KernelRangeTooLarge")
         [] index(KernelVirtBase, 3) = SelfMapIndex -> ImageFail(b, "SelfMapConflict")
         [] OTHER -> [add_data_pages(allocated, root, 3 * PAGE_SIZE) EXCEPT
                        !.tab = tables, !.root = root, !.leaf = leaf,
                        !.ptes = [i \in 0 .. end_pte_index - 1 |-> NoEntry]]

map_range(b, vaddr, len, paddr, kind) ==
    LET first == pte_index(vaddr, 0) - pte_index(KernelVirtBase, 0)
        last == first + round_to_pages(len) - 1
    IN IF first < 0 \/ last \notin DOMAIN b.ptes
       THEN ImageFail(b, "BadKernelAddress")
       ELSE [b EXCEPT !.ptes = [i \in DOMAIN @ |->
                IF i \in first .. last THEN Pte(paddr + (i - first) * PAGE_SIZE, kind) ELSE @[i]]]

add_to_image(b) ==
    LET Leaf(k) == [i \in 0 .. PTE_PER_PAGE - 1 |->
                      IF k * PTE_PER_PAGE + i \in DOMAIN b.ptes
                      THEN b.ptes[k * PTE_PER_PAGE + i] ELSE NoEntry]
        leaves == round_to_pages(Cardinality(DOMAIN b.ptes))
    IN [add_data_pages(b, b.leaf, leaves * PAGE_SIZE) EXCEPT
          !.tab = @ @@ [p \in Page(b.leaf) .. Page(b.leaf) + leaves - 1 |-> Leaf(p - Page(b.leaf))]]

load_elf_segment(b, segment) ==
    LET len == page_align_up(segment.end) - segment.begin
    IN IF ~is_aligned(segment.begin, PAGE_SIZE)
       THEN ImageFail(b, "ElfAlignment")
       ELSE [add_data_pages(map_range(b, segment.begin, len, b.elf_end, segment.kind),
                            b.elf_end, len) EXCEPT !.elf_end = @ + len]

load_kernel_elf(b, elf) == FoldLeft(load_elf_segment, [b EXCEPT !.elf_end = KernelBase], elf)

\* PageCursor: the symbols are streamed, a page at a time, into pages taken from the heap.
PageCursorFlush(b, len) ==
    IF len = 0 THEN b ELSE add_data_pages(allocate_pages(b, 1), HeapPhys(b), len)

RECURSIVE PageCursorWrite(_, _)
PageCursorWrite(b, len) ==
    IF len < PAGE_SIZE THEN PageCursorFlush(b, len)
    ELSE PageCursorWrite(PageCursorFlush(b, PAGE_SIZE), len - PAGE_SIZE)

load_kernel_symbols(b, c) ==
    IF c.syms = 0 THEN b
    ELSE allocate_and_add_pages(PageCursorWrite(b, c.syms * KSymSize), c.strtab)

KernelLaunchInfo(c, gpa, empty, heap, direct_map_base, cpuid_vaddr, idt_vaddr) ==
    [kernel_region_phys_start |-> KernelBase,
     kernel_region_phys_end |-> KernelBase + KernelMinSize,
     heap_area_offset |-> empty.phys_base - KernelBase,
     heap_area_allocated |-> heap.next_free,
     kernel_direct_map_vaddr |-> direct_map_base,
     kernel_fs_end |-> gpa.kernel_fs_end, bldr_start |-> BLDR_BASE,
     cpuid_page |-> cpuid_vaddr, idt_vaddr |-> idt_vaddr,
     kernel_page_table |-> empty.phys_base,
     vmsa_in_kernel_heap |-> vmsa_in_kernel_range(c),
     lowmem_page_table_paddr |-> 0, lowmem_page_table_count |-> 0]

\* Where the parts of the kernel's address space start.
KernelLayout(sizes) ==
    LET stack_base == KernelVirtBase + sizes.virt_len + PAGE_SIZE
        idt_vaddr == stack_base + StackPages * PAGE_SIZE
    IN [sizes |-> sizes, stack_base |-> stack_base, idt_vaddr |-> idt_vaddr,
        direct_map_base |-> align_up_2m(idt_vaddr + PAGE_SIZE)]

NewImage(k, gpa) ==
    [err |-> gpa.err, pages |-> <<>>, tab |-> <<>>, root |-> 0, leaf |-> 0, ptes |-> <<>>,
     elf_end |-> 0, heap |-> create_kernel_heap(k.sizes, k.direct_map_base)]

\* h holds the image before each allocation: the heap of h[i] is where pages i were taken.
AddMapped(h, pages, vaddr) ==
    Append(h, map_range(allocate_pages(Last(h), pages), vaddr, pages * PAGE_SIZE,
                        HeapPhys(Last(h)), "RwData"))

AddPages(h, pages) == Append(h, allocate_pages(Last(h), pages))

AddParams(h, pages) ==
    Append(h, add_data_pages(allocate_pages(Last(h), pages), HeapPhys(Last(h)), PAGE_SIZE))

\* The page tables and the ELF image, then the stack, the IDT, the boot parameters, the CPUID
\* page and the secrets page.
ImageSteps(c, fw, k, new) ==
    LET loaded == load_kernel_elf(setup_kernel_page_tables(new, k.direct_map_base), c.elf)
        stack == AddMapped(<<loaded>>, StackPages, k.stack_base)
        idt == AddMapped(stack, 1, k.idt_vaddr)
        params == AddParams(idt, round_to_pages(BootParamLayout(fw.guest_context).total))
    IN AddPages(AddPages(params, 1), 1)

\* The symbols, the leaf page tables, the launch information page and the stack's content.
FinishImage(c, h) ==
    add_data_pages(allocate_and_add_pages(add_to_image(load_kernel_symbols(Last(h), c)), PAGE_SIZE),
                   HeapPhys(h[1]), StackPages * PAGE_SIZE)

prepare_boot_image(c, gpa, k, new, h, final) ==
    [image |-> IF k.sizes.phys_page_count * PAGE_SIZE > KernelMinSize
               THEN ImageFail(new, "KernelTooBig") ELSE final,
     launch_info |-> KernelLaunchInfo(c, gpa, new.heap, final.heap, k.direct_map_base,
                                      HeapVirt(h[4]), k.idt_vaddr),
     stack_base |-> k.stack_base, stack_paddr |-> HeapPhys(h[1]), idt_paddr |-> HeapPhys(h[2]),
     params_paddr |-> HeapPhys(h[3]), cpuid_paddr |-> HeapPhys(h[4]),
     secrets_paddr |-> HeapPhys(h[5])]

(***************************************************************************)
(* The directives of the IGVM file that apply on c's platform.             *)
(***************************************************************************)
\* Whether the image runs with a virtual top of memory, and so without a C-bit.
builder_vtom(c, fw) == IF c.fw.kind = "none" THEN c.hypervisor = "hyperv" ELSE fw.vtom

AddIf(cond, b, gpa, len) == IF cond THEN add_data_pages(b, gpa, len) ELSE b

\* The boot loader with its page tables and its stack, or a start in the kernel
BootLoaderPages(c, fw, b) ==
    LET image == add_data_pages(b, BLDR_START, c.bldr)
        tables == add_data_pages(image, LOWMEM_PT_START, LOWMEM_PT_COUNT * PAGE_SIZE)
    IN CASE c.bldr > 0 -> add_data_pages(tables, BLDR_STACK_PAGE, PAGE_SIZE)
         [] c.bldr = 0 /\ (c.platform = "tdp" \/ (c.platform = "snp" /\ ~builder_vtom(c, fw))) ->
                ImageFail(b, "bldr required")
         [] OTHER -> b

\* The firmware, and the areas the host's parameters are put into
ParameterPages(fw, b, params_paddr) ==
    LET layout == BootParamLayout(fw.guest_context)
        firmware == [b EXCEPT !.pages = @ \o fw.directives]
        context == AddIf(fw.guest_context, firmware, params_paddr + layout.guest_context, PAGE_SIZE)
        map == add_data_pages(context, params_paddr + layout.memory_map, PAGE_SIZE)
        madt == add_data_pages(map, params_paddr + layout.madt, PAGE_SIZE)
    IN add_data_pages(madt, params_paddr + layout.general, PAGE_SIZE)

\* VMSA, file system, CPUID and secrets pages, the stack's space, the SIPI stub
PlatformPages(c, b, boot, gpa) ==
    LET snp == c.platform = "snp"
        tdp == c.platform = "tdp"
        cpuid_addr == IF c.bldr > 0 THEN CPUID_PAGE ELSE boot.cpuid_paddr
        vmsa == AddIf(snp, b, gpa.vmsa, PAGE_SIZE)
        fs == AddIf(c.fs > 0, vmsa, gpa.kernel_fs_start, c.fs)
        cpuid == AddIf(snp \/ tdp, fs, IF snp THEN cpuid_addr ELSE boot.cpuid_paddr, PAGE_SIZE)
        secrets == AddIf(snp \/ tdp, cpuid, boot.secrets_paddr, PAGE_SIZE)
        stack == AddIf(gpa.bldr_stack > BLDR_BASE, secrets, BLDR_BASE, gpa.bldr_stack - BLDR_BASE)
    IN AddIf(~snp, stack, SIPI_STUB_GPA, PAGE_SIZE)

build_directives(c, fw, gpa, boot) ==
    LET loader == BootLoaderPages(c, fw, boot.image)
        params == ParameterPages(fw, loader, boot.params_paddr)
    IN [fw |-> fw] @@ [boot EXCEPT !.image = PlatformPages(c, params, boot, gpa)]
=============================================================================

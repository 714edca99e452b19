------------------------------ MODULE MCGuest -------------------------------
(***************************************************************************)
(* One run for the models of what the SVSM does for the guest: booting     *)
(* until its firmware is launched (Boot), its VMSAs and the core protocol  *)
(* on two CPUs (GuestVcpu), the local APIC emulated on one (GuestApic),    *)
(* and attestation reports from the PSP (GuestRequest).  A behaviour is    *)
(* one of the model that part names.                                       *)
(***************************************************************************)
EXTENDS GuestVcpu

CONSTANTS c1, c2, p1, p2, a1
CONSTANTS Vectors, HostLevel, Ids, Self, MaxPosts

CONSTANTS HostAnswers
CONSTANTS Parts     \* the models run

VARIABLES
    part,
    s, ipi, host, snap, g, out, posts, apicPc, apicFailed, overwritten,
    vmpck0, vmpck0_seqno, request, response, psp, responses, used, call, calls, guest, greqPc,
    cfg, boot, li, mem, heap, bitmap, memmap, bootPc

A == INSTANCE GuestApic WITH pc <- apicPc, failed <- apicFailed

R == INSTANCE GuestRequest
        WITH Payloads <- {1, 2}, SeqnoLimit <- 64, MaxCalls <- 4, pc <- greqPc

-----------------------------------------------------------------------------
(* Boot: pages of 8 bytes, tables of 8 entries, a kernel at 192 that may   *)
(* get 256 to 512 bytes, as the host offers.                               *)

P(n) == n * 8
KernelLink == 8768
Segment(begin, end, kind) ==
    [begin |-> KernelLink + begin, end |-> KernelLink + end, kind |-> kind]
Elfs ==
    {<<Segment(0, 12, "Executable"), Segment(16, 21, "RoData"), Segment(24, 30, "RwData")>>,
     <<Segment(0, 8, "Executable"), Segment(24, 33, "RwData")>>}

\* Firmware: none, OVMF with its metadata (once with an area inside another), and an
\* IGVM file with its directives
Meta(type, page, pages) == [type |-> type, base |-> P(page), len |-> P(pages)]
NoFirmware == [kind |-> "none"]
Ovmf ==
    [kind |-> "ovmf", len |-> P(2),
     entries |-> <<Meta("mem", 16, 2), Meta("mem", 19, 1), Meta("secrets", 18, 1),
                   Meta("cpuid", 20, 1), Meta("caa", 22, 1), Meta("param_area", 13, 2),
                   Meta("memory_map", 1, 1), Meta("hob_area", 12, 1)>>]
OvmfNested ==
    [kind |-> "ovmf", len |-> P(2),
     entries |-> <<Meta("mem", 10, 2), Meta("mem", 13, 2), Meta("mem", 11, 3),
                   Meta("secrets", 18, 1), Meta("caa", 22, 1)>>]
Directive(type, page) == [type |-> type, gpa |-> P(page)]
Igvm ==
    [kind |-> "igvm",
     entries |-> <<Directive("normal", 0), Directive("normal", 9), Directive("normal", 10),
                   Directive("normal", 11), Directive("secrets", 12),
                   Directive("memory_map", 14)>>]

\* Memory maps the host reports, as lists of entries
Area(start, pages, type) == [start |-> start, pages |-> pages, type |-> type]
Maps ==
    {<<Area(0, 20, "MEMORY"), Area(24, n, "HIDDEN"), Area(90, 2, "MEMORY"),
       Area(0, 0, "MEMORY"), Area(0, 1, "MEMORY")>> : n \in {20, 37, 50, 64}}
    \union {<<Area(0, 30, "MEMORY"), Area(40, 50, "MEMORY")>>, <<Area(0, 96, "MEMORY")>>,
            <<Area(4, 10, "MEMORY"), Area(2, 3, "MEMORY")>>, <<>>}

MCConfigs ==
    {c \in [platform : {"snp", "tdp", "native"}, hypervisor : {"qemu", "hyperv", "vanadium"},
            bldr : {0, 12}, fs : {0, 3}, elf : Elfs, syms : {0, 6}, strtab : {5},
            fw : {NoFirmware, Ovmf, OvmfNested, Igvm}, no_vtom : BOOLEAN, psc : BOOLEAN,
            map : Maps, huge : {{}, {4, 6, 7, 9}}] :
        /\ c.syms = 0 <=> c.fs = 0
        /\ c.no_vtom => /\ c.bldr > 0 /\ c.fw.kind # "ovmf"
                        /\ c.hypervisor = "hyperv" /\ c.platform = "snp"
        /\ c.platform = "tdp" => c.fw.kind # "ovmf"
        /\ c.fw.kind = "igvm" => c.hypervisor = "hyperv"
        /\ c.fw.kind = "ovmf" => c.hypervisor # "hyperv"}

B == INSTANCE Boot
        WITH PAGE_SIZE <- 8, PTE_PER_PAGE <- 8, MaxPscEntries <- 3, WordBits <- 5,
             LOWMEM_END <- 56, SIPI_STUB_GPA <- 8, LOWMEM_PT_START <- 16, LOWMEM_PT_COUNT <- 4,
             BLDR_BASE <- 128, BLDR_STACK_PAGE <- 136, CPUID_PAGE <- 144, BLDR_START <- 152,
             BLDR_MAXLEN <- 16, KernelBase <- 192, KernelMinSize <- 256, KernelMaxSize <- 512,
             FixedVmsa <- 760, FlashStart <- 704, FlashSize <- 48, KernelVirtBase <- KernelLink,
             StackPages <- 2, SelfMapIndex <- 7, KSymSize <- 3, MaxPrevalidated <- 4,
             Configs <- MCConfigs, pc <- bootPc

-----------------------------------------------------------------------------
apicVars == <<s, ipi, host, snap, g, out, posts, apicPc, apicFailed, overwritten>>
greqVars ==
    <<vmpck0, vmpck0_seqno, request, response, psp, responses, used, call, calls, guest, greqPc>>
bootVars == <<cfg, boot, li, mem, heap, bitmap, memmap, bootPc>>
allVars == <<part, vars, apicVars, greqVars, bootVars>>

BootOff ==
    /\ cfg = 0 /\ boot = 0 /\ li = 0 /\ mem = 0
    /\ heap = 0 /\ bitmap = 0 /\ memmap = 0 /\ bootPc = 0

MCInit ==
    /\ part \in Parts
    /\ Init /\ A!Init /\ R!Init
    /\ \/ part # "boot" /\ BootOff
       \/ part = "boot" /\ B!BootInit

MCNext ==
    /\ \/ part = "vcpu" /\ Next /\ UNCHANGED <<apicVars, greqVars, bootVars>>
       \/ part = "apic" /\ A!Next /\ UNCHANGED <<vars, greqVars, bootVars>>
       \/ part = "greq" /\ R!Next /\ UNCHANGED <<vars, apicVars, bootVars>>
       \/ part = "boot" /\ B!BootNext /\ UNCHANGED <<vars, apicVars, greqVars>>
    /\ UNCHANGED part

MCSpec == MCInit /\ [][MCNext]_allVars

\* A CPU's reference to its guest VMSA agrees with the registry of VMSAs: what it
\* refers to is registered, in use and its own.
RefsExact == OwnEntryKept /\ RefsRegistered

\* The interrupts in service are those whose handlers the guest runs, by priority.
InServiceMatchesGuest == A!InServiceMatchesGuest /\ A!StackByClass

\* An interrupt posted for this CPU is pending, or is about to be picked up.
NoneLeftBehind == A!NoneLeftBehind

\* PPR covers every interrupt in service.
PprCoversInService == A!PprCoversInService




\* The guest gets the memory the map gives it, and none of the SVSM's.
GuestHasItsOwn == part = "boot" => B!GuestHasItsOwn
=============================================================================

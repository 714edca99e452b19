----------------------------- MODULE GuestVcpu ------------------------------
(***************************************************************************)
(* Guest VMSAs and the core protocol that manages them: the registry       *)
(* PERCPU_VMSAS and the guest VMSA reference of each CPU                   *)
(* (kernel/src/cpu/percpu.rs), the loop that enters the guest              *)
(* (vmm/execloop.rs, requests.rs), and the requests CREATE_VCPU,           *)
(* DELETE_VCPU, PVALIDATE and REMAP_CA (protocols/core.rs), on several     *)
(* CPUs that run the guest.                                                *)
(*                                                                         *)
(* Each CPU is at one place of enter_guest() or of a request handler.      *)
(* Every hold of a lock is one step, except PVALIDATE_LOCK, which is held  *)
(* over several.  Allocation of temporary mappings never fails; requests   *)
(* that change no state (QUERY_PROTOCOL, CONFIGURE_VTOM, DEPOSIT_MEM,      *)
(* WITHDRAW_MEM) are left out.                                             *)
(***************************************************************************)
EXTENDS Integers, FiniteSets

CONSTANTS
    Cpus, Bsp,      \* CPUs, and the one that boots the firmware
    Pages,          \* guest pages
    Caas,           \* further guest pages, used for calling areas only
    FwVmsa,         \* the VMSA page alloc_guest_vmsa() allocates for Bsp
    None,
    MaxEntries,     \* entries in one PVALIDATE request
    MaxRequests     \* requests the guest makes

VARIABLES
    vmsas,      \* PERCPU_VMSAS: [paddr, cpu, in_use]
    ref,        \* guest_vmsa of a CPU; stale: generation # gen_in_use
    mapped,     \* the page at SVSM_PERCPU_VMSA_BASE (the CAA's mapping changes with it)
    rmp,        \* the guest's rights to a page: "guest", "none" or "vmsa"
    valid,      \* validated pages
    tlb,        \* pages the guest can still write through a TLB entry
    good,       \* pages whose bytes pass check_vmsa(), EFER.SVME left aside
    svme,       \* VMSAs with EFER.SVME set
    writer, readers,    \* holders of PVALIDATE_LOCK
    exec,       \* the VMSA a CPU executes
    pc, req,    \* place of a CPU, and the request it handles
    made,       \* requests made
    contested,  \* pages that two requests in flight have named: a history variable
    failed      \* the assertion that failed, or "no"

rvars == <<vmsas, ref, mapped>>
pvars == <<rmp, valid, tlb, good>>
lvars == <<writer, readers>>
vars == <<rvars, pvars, svme, lvars, exec, pc, req, made, contested, failed>>

Entry(p, c, u) == [paddr |-> p, cpu |-> c, in_use |-> u]
Request(k, p, caa, t) ==
    [kind |-> k, page |-> p, caa |-> caa, cpu |-> t, entries |-> 0, next |-> 0,
     valid |-> FALSE, ign_cf |-> FALSE]
NoRequest == Request("none", None, None, None)

TypeOK ==
    /\ vmsas \subseteq [paddr : Pages, cpu : Cpus, in_use : BOOLEAN]
    /\ ref \in [Cpus -> [vmsa : Pages \union {FwVmsa, None}, caa : Pages \union Caas \union {None},
                         stale : BOOLEAN]]
    /\ mapped \in [Cpus -> Pages \union {FwVmsa, None}]
    /\ rmp \in [Pages -> {"guest", "none", "vmsa"}]
    /\ UNION {valid, tlb, good, contested} \subseteq Pages
    /\ svme \subseteq Pages \union {FwVmsa}
    /\ writer \in Cpus \union {None} /\ readers \subseteq Cpus
    /\ (writer # None => readers = {})
    /\ made \in 0..MaxRequests
    /\ exec \in [Cpus -> Pages \union {FwVmsa, None}]
    /\ \A c \in Cpus : req[c].entries \in 0..MaxEntries /\ req[c].next \in 0..MaxEntries

Init ==
    /\ vmsas = {}
    /\ \E q \in Caas :
         ref = [c \in Cpus |-> IF c = Bsp THEN [vmsa |-> FwVmsa, caa |-> q, stale |-> FALSE]
                                         ELSE [vmsa |-> None, caa |-> None, stale |-> TRUE]]
    /\ mapped = [c \in Cpus |-> ref[c].vmsa]
    /\ rmp = [p \in Pages |-> "guest"] /\ valid = Pages /\ tlb = {} /\ good = {}
    /\ svme = {}
    /\ writer = None /\ readers = {}
    /\ exec = [c \in Cpus |-> None]
    /\ pc = [c \in Cpus |-> "enter"] /\ req = [c \in Cpus |-> NoRequest]
    /\ made = 0 /\ contested = {} /\ failed = "no"

-----------------------------------------------------------------------------
(* Addresses, registry and references.                                     *)

exists(p) == \E e \in vmsas : e.paddr = p
valid_phys_address(p) == ~exists(p)
writable_phys_addr(p) == valid_phys_address(p)

register(p, c) == vmsas' = vmsas \union {Entry(p, c, FALSE)}
unregister(p, u) == vmsas' = {e \in vmsas : ~(e.paddr = p /\ e.in_use = u)}
set_used(p) ==
    vmsas' = {IF e.paddr = p THEN [e EXCEPT !.in_use = TRUE] ELSE e : e \in vmsas}

\* The reference is left as it is.
clear_guest_vmsa_never(c, p) == ref' = ref

clear_guest_vmsa_if_match(c, p) ==
    ref' = IF ref[c].vmsa = p THEN [ref EXCEPT ![c].vmsa = None, ![c].stale = TRUE] ELSE ref

\* update_guest_mappings(): failure is the absence of a VMSA
MissingVMSA(c) == ref[c].vmsa = None
update_guest_mappings(c) ==
    /\ mapped' = IF ref[c].stale THEN [mapped EXCEPT ![c] = ref[c].vmsa] ELSE mapped
    /\ ref' = [ref EXCEPT ![c].stale = FALSE]
    /\ UNCHANGED vmsas

\* RMPADJUST fails on a page that is not validated.  A right taken away may
\* live on in a TLB.
rmp_adjust(p, right) ==
    /\ rmp' = IF p \in valid THEN [rmp EXCEPT ![p] = right] ELSE rmp
    /\ tlb' = IF p \in valid /\ rmp[p] = "guest" /\ right # "guest" THEN tlb \union {p} ELSE tlb
rmp_revoke_guest_access(p) == rmp_adjust(p, "none")
rmp_grant_guest_access(p) == rmp_adjust(p, "guest")
rmp_set_guest_vmsa(p) == rmp_adjust(p, "vmsa")
rmp_clear_guest_vmsa(p) == rmp_grant_guest_access(p)
flush_tlb_global_sync_page(p) == tlb' = tlb \ {p}

Goto(c, l) == pc' = [pc EXCEPT ![c] = l]
At(c, l) == failed = "no" /\ pc[c] = l
Panic(a) == failed' = a
Finish(c) == Goto(c, "enter") /\ req' = [req EXCEPT ![c] = NoRequest]

-----------------------------------------------------------------------------
(* enter_guest() and the request loop.                                     *)

EnterGuest(c) ==
    /\ At(c, "enter")
    /\ update_guest_mappings(c)
    /\ Goto(c, IF MissingVMSA(c) THEN "enter" ELSE "resume")
    /\ UNCHANGED <<pvars, svme, lvars, exec, req, failed, made, contested>>

\* The reference is locked again: it need not be the one just mapped.
ResumeGuest(c) ==
    /\ At(c, "resume")
    /\ IF ref[c].vmsa = None
       THEN Panic("vmsa") /\ UNCHANGED <<svme, pc>>
       ELSE svme' = svme \union {mapped[c]} /\ Goto(c, "switch") /\ UNCHANGED failed
    /\ UNCHANGED <<rvars, pvars, lvars, exec, req, made, contested>>

\* switch_to_vmpl(): the hypervisor runs the VMSA if the CPU lets it.
SwitchToGuest(c) ==
    /\ At(c, "switch")
    /\ exec' = [exec EXCEPT ![c] =
                  IF mapped[c] \in svme
                     /\ (mapped[c] \in Pages => rmp[mapped[c]] = "vmsa")
                     /\ \A d \in Cpus : exec[d] # mapped[c]
                  THEN mapped[c] ELSE None]
    /\ tlb' = {}
    /\ Goto(c, "guest")
    /\ UNCHANGED <<rvars, rmp, valid, good, svme, lvars, req, failed, made, contested>>

GuestExit(c) ==
    /\ At(c, "guest")
    /\ update_guest_mappings(c)
    /\ exec' = [exec EXCEPT ![c] = None]
    /\ Goto(c, IF MissingVMSA(c) THEN "enter" ELSE IF exec[c] = None THEN "refused" ELSE "exited")
    /\ UNCHANGED <<pvars, svme, lvars, req, failed, made, contested>>

InFlight(p) == {d \in Cpus : p \in {req[d].page, req[d].caa} \ {None}}

\* The guest does not make a VMSA of a page that is a calling area.
Allowed(r) == r.kind = "create" => \A d \in Cpus : r.page # ref[d].caa

Contest(r) ==
    contested' = contested \union
                   {p \in {r.page, r.caa} \intersect Pages : InFlight(p) # {}}

Requests ==
    {Request("create", p, q, t) : p \in Pages, q \in Pages \union Caas, t \in Cpus}
      \union {Request("delete", p, None, None) : p \in Pages}
      \union {Request("remap", None, p, None) : p \in Pages \union Caas}
      \union {[Request("pvalidate", None, None, None) EXCEPT !.entries = n, !.next = i] :
                 n \in 0..MaxEntries, i \in 0..MaxEntries}

\* get_svsm_request_message(): the VMSA is locked and disabled; the guest may
\* have a call pending.
TakeRequest(c) ==
    /\ At(c, "exited") \/ At(c, "refused")
    /\ IF ref[c].vmsa = None
       THEN Panic("vmsa") /\ UNCHANGED <<svme, pc, req, made, contested>>
       ELSE /\ svme' = svme \ {mapped[c]}
            /\ UNCHANGED failed
            /\ \/ Goto(c, "resume") /\ UNCHANGED <<req, made, contested>>
               \/ \E r \in Requests :
                     /\ pc[c] = "exited" /\ ref[c].caa # None
                     /\ made < MaxRequests /\ made' = made + 1
                     /\ Allowed(r)
                     /\ req' = [req EXCEPT ![c] = r]
                     /\ Contest(r)
                     /\ Goto(c, r.kind)
    /\ UNCHANGED <<rvars, pvars, lvars, exec>>

\* A guest CPU writes to a page that it may write to.
GuestWrite(p) ==
    /\ failed = "no"
    /\ \E c \in Cpus : exec[c] # None
    /\ (p \in valid /\ rmp[p] = "guest") \/ p \in tlb
    /\ \/ good' = good \union {p} /\ svme' = svme \union {p}
       \/ good' = good \ {p} /\ svme' = svme \ {p}
    /\ UNCHANGED <<rvars, rmp, valid, tlb, lvars, exec, pc, req, failed, made, contested>>

-----------------------------------------------------------------------------
(* CREATE_VCPU.                                                            *)

CreateVcpu(c) ==
    /\ At(c, "create")
    /\ IF /\ valid_phys_address(req[c].page) /\ valid_phys_address(req[c].caa)
          /\ req[c].page # req[c].caa
       THEN Goto(c, "register") /\ UNCHANGED req
       ELSE Finish(c)
    /\ UNCHANGED <<rvars, pvars, svme, lvars, exec, failed, made, contested>>

RegisterVmsa(c) ==
    /\ At(c, "register")
    /\ IF exists(req[c].page)
       THEN Finish(c) /\ UNCHANGED vmsas
       ELSE register(req[c].page, req[c].cpu) /\ Goto(c, "revoke") /\ UNCHANGED req
    /\ UNCHANGED <<ref, mapped, pvars, svme, lvars, exec, failed, made, contested>>

RevokeVmsa(c) ==
    /\ At(c, "revoke")
    /\ writer = None /\ readers = {}
    /\ writer' = c
    /\ rmp_revoke_guest_access(req[c].page)
    /\ Goto(c, IF req[c].page \in valid THEN "flush" ELSE "unregister")
    /\ UNCHANGED <<rvars, valid, good, svme, readers, exec, req, failed, made, contested>>

\* Without the TLB flush
FlushVmsaSkip(c) ==
    /\ At(c, "flush")
    /\ Goto(c, "check")
    /\ UNCHANGED <<rvars, pvars, svme, lvars, exec, req, failed, made, contested>>

FlushVmsa(c) ==
    /\ At(c, "flush")
    /\ flush_tlb_global_sync_page(req[c].page)
    /\ Goto(c, "check")
    /\ UNCHANGED <<rvars, rmp, valid, good, svme, lvars, exec, req, failed, made, contested>>

check_vmsa(p) == p \in good /\ p \in svme

CheckVmsa(c) ==
    /\ At(c, "check")
    /\ Goto(c, IF check_vmsa(req[c].page) THEN "set" ELSE "restore")
    /\ UNCHANGED <<rvars, pvars, svme, lvars, exec, req, failed, made, contested>>

SetVmsa(c) ==
    /\ At(c, "set")
    /\ rmp_set_guest_vmsa(req[c].page)
    /\ IF req[c].page \in valid
       THEN Goto(c, "used") /\ writer' = None
       ELSE Goto(c, "restore") /\ UNCHANGED writer
    /\ UNCHANGED <<rvars, valid, good, svme, readers, exec, req, failed, made, contested>>

\* core_create_vcpu_error_restore()
RestorePage(c) ==
    /\ At(c, "restore")
    /\ rmp_clear_guest_vmsa(req[c].page)
    /\ Goto(c, "unregister")
    /\ UNCHANGED <<rvars, valid, good, svme, lvars, exec, req, failed, made, contested>>

UnregisterUnused(c) ==
    /\ At(c, "unregister")
    /\ tlb' = {}
    /\ IF \E e \in vmsas : e.paddr = req[c].page /\ ~e.in_use
       THEN unregister(req[c].page, FALSE) /\ Finish(c) /\ writer' = None /\ UNCHANGED failed
       ELSE Panic("unwrap") /\ UNCHANGED <<vmsas, pc, req, writer>>
    /\ UNCHANGED <<ref, mapped, rmp, valid, good, svme, readers, exec, made, contested>>

MarkUsed(c) ==
    /\ At(c, "used")
    /\ IF Entry(req[c].page, req[c].cpu, FALSE) \in vmsas
       THEN set_used(req[c].page) /\ Goto(c, "update") /\ UNCHANGED failed
       ELSE Panic("set_used") /\ UNCHANGED <<vmsas, pc>>
    /\ UNCHANGED <<ref, mapped, pvars, svme, lvars, exec, req, made, contested>>

UpdateVmsaCaa(c) ==
    /\ At(c, "update")
    /\ ref' = [ref EXCEPT ![req[c].cpu] =
                 [vmsa |-> req[c].page, caa |-> req[c].caa, stale |-> TRUE]]
    /\ Finish(c)
    /\ UNCHANGED <<vmsas, mapped, pvars, svme, lvars, exec, failed, made, contested>>

-----------------------------------------------------------------------------
(* DELETE_VCPU.                                                            *)

\* An entry that is still being created is deleted too.
DeleteVcpuAny(c) ==
    /\ At(c, "delete")
    /\ \/ \E e \in vmsas :
             /\ e.paddr = req[c].page
             /\ unregister(e.paddr, e.in_use)
             /\ clear_guest_vmsa_if_match(e.cpu, e.paddr)
             /\ Goto(c, "disable") /\ UNCHANGED req
       \/ ~exists(req[c].page) /\ Finish(c) /\ UNCHANGED <<vmsas, ref>>
    /\ UNCHANGED <<mapped, pvars, svme, lvars, exec, failed, made, contested>>

\* unregister(paddr, true) clears the reference under the registry's lock.
DeleteVcpu(c) ==
    /\ At(c, "delete")
    /\ \/ \E e \in vmsas :
             /\ e.paddr = req[c].page /\ e.in_use
             /\ unregister(e.paddr, TRUE)
             /\ clear_guest_vmsa_if_match(e.cpu, e.paddr)
             /\ Goto(c, "disable") /\ UNCHANGED req
       \/ /\ ~\E e \in vmsas : e.paddr = req[c].page /\ e.in_use
          /\ Finish(c) /\ UNCHANGED <<vmsas, ref>>
    /\ UNCHANGED <<mapped, pvars, svme, lvars, exec, failed, made, contested>>

\* disable() cannot write to a VMSA that is executing
DisableVmsa(c) ==
    /\ At(c, "disable")
    /\ \A d \in Cpus : exec[d] # req[c].page
    /\ svme' = svme \ {req[c].page}
    /\ Goto(c, "clear")
    /\ UNCHANGED <<rvars, pvars, lvars, exec, req, failed, made, contested>>

\* The flush that follows finds no entry: the guest could not write to the page.
ClearVmsa(c) ==
    /\ At(c, "clear")
    /\ rmp_clear_guest_vmsa(req[c].page)
    /\ Finish(c)
    /\ UNCHANGED <<rvars, valid, good, svme, lvars, exec, failed, made, contested>>

-----------------------------------------------------------------------------
(* PVALIDATE: entries are read from guest memory one at a time.            *)

Pvalidate(c) ==
    /\ At(c, "pvalidate")
    /\ IF req[c].entries = 0 \/ req[c].entries <= req[c].next
       THEN Finish(c)
       ELSE Goto(c, "entry") /\ UNCHANGED req
    /\ UNCHANGED <<rvars, pvars, svme, lvars, exec, failed, made, contested>>

NextEntry(c) ==
    /\ At(c, "entry")
    /\ IF req[c].next = req[c].entries
       THEN Finish(c) /\ UNCHANGED contested
       ELSE \E p \in Pages, v, i \in BOOLEAN :
              LET r == [req[c] EXCEPT !.page = p, !.valid = v, !.ign_cf = i] IN
              /\ Contest([r EXCEPT !.caa = None])
              /\ IF valid_phys_address(p)
                 THEN Goto(c, "locked") /\ req' = [req EXCEPT ![c] = r]
                 ELSE Finish(c)
    /\ UNCHANGED <<rvars, pvars, svme, lvars, exec, made, failed>>

\* PVALIDATE_LOCK.lock_read() waits for the writer.
lock_read_any == TRUE
lock_read == writer = None

LockPvalidate(c) ==
    /\ At(c, "locked")
    /\ lock_read
    /\ IF req[c].valid
       THEN UNCHANGED <<rmp, tlb>> /\ Goto(c, "change") /\ readers' = readers \union {c}
                /\ UNCHANGED req
       ELSE /\ rmp_revoke_guest_access(req[c].page)
            /\ IF req[c].page \in valid
               THEN Goto(c, "change") /\ readers' = readers \union {c} /\ UNCHANGED req
               ELSE Finish(c) /\ UNCHANGED readers
    /\ UNCHANGED <<rvars, valid, good, svme, writer, exec, failed, made, contested>>

\* PVALIDATE reports a page that already had the state asked for.
ChangeValidation(c) ==
    LET unchanged == (req[c].page \in valid) = req[c].valid IN
    /\ At(c, "change")
    /\ valid' = IF req[c].valid THEN valid \union {req[c].page} ELSE valid \ {req[c].page}
    /\ readers' = readers \ {c}
    /\ IF unchanged /\ ~req[c].ign_cf
       THEN Finish(c)
       ELSE Goto(c, IF req[c].valid THEN "zero" ELSE "pflush") /\ UNCHANGED req
    /\ UNCHANGED <<rvars, rmp, tlb, good, svme, writer, exec, failed, made, contested>>

ZeroPage(c) ==
    /\ At(c, "zero")
    /\ IF writable_phys_addr(req[c].page)
       THEN good' = good \ {req[c].page} /\ svme' = svme \ {req[c].page}
       ELSE UNCHANGED <<good, svme>>
    /\ Goto(c, "grant")
    /\ UNCHANGED <<rvars, rmp, valid, tlb, lvars, exec, req, failed, made, contested>>

EntryDone(c) ==
    Goto(c, "entry") /\ req' = [req EXCEPT ![c].next = @ + 1, ![c].page = None]

GrantPage(c) ==
    /\ At(c, "grant")
    /\ rmp_grant_guest_access(req[c].page)
    /\ IF req[c].page \in valid THEN EntryDone(c) ELSE Finish(c)
    /\ UNCHANGED <<rvars, valid, good, svme, lvars, exec, failed, made, contested>>

FlushPage(c) ==
    /\ At(c, "pflush")
    /\ flush_tlb_global_sync_page(req[c].page)
    /\ EntryDone(c)
    /\ UNCHANGED <<rvars, rmp, valid, good, svme, lvars, exec, failed, made, contested>>

-----------------------------------------------------------------------------
(* REMAP_CA.                                                               *)

RemapCa(c) ==
    /\ At(c, "remap")
    /\ IF valid_phys_address(req[c].caa)
       THEN Goto(c, "setcaa") /\ UNCHANGED req
       ELSE Finish(c)
    /\ UNCHANGED <<rvars, pvars, svme, lvars, exec, failed, made, contested>>

UpdateCaa(c) ==
    /\ At(c, "setcaa")
    /\ good' = good \ {req[c].caa}
    /\ ref' = [ref EXCEPT ![c].caa = req[c].caa, ![c].stale = TRUE]
    /\ Finish(c)
    /\ UNCHANGED <<vmsas, mapped, rmp, valid, tlb, svme, lvars, exec, failed, made, contested>>

-----------------------------------------------------------------------------
Next ==
    \/ \E c \in Cpus :
         \/ EnterGuest(c) \/ ResumeGuest(c) \/ SwitchToGuest(c) \/ GuestExit(c)
         \/ TakeRequest(c)
         \/ CreateVcpu(c) \/ RegisterVmsa(c) \/ RevokeVmsa(c) \/ FlushVmsa(c)
         \/ CheckVmsa(c) \/ SetVmsa(c) \/ RestorePage(c) \/ UnregisterUnused(c)
         \/ MarkUsed(c) \/ UpdateVmsaCaa(c)
         \/ DeleteVcpu(c) \/ DisableVmsa(c) \/ ClearVmsa(c)
         \/ Pvalidate(c) \/ NextEntry(c) \/ LockPvalidate(c) \/ ChangeValidation(c)
         \/ ZeroPage(c) \/ GrantPage(c) \/ FlushPage(c)
         \/ RemapCa(c) \/ UpdateCaa(c)
    \/ \E p \in Pages : GuestWrite(p)

Spec == Init /\ [][Next]_vars

-----------------------------------------------------------------------------
(* Properties.                                                             *)

\* While a VMSA is in use (PerCpuVmsas::set_used()) the guest cannot write to
\* its page, directly or through a TLB entry, and its bytes are the ones
\* core_create_vcpu() checked: nothing came between check and use.  A page
\* that the guest named in two requests at once is excepted.
InUseProtected ==
    \A e \in vmsas :
        e.in_use /\ e.paddr \notin contested =>
            rmp[e.paddr] = "vmsa" /\ e.paddr \notin tlb /\ e.paddr \in good

\* A page is registered once, and a CPU's guest VMSA is the firmware's or a
\* page registered and in use for that CPU: GuestVmsaRef never keeps a page
\* that DELETE_VCPU gave back, unless the guest deletes a VMSA it is creating.
RefsRegistered ==
    /\ \A e, f \in vmsas : e.paddr = f.paddr => e = f
    /\ \A c \in Cpus : ref[c].vmsa \in Pages \ contested => Entry(ref[c].vmsa, c, TRUE) \in vmsas

\* The entry that core_create_vcpu() registered is still its own when it is
\* marked used, and when the error path unregisters it and unwraps the result.
OwnEntryKept == failed \notin {"unwrap", "set_used"}

\* "Take lock to prevent races with CREATE_VCPU calls" (core_pvalidate_one()):
\* no page that PVALIDATE is changing is a VMSA in use.
PvalidateExcludesVmsa ==
    \A e \in vmsas, c \in Cpus :
        e.in_use /\ e.paddr = req[c].page => pc[c] \notin {"change", "zero", "grant", "pflush"}

\* The guest VMSA reference that enter_guest() locks names a VMSA, as the
\* assertion in GuestVmsaRef::vmsa() says.
VmsaPresent == failed # "vmsa"
=============================================================================

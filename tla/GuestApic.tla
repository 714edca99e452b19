----------------------------- MODULE GuestApic ------------------------------
(***************************************************************************)
(* Emulation of the guest's local APIC by alternate injection              *)
(* (kernel/src/cpu/apic.rs, protocols/apic.rs) on one CPU, with the parts  *)
(* of the VMSA it uses (sev/vmsa.rs, PerCpu::ai_handle_intercepts()), the  *)
(* IPI requests of other CPUs (PerCpuShared, cpu/percpu.rs) and the        *)
(* descriptor through which the host presents interrupts.                  *)
(*                                                                         *)
(* Bitmaps are sets of vectors.  interrupts_enabled() and in_intr_shadow() *)
(* are one flag, open.  Each access to memory that others write (IPI       *)
(* requests, host descriptor) is a step of its own; the rest of            *)
(* present_interrupts() is one step.  A calling area is always present.    *)
(***************************************************************************)
EXTENDS Integers, Sequences, FiniteSets, SequencesExt, FiniteSetsExt

CONSTANTS
    Vectors,        \* vectors the guest uses
    HostLevel,      \* those the host presents as level-sensitive
    Ids, Self,      \* APIC IDs, and the one of this CPU
    MaxPosts        \* interrupts posted

VARIABLES
    s,          \* LocalApic, VMSA and the calling area's no_eoi_required
    ipi,        \* ipi_irr, nmi_pending, ipi_pending; posting: request_ipi() is
                \* between its two stores
    host,       \* host descriptor
    snap,       \* flags, the local of consume_host_interrupts()
    g,          \* handlers the guest runs, the last one innermost
    out,        \* other CPUs posted to and notified by the last ICR write
    posts, pc,
    failed,     \* an assertion failed
    overwritten \* an NMI replaced an interrupt awaiting injection

vars == <<s, ipi, host, snap, g, out, posts, pc, failed, overwritten>>

NMI == 256
class(v) == v \div 16
STACK == 16

Apic0 ==
    [irr |-> {}, allowed_irr |-> Vectors, isr_stack_index |-> 0,
     isr_stack |-> [i \in 1..STACK |-> 0], tmr |-> {}, host_tmr |-> {},
     update_required |-> FALSE, interrupt_delivered |-> FALSE,
     interrupt_queued |-> FALSE, lazy_eoi_pending |-> FALSE, nmi_pending |-> FALSE,
     event_inj |-> 0, v_irq |-> 0, open |-> TRUE, tpr |-> 0, no_eoi |-> FALSE]
Host0 == [event |-> FALSE, vector |-> 0, level |-> FALSE, multiple |-> FALSE, irr |-> {},
          isr |-> {}, nmi |-> FALSE]

InService(t) == SubSeq(t.isr_stack, 1, t.isr_stack_index)
Top(t) == IF t.isr_stack_index # 0 THEN t.isr_stack[t.isr_stack_index] ELSE 0

TypeOK ==
    /\ UNION {s.irr, s.allowed_irr, s.tmr, s.host_tmr, host.irr, host.isr, ipi.irr} \subseteq Vectors
    /\ s.isr_stack_index \in 0..STACK - 1
    /\ s.event_inj \in Vectors \union {0, NMI} /\ s.v_irq \in Vectors \union {0}
    /\ posts \in 0..MaxPosts

Init ==
    /\ s = Apic0 /\ host = Host0 /\ snap = Host0
    /\ ipi = [irr |-> {}, nmi |-> FALSE, pending |-> FALSE, posting |-> FALSE]
    /\ g = <<>> /\ out = [posted |-> {}, notified |-> {}]
    /\ posts = 0 /\ pc = "enter" /\ failed = FALSE /\ overwritten = FALSE

-----------------------------------------------------------------------------
(* LocalApic.                                                              *)

scan_irr(t) == IF t.irr = {} THEN 0 ELSE Max(t.irr)

rewind_pending_interrupt(t, q) ==
    [t EXCEPT !.irr = @ \union {q}, !.isr_stack_index = @ - 1, !.update_required = TRUE,
              !.lazy_eoi_pending = FALSE]

perform_eoi(t) ==
    IF t.isr_stack_index = 0
    THEN t
    ELSE [t EXCEPT !.isr_stack_index = @ - 1, !.tmr = @ \ {Top(t)},
                   !.host_tmr = IF Top(t) \in t.tmr THEN @ \ {Top(t)} ELSE @,
                   !.update_required = TRUE, !.lazy_eoi_pending = FALSE]

\* check_and_clear_pending_interrupt_event(), ..._virtual_interrupt()
EventPending(t) == t.interrupt_delivered /\ t.event_inj \in Vectors
VirqPending(t) == t.interrupt_queued /\ t.v_irq # 0

CheckEvent(t) ==
    LET u == IF EventPending(t)
             THEN rewind_pending_interrupt([t EXCEPT !.event_inj = 0], t.event_inj) ELSE t
    IN  [u EXCEPT !.interrupt_delivered = FALSE]
CheckVirq(t) ==
    LET u == IF VirqPending(t)
             THEN rewind_pending_interrupt([t EXCEPT !.v_irq = 0], t.v_irq) ELSE t
    IN  [u EXCEPT !.interrupt_queued = FALSE]
CheckLazyEoi(t) == IF t.lazy_eoi_pending /\ ~t.no_eoi THEN perform_eoi(t) ELSE t

check_delivered_interrupts(t) == CheckLazyEoi(CheckVirq(CheckEvent(t)))

\* An assertion of rewind_pending_interrupt() or of the lazy EOI fails.
CheckPanics(t) ==
    LET u == CheckEvent(t)  w == CheckVirq(u) IN
    \/ EventPending(t) /\ Top(t) # t.event_inj
    \/ VirqPending(u) /\ Top(u) # u.v_irq
    \/ w.lazy_eoi_pending /\ ~w.no_eoi /\ w.isr_stack_index = 0

\* The entry above the top of the stack is read.
get_ppr(t) ==
    LET ppr == IF t.isr_stack_index # 0 THEN t.isr_stack[t.isr_stack_index + 1] ELSE 0
    IN  IF class(ppr) > class(t.tpr) THEN ppr ELSE t.tpr

deliver_interrupt_immediately(t, q) ==
    t.open /\ class(q) > class(get_ppr(t)) /\ t.event_inj = 0

RequestNmi(t) ==
    IF t.nmi_pending THEN [t EXCEPT !.event_inj = NMI, !.nmi_pending = FALSE] ELSE t

\* Lazy EOI whatever is in service
TryLazyEoiAlways(t, now, q) == q \notin t.tmr

\* Lazy EOI needs an unambiguous interrupt in service, and an edge.
TryLazyEoi(t, now, q) == (now \/ t.isr_stack_index = 0) /\ q \notin t.tmr

Deliver(t, q) ==
    LET now == deliver_interrupt_immediately(t, q)
        u == [t EXCEPT !.event_inj = IF now THEN q ELSE @,
                       !.v_irq = IF now THEN @ ELSE q,
                       !.interrupt_delivered = IF now THEN TRUE ELSE @,
                       !.interrupt_queued = IF now THEN @ ELSE TRUE,
                       !.irr = @ \ {q},
                       !.isr_stack[t.isr_stack_index + 1] = q,
                       !.isr_stack_index = @ + 1]
        lazy == TryLazyEoi(t, now, q) /\ scan_irr(u) = 0
    IN  [u EXCEPT !.lazy_eoi_pending = lazy, !.no_eoi = lazy]

\* An interrupt of the class in service is presented too.
PresentSameClass(t) ==
    LET u == RequestNmi([check_delivered_interrupts(t) EXCEPT !.update_required = FALSE])
        w == [u EXCEPT !.lazy_eoi_pending = FALSE, !.no_eoi = FALSE]
        q == scan_irr(w)
    IN  IF class(q) < class(Top(w)) \/ q = 0 THEN w ELSE Deliver(w, q)

\* present_interrupts() once update_required is set
Present(t) ==
    LET u == RequestNmi([check_delivered_interrupts(t) EXCEPT !.update_required = FALSE])
        w == [u EXCEPT !.lazy_eoi_pending = FALSE, !.no_eoi = FALSE]
        q == scan_irr(w)
    IN  IF class(q) <= class(Top(w)) THEN w ELSE Deliver(w, q)

post_interrupt(t, q, level) ==
    [t EXCEPT !.irr = @ \union {q}, !.tmr = IF level THEN @ \union {q} ELSE @,
              !.update_required = TRUE]

signal_one_host_interrupt(t, q, level) ==
    IF q \in t.allowed_irr THEN post_interrupt(t, q, level) ELSE t

-----------------------------------------------------------------------------
(* present_interrupts(): host interrupts, IPIs, then the APIC's own state. *)

TakeHostEvent ==
    /\ pc = "enter"
    /\ host' = [host EXCEPT !.event = FALSE]
    /\ pc' = IF host.event THEN "flags" ELSE "ipi"
    /\ UNCHANGED <<s, ipi, snap, g, out, posts, failed, overwritten>>

\* A level-sensitive vector is consumed by compare-and-exchange until it
\* succeeds; flags is then the value stored.
TakeHostFlags ==
    /\ pc = "flags"
    /\ IF host.level
       THEN /\ s' = [signal_one_host_interrupt(s, host.vector, TRUE) EXCEPT
                       !.host_tmr = IF host.vector \in s.allowed_irr
                                    THEN @ \union {host.vector} ELSE @]
            /\ host' = [host EXCEPT !.vector = 0, !.level = FALSE]
            /\ snap' = [host' EXCEPT !.irr = {}]
       ELSE snap' = [host EXCEPT !.irr = {}] /\ UNCHANGED <<s, host>>
    /\ pc' = IF snap'.multiple THEN "multiple" ELSE IF snap'.vector # 0 THEN "single" ELSE "ipi"
    /\ UNCHANGED <<ipi, g, out, posts, failed, overwritten>>

ClearMultiple ==
    /\ pc = "multiple"
    /\ host' = [host EXCEPT !.multiple = FALSE] /\ snap' = Host0
    /\ pc' = "irr"
    /\ UNCHANGED <<s, ipi, g, out, posts, failed, overwritten>>

TakeHostIrr ==
    /\ pc = "irr"
    /\ s' = IF host.irr \intersect s.allowed_irr = {} THEN s
            ELSE [s EXCEPT !.irr = @ \union (host.irr \intersect s.allowed_irr),
                           !.update_required = TRUE]
    /\ host' = [host EXCEPT !.irr = {}]
    /\ pc' = "ipi"
    /\ UNCHANGED <<ipi, snap, g, out, posts, failed, overwritten>>

\* Left for another pass if the host presented something else meanwhile.
TakeHostSingle ==
    /\ pc = "single"
    /\ IF [host EXCEPT !.irr = {}, !.event = FALSE] = [snap EXCEPT !.event = FALSE]
       THEN /\ s' = signal_one_host_interrupt(s, snap.vector, FALSE)
            /\ host' = [host EXCEPT !.vector = 0]
       ELSE UNCHANGED <<s, host>>
    /\ snap' = Host0 /\ pc' = "ipi"
    /\ UNCHANGED <<ipi, g, out, posts, failed, overwritten>>

TakeIpiPending ==
    /\ pc = "ipi"
    /\ ipi' = [ipi EXCEPT !.pending = FALSE]
    /\ snap' = Host0
    /\ pc' = IF ipi.pending THEN "ipi_irr" ELSE "present"
    /\ UNCHANGED <<s, host, g, out, posts, failed, overwritten>>

\* consume_pending_ipis()
TakeIpis ==
    /\ pc = "ipi_irr"
    /\ s' = [s EXCEPT !.irr = @ \union ipi.irr, !.nmi_pending = @ \/ ipi.nmi,
                      !.update_required = TRUE]
    /\ ipi' = [ipi EXCEPT !.irr = {}, !.nmi = FALSE]
    /\ pc' = "present"
    /\ UNCHANGED <<host, snap, g, out, posts, failed, overwritten>>

PresentInterrupts ==
    LET u == check_delivered_interrupts(s) IN
    /\ pc = "present"
    /\ IF s.update_required
       THEN /\ s' = Present(s)
            /\ failed' = CheckPanics(s)
            /\ overwritten' = (overwritten \/ (u.nmi_pending /\ u.event_inj \in Vectors))
       ELSE UNCHANGED <<s, failed, overwritten>>
    /\ pc' = "guest"
    /\ out' = [posted |-> {}, notified |-> {}]
    /\ UNCHANGED <<ipi, host, snap, g, posts>>

-----------------------------------------------------------------------------
(* The guest: takes what the VMSA holds, ends handlers, exits.             *)

Enter(q) == g' = Append(g, q)
Running == pc = "guest" /\ ~failed
Virq == s.v_irq # 0 /\ s.open /\ s.event_inj = 0 /\ class(s.v_irq) > class(s.tpr)

TakeEvent ==
    /\ Running /\ s.event_inj # 0
    /\ s' = [s EXCEPT !.event_inj = 0, !.open = FALSE]
    /\ IF s.event_inj = NMI THEN UNCHANGED g ELSE Enter(s.event_inj)
    /\ UNCHANGED <<ipi, host, snap, out, posts, pc, failed, overwritten>>

TakeVirq ==
    /\ Running /\ Virq
    /\ s' = [s EXCEPT !.v_irq = 0, !.open = FALSE]
    /\ Enter(s.v_irq)
    /\ UNCHANGED <<ipi, host, snap, out, posts, pc, failed, overwritten>>

\* Delivery is intercepted: ai_handle_intercepts() injects the event again.
Intercepted ==
    /\ Running /\ Virq
    /\ s' = [s EXCEPT !.v_irq = 0, !.event_inj = s.v_irq]
    /\ pc' = "enter"
    /\ UNCHANGED <<ipi, host, snap, g, out, posts, failed, overwritten>>

InGuest == Running /\ s.event_inj = 0 /\ ~Virq

SetOpen ==
    /\ InGuest
    /\ s' = [s EXCEPT !.open = ~@]
    /\ UNCHANGED <<ipi, host, snap, g, out, posts, pc, failed, overwritten>>

\* no_eoi_required is tested and cleared
LazyEoi ==
    /\ InGuest /\ g # <<>> /\ s.no_eoi
    /\ s' = [s EXCEPT !.no_eoi = FALSE]
    /\ g' = Front(g)
    /\ UNCHANGED <<ipi, host, snap, out, posts, pc, failed, overwritten>>

GuestExit ==
    /\ Running
    /\ pc' = "enter"
    /\ UNCHANGED <<s, ipi, host, snap, g, out, posts, failed, overwritten>>

-----------------------------------------------------------------------------
(* Calls of the guest: protocols/apic.rs and PerCpu's register accesses.   *)

Call == InGuest /\ pc' = "enter" /\ failed' = CheckPanics(s)

WriteEoi ==
    /\ Call /\ g # <<>> /\ ~s.no_eoi
    /\ s' = perform_eoi(check_delivered_interrupts(s))
    /\ g' = Front(g)
    /\ UNCHANGED <<ipi, host, snap, out, posts, overwritten>>

\* The VMSA keeps four bits.
WriteTpr(tpr) ==
    /\ Call
    /\ s' = [check_delivered_interrupts(s) EXCEPT !.tpr = (tpr \div 16) * 16]
    /\ UNCHANGED <<ipi, host, snap, g, out, posts, overwritten>>

ReadRegister ==
    /\ Call
    /\ s' = check_delivered_interrupts(s)
    /\ UNCHANGED <<ipi, host, snap, g, out, posts, overwritten>>

WriteSelfIpi(q) ==
    /\ Call /\ posts < MaxPosts /\ posts' = posts + 1
    /\ s' = post_interrupt(check_delivered_interrupts(s), q, FALSE)
    /\ UNCHANGED <<ipi, host, snap, g, out, overwritten>>

ConfigureVector(q, allowed) ==
    /\ InGuest /\ pc' = "enter"
    /\ s' = [s EXCEPT !.allowed_irr = IF allowed THEN @ \union {q} ELSE @ \ {q}]
    /\ UNCHANGED <<ipi, host, snap, g, out, posts, failed, overwritten>>

\* Destinations of an ICR: x2APIC logical IDs are a cluster and a bit in it
ALL == 65536
logical_destination_match(dest, id) ==
    dest.cluster = id \div 16 /\ id % 16 \in dest.bits
Physical(id) == [mode |-> "physical", id |-> id, cluster |-> 0, bits |-> {}]
Logical(c, b) == [mode |-> "logical", id |-> 0, cluster |-> c, bits |-> b]
Dests == {Physical(i) : i \in Ids \union {ALL}}
           \union {Logical(c, b) : c \in {i \div 16 : i \in Ids}, b \in {{0}, {0, 1}}}
Shorthands == {"Dest", "OnlySelf", "AllWithSelf", "AllButSelf"}

\* CPUs an ICR selects: the hardware's rule, and the one send_ipi() follows
Selected(short, dest) ==
    CASE short = "OnlySelf" -> {Self}
      [] short = "AllWithSelf" \/ (short = "Dest" /\ dest.id = ALL) -> Ids
      [] short = "AllButSelf" -> Ids \ {Self}
      [] OTHER -> {i \in Ids : IF dest.mode = "logical" THEN logical_destination_match(dest, i)
                                                        ELSE i = dest.id}

\* send_ipi(): posts to the others' PerCpuShared and to itself, and asks the
\* host to notify the others.  A physical destination ignores the type.
send_ipi(short, dest, nmi, q) ==
    LET to == Selected(short, dest)
        asnmi == nmi /\ ~(short = "Dest" /\ dest.mode = "physical" /\ dest.id # ALL)
        hvShort == IF short = "AllWithSelf" THEN "AllButSelf" ELSE short
        u == check_delivered_interrupts(s)
    IN  /\ s' = IF Self \notin to THEN u
                ELSE IF asnmi THEN [u EXCEPT !.nmi_pending = TRUE, !.update_required = TRUE]
                ELSE post_interrupt(u, q, FALSE)
        /\ out' = [posted |-> to \ {Self},
                   notified |-> IF to \ {Self} = {} THEN {} ELSE Selected(hvShort, dest)]

WriteIcr(short, dest, nmi, q) ==
    /\ Call /\ posts < MaxPosts /\ posts' = posts + 1
    /\ send_ipi(short, dest, nmi, q)
    /\ UNCHANGED <<ipi, host, snap, g, overwritten>>

\* REMAP_CA: pending state is cleared before the new calling area, zeroed,
\* replaces the old one.  The guest does not call it with a lazy EOI open.
RemapCa ==
    /\ Call /\ ~s.no_eoi
    /\ s' = [check_delivered_interrupts(s) EXCEPT !.no_eoi = FALSE]
    /\ UNCHANGED <<ipi, host, snap, g, out, posts, overwritten>>

\* disable_apic_emulation(): the host takes over what is pending.
DisableEmulation ==
    LET u == check_delivered_interrupts(s)
        nmi == u.nmi_pending \/ u.event_inj = NMI
        irr == u.irr \union IF host.vector >= 31 /\ ~host.level THEN {host.vector} ELSE {}
    IN  /\ InGuest /\ pc' = "off" /\ failed' = CheckPanics(s)
        /\ s' = [u EXCEPT !.irr = irr, !.nmi_pending = nmi, !.no_eoi = FALSE,
                          !.event_inj = IF @ = NMI THEN 0 ELSE @]
        /\ host' = [host EXCEPT !.multiple = TRUE, !.irr = @ \union irr, !.nmi = @ \/ nmi,
                                !.isr = Range(InService(u))]
        /\ UNCHANGED <<ipi, snap, g, out, posts, overwritten>>

-----------------------------------------------------------------------------
(* Other CPUs and the host.                                                *)

Posting == pc # "off" /\ posts < MaxPosts /\ posts' = posts + 1

\* request_ipi() with its stores in the other order, collected between them
RequestIpiLate(q) ==
    /\ Posting /\ ~ipi.posting
    /\ ipi' = [ipi EXCEPT !.irr = IF q = NMI THEN @ ELSE @ \union {q},
                          !.nmi = @ \/ q = NMI]
    /\ UNCHANGED <<s, host, snap, g, out, pc, failed, overwritten>>

\* request_ipi() and request_nmi(): the request, then the flag
RequestIpi(q) ==
    /\ Posting /\ ~ipi.posting
    /\ ipi' = [ipi EXCEPT !.irr = IF q = NMI THEN @ ELSE @ \union {q},
                          !.nmi = @ \/ q = NMI, !.posting = TRUE]
    /\ UNCHANGED <<s, host, snap, g, out, pc, failed, overwritten>>

SetIpiPending ==
    /\ ipi.posting
    /\ ipi' = [ipi EXCEPT !.pending = TRUE, !.posting = FALSE]
    /\ UNCHANGED <<s, host, snap, g, out, posts, pc, failed, overwritten>>

\* One vector in the vector field; more of them in the IRR.
PostHost(q) ==
    LET moved == IF host.vector # 0 /\ ~host.level THEN {host.vector} ELSE {} IN
    /\ Posting
    /\ q \in HostLevel => ~host.level /\ q \notin s.host_tmr
    /\ host' = IF q \in HostLevel
               THEN [host EXCEPT !.vector = q, !.level = TRUE, !.event = TRUE,
                                 !.irr = @ \union moved, !.multiple = @ \/ moved # {}]
               ELSE IF host.vector = 0 /\ ~host.multiple
               THEN [host EXCEPT !.vector = q, !.event = TRUE]
               ELSE [host EXCEPT !.vector = IF moved # {} THEN 0 ELSE @, !.event = TRUE,
                                 !.irr = @ \union moved \union {q}, !.multiple = TRUE]
    /\ UNCHANGED <<s, ipi, snap, g, out, pc, failed, overwritten>>

-----------------------------------------------------------------------------
Calls ==
    \/ WriteEoi \/ ReadRegister \/ RemapCa \/ DisableEmulation
    \/ \E tpr \in {0, 70} : WriteTpr(tpr)
    \/ \E q \in Vectors : WriteSelfIpi(q)
    \/ \E q \in HostLevel, b \in BOOLEAN : ConfigureVector(q, b)
    \/ \E q \in {Max(Vectors)}, short \in Shorthands, dest \in Dests, nmi \in BOOLEAN :
          (short # "Dest" => dest.id = Self) /\ WriteIcr(short, dest, nmi, q)

Next ==
    \/ TakeHostEvent \/ TakeHostFlags \/ ClearMultiple \/ TakeHostIrr \/ TakeHostSingle
    \/ TakeIpiPending \/ TakeIpis \/ PresentInterrupts
    \/ TakeEvent \/ TakeVirq \/ Intercepted \/ SetOpen \/ LazyEoi \/ GuestExit
    \/ Calls
    \/ \E q \in Vectors \union {NMI} : RequestIpi(q)
    \/ SetIpiPending
    \/ \E q \in Vectors : PostHost(q)

Spec == Init /\ [][Next]_vars

-----------------------------------------------------------------------------
(* Properties.                                                             *)

\* The in-service stack is what the guest is handling, then what it has been
\* given and not yet taken; a lazy EOI the guest has made is still on top.
\* Nothing is lost, served twice or ended for another interrupt, whatever
\* was rewound, and rewind_pending_interrupt() and the lazy EOI find what
\* they assert.  (An NMI that replaced an event is excepted.)
InServiceMatchesGuest ==
    /\ ~failed
    /\ \/ overwritten \/ pc = "off"
       \/ LET ended == s.lazy_eoi_pending /\ ~s.no_eoi
              given == (IF s.event_inj \in Vectors THEN <<s.event_inj>> ELSE <<>>)
                         \o (IF s.v_irq # 0 THEN <<s.v_irq>> ELSE <<>>)
          IN  IF ended
              THEN given = <<>> /\ s.isr_stack_index # 0 /\ Front(InService(s)) = g
              ELSE InService(s) = g \o given

\* While the guest runs, no interrupt of a class above all those in service is
\* left in the IRR, and none at all while the guest may end a handler without
\* a call; an IPI requested and not collected has its flag set or about to be
\* set; what the host presented is flagged; and every CPU to which send_ipi()
\* posts is notified.
NoneLeftBehind ==
    /\ pc = "guest" =>
         /\ class(scan_irr(s)) <= class(Top(s))
         /\ s.no_eoi => s.lazy_eoi_pending /\ s.irr = {}
         /\ (host.irr # {} => host.multiple) /\ (host.irr # {} \/ host.vector # 0 => host.event)
    /\ (ipi.irr # {} \/ ipi.nmi) => ipi.pending \/ ipi.posting \/ pc = "ipi_irr"
    /\ out.posted \subseteq out.notified

\* Classes of in-service interrupts grow towards the top, so that sixteen
\* entries suffice and an EOI always ends the highest.
StackByClass ==
    \A i, j \in 1..s.isr_stack_index : i < j => class(s.isr_stack[i]) < class(s.isr_stack[j])

\* "Determine the priority of the current in-service interrupt, if any"
\* (get_ppr_with_tpr()): the PPR a guest reads is not below the class of an
\* interrupt in service.
PprCoversInService ==
    LET u == check_delivered_interrupts(s) IN
    pc = "guest" => class(get_ppr(u)) >= class(Top(u))
=============================================================================

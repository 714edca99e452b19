----------------------------- MODULE HvDoorbell -----------------------------
(***************************************************************************)
(* Interrupts under SNP restricted injection: the #HV doorbell page        *)
(* (kernel/src/sev/hv_doorbell.rs), the #HV entry code and the IRET path   *)
(* (cpu/idt/svsm_entry.S), and the instruction windows of the idle halt    *)
(* and of the switch to the guest's VMPL (sev/ghcb.rs), on one CPU.        *)
(*                                                                         *)
(* The hypervisor puts a vector into the doorbell page and sets            *)
(* NoFurtherSignal; unless that was set already it injects #HV, which      *)
(* ignores the interrupt flag and arrives before the next instruction.     *)
(* The kernel processes #HV at once when interrupts are enabled and        *)
(* postpones it otherwise.                                                 *)
(*                                                                         *)
(* The CPU's call stack is a sequence of frames, the running one last:     *)
(*   base     a task                                                       *)
(*   exc      an exception, #HV or other, up to its IRET                   *)
(*   enable   raw_irqs_enable(), looking for postponed events              *)
(*   proc     process_pending_events()                                     *)
(*   isr      common_isr_handler()                                         *)
(***************************************************************************)
EXTENDS Integers, Sequences, FiniteSets

CONSTANTS
    Vectors,        \* vectors the hypervisor may post
    Levels          \* TPR levels the task may raise to

VARIABLES
    nfs,        \* NoFurtherSignal flag of the doorbell page
    vector,     \* pending vector in the doorbell page, or 0
    irr,        \* vectors the hypervisor has yet to post
    hv,         \* a #HV is being injected
    intr,       \* the interrupt flag
    tpr,        \* task priority (CR8)
    stack       \* frames, the running one last

vars == <<nfs, vector, irr, hv, intr, tpr, stack>>

\* The vector itself
tpr_unshifted(v) == v

tpr_from_vector(v) == v \div 16

Kinds == {"base", "exc", "enable", "proc", "isr"}
Places ==
    {"run", "work", "locked", "idle_test", "idle_window", "idle_hlt", "halted", "idle_end",
     "vmpl_test", "vmpl_window", "guest", "vmpl_end",
     "entry", "handler", "process", "return", "iret", "check", "resume",
     "clear", "load", "loop", "enter", "body"}

\* if: EFLAGS.IF in an exception frame; tpr, vector: locals
Frame(kind, pc) == [kind |-> kind, pc |-> pc, if |-> FALSE, tpr |-> 0, vector |-> 0]

TypeOK ==
    /\ nfs \in BOOLEAN /\ hv \in BOOLEAN /\ intr \in BOOLEAN
    /\ vector \in Vectors \union {0}
    /\ irr \subseteq Vectors
    /\ tpr \in 0..15
    /\ stack \in Seq([kind : Kinds, pc : Places, if : BOOLEAN, tpr : 0..15,
                      vector : Vectors \union {0}])
    /\ stack # <<>> /\ stack[1].kind = "base"

Init ==
    /\ nfs = FALSE /\ vector = 0 /\ irr = {} /\ hv = FALSE
    /\ intr = TRUE /\ tpr = 0
    /\ stack = <<Frame("base", "run")>>

-----------------------------------------------------------------------------
Top == stack[Len(stack)]
Below == SubSeq(stack, 1, Len(stack) - 1)
At(kind, pc) == ~hv /\ Top.kind = kind /\ Top.pc = pc

Replace(f) == stack' = Append(Below, f)
Goto(pc) == Replace([Top EXCEPT !.pc = pc])
Call(pc, f) == stack' = Append(Append(Below, [Top EXCEPT !.pc = pc]), f)
Return == stack' = Below

-----------------------------------------------------------------------------
(* The hypervisor.                                                         *)

Request(v) ==
    /\ v \notin irr \union {vector}
    /\ irr' = irr \union {v}
    /\ UNCHANGED <<nfs, vector, hv, intr, tpr, stack>>

\* A vector of higher priority takes the place of the one in the page
Post(v) ==
    /\ v \in irr /\ v > vector
    /\ vector' = v
    /\ irr' = (irr \ {v}) \union (IF vector = 0 THEN {} ELSE {vector})
    /\ nfs' = TRUE
    /\ hv' = (hv \/ ~nfs)
    /\ UNCHANGED <<intr, tpr, stack>>

\* The guest exits to the SVSM
GuestExit ==
    /\ At("base", "guest")
    /\ Goto("vmpl_end")
    /\ UNCHANGED <<nfs, vector, irr, hv, intr, tpr>>

-----------------------------------------------------------------------------
(* asm_entry_hv: the #HV exception.  With interrupts enabled it is         *)
(* processed at once, and a CPU at or in its idle HLT resumes behind it.   *)
(* With interrupts disabled it only prevents what would leave the event    *)
(* behind: the window before the halt and the switch to the guest is left  *)
(* at its end, an IRET to code that runs with interrupts enabled is taken  *)
(* over; anywhere else it is postponed.                                    *)

SkipHalt(f) == IF f.pc \in {"idle_hlt", "halted"} THEN [f EXCEPT !.pc = "idle_end"] ELSE f

\* Cancels nothing
NoRedirectRip(f) == IF f.pc = "guest" THEN [f EXCEPT !.pc = "vmpl_end"] ELSE f

\* A #HV that finds the guest running arrives behind the VMGEXIT
RedirectRip(f) ==
    CASE f.pc = "idle_window" -> [f EXCEPT !.pc = "idle_end"]
      [] f.pc = "vmpl_window" -> [f EXCEPT !.pc = "vmpl_end"]
      [] f.pc = "guest"       -> [f EXCEPT !.pc = "vmpl_end"]
      [] OTHER -> f

TakeOverIret(f) == IF f.pc = "iret" /\ f.if THEN [f EXCEPT !.pc = "process"] ELSE f

\* Postpones a #HV that lands on the IRET
HvEntryPostponed ==
    /\ hv
    /\ hv' = FALSE
    /\ IF intr
       THEN /\ intr' = FALSE
            /\ stack' = Append(Append(Below, SkipHalt(Top)),
                               [Frame("exc", "process") EXCEPT !.if = TRUE])
       ELSE /\ Replace(RedirectRip(Top))
            /\ UNCHANGED intr
    /\ UNCHANGED <<nfs, vector, irr, tpr>>

HvEntry ==
    /\ hv
    /\ hv' = FALSE
    /\ IF intr
       THEN /\ intr' = FALSE
            /\ stack' = Append(Append(Below, SkipHalt(Top)),
                               [Frame("exc", "process") EXCEPT !.if = TRUE])
       ELSE /\ Replace(TakeOverIret(RedirectRip(Top)))
            /\ UNCHANGED intr
    /\ UNCHANGED <<nfs, vector, irr, tpr>>

-----------------------------------------------------------------------------
(* The end of an exception: handle_as_hv and default_return.  Events that  *)
(* were postponed while it was handled are processed before the IRET.      *)

\* Any other exception, of a task or of a handler
Fault ==
    /\ At("base", "run") \/ At("base", "work") \/ At("base", "locked") \/ At("isr", "body")
    /\ stack' = Append(stack, [Frame("exc", "entry") EXCEPT !.if = intr])
    /\ intr' = FALSE
    /\ UNCHANGED <<nfs, vector, irr, hv, tpr>>

\* A handler without a stack of its own runs with interrupts as they were
FaultHandler ==
    /\ At("exc", "entry")
    /\ intr' \in {FALSE, Top.if}
    /\ Goto("handler")
    /\ UNCHANGED <<nfs, vector, irr, hv, tpr>>

FaultHandled ==
    /\ At("exc", "handler")
    /\ intr' = FALSE
    /\ Goto("return")
    /\ UNCHANGED <<nfs, vector, irr, hv, tpr>>

handle_as_hv ==
    /\ At("exc", "process")
    /\ Call("return", Frame("proc", "clear"))
    /\ UNCHANGED <<nfs, vector, irr, hv, intr, tpr>>

default_return ==
    /\ At("exc", "return")
    /\ Goto(IF Top.if /\ nfs THEN "process" ELSE "iret")
    /\ UNCHANGED <<nfs, vector, irr, hv, intr, tpr>>

default_iret ==
    /\ At("exc", "iret")
    /\ intr' = Top.if
    /\ Return
    /\ UNCHANGED <<nfs, vector, irr, hv, tpr>>

-----------------------------------------------------------------------------
(* HVDoorbell::process_pending_events, with interrupts disabled: clear     *)
(* NoFurtherSignal, then take vectors of a class above the TPR.            *)

ClearNoFurtherSignal ==
    /\ At("proc", "clear")
    /\ nfs' = FALSE
    /\ Goto("load")
    /\ UNCHANGED <<vector, irr, hv, intr, tpr>>

LoadVector ==
    /\ At("proc", "load")
    /\ Replace([Top EXCEPT !.pc = "loop", !.tpr = tpr, !.vector = vector])
    /\ UNCHANGED <<nfs, vector, irr, hv, intr, tpr>>

\* The compare-exchange either takes the vector or finds that it was replaced
TakeVector ==
    /\ At("proc", "loop")
    /\ tpr_from_vector(Top.vector) > Top.tpr
    /\ IF vector = Top.vector
       THEN /\ vector' = 0
            /\ Call("loop", [Frame("isr", "enter") EXCEPT !.vector = vector])
       ELSE /\ Replace([Top EXCEPT !.vector = vector])
            /\ UNCHANGED vector
    /\ UNCHANGED <<nfs, irr, hv, intr, tpr>>

\* Also clears NoFurtherSignal when it is done
ProcessedThenCleared ==
    /\ At("proc", "loop")
    /\ tpr_from_vector(Top.vector) <= Top.tpr
    /\ nfs' = FALSE
    /\ Return
    /\ UNCHANGED <<vector, irr, hv, intr, tpr>>

Processed ==
    /\ At("proc", "loop")
    /\ tpr_from_vector(Top.vector) <= Top.tpr
    /\ Return
    /\ UNCHANGED <<nfs, vector, irr, hv, intr, tpr>>

-----------------------------------------------------------------------------
(* common_isr_handler(vector): raise the TPR to the vector's class, allow  *)
(* interrupts above it, handle, and restore both.  irqs_enable() is a call *)
(* of raw_irqs_enable(), because dispatch happens at nesting count 0.      *)

\* Without raising the TPR
IsrEnterUnraised ==
    /\ At("isr", "enter")
    /\ intr' = TRUE
    /\ stack' = Append(Append(Below, [Top EXCEPT !.pc = "body", !.tpr = tpr]),
                       Frame("enable", "check"))
    /\ UNCHANGED <<nfs, vector, irr, hv, tpr>>

IsrEnter ==
    /\ At("isr", "enter")
    /\ tpr' = tpr_from_vector(Top.vector)
    /\ intr' = TRUE
    /\ stack' = Append(Append(Below, [Top EXCEPT !.pc = "body", !.tpr = tpr]),
                       Frame("enable", "check"))
    /\ UNCHANGED <<nfs, vector, irr, hv>>

IsrExit ==
    /\ At("isr", "body")
    /\ intr' = FALSE
    /\ tpr' = Top.tpr
    /\ Return
    /\ UNCHANGED <<nfs, vector, irr, hv>>

-----------------------------------------------------------------------------
(* raw_irqs_enable() and HVDoorbell::process_if_required: with interrupts  *)
(* enabled, look for postponed events and process them with interrupts     *)
(* disabled, until none is left.                                           *)

events_to_process == nfs \/ vector >= (tpr + 1) * 16

ProcessRequired ==
    /\ At("enable", "check")
    /\ events_to_process
    /\ intr' = FALSE
    /\ Call("resume", Frame("proc", "clear"))
    /\ UNCHANGED <<nfs, vector, irr, hv, tpr>>

NothingRequired ==
    /\ At("enable", "check")
    /\ ~events_to_process
    /\ Return
    /\ UNCHANGED <<nfs, vector, irr, hv, intr, tpr>>

\* The standard enable routine in place of the bare STI
ResumeByEnable ==
    /\ At("enable", "resume")
    /\ intr' = TRUE
    /\ Call("check", Frame("enable", "check"))
    /\ UNCHANGED <<nfs, vector, irr, hv, tpr>>

\* pop_nesting() and STI
Resume ==
    /\ At("enable", "resume")
    /\ intr' = TRUE
    /\ Goto("check")
    /\ UNCHANGED <<nfs, vector, irr, hv, tpr>>

-----------------------------------------------------------------------------
(* The task.  At "run" a guard was dropped at TPR 0 since the TPR was last *)
(* lowered, as the run-queue guards ensure before a CPU idles or enters    *)
(* the guest; at "work" that may not be so.                                *)

TprGuardRaise(l) ==
    /\ At("base", "run") \/ At("base", "work")
    /\ tpr = 0
    /\ tpr' = l
    /\ Goto("work")
    /\ UNCHANGED <<nfs, vector, irr, hv, intr>>

\* Does not find the level below
TprGuardDropStuck ==
    /\ At("base", "work") /\ tpr # 0
    /\ Goto("work")
    /\ UNCHANGED <<nfs, vector, irr, hv, intr, tpr>>

TprGuardDrop ==
    /\ At("base", "work") /\ tpr # 0
    /\ tpr' = 0
    /\ Goto("work")
    /\ UNCHANGED <<nfs, vector, irr, hv, intr>>

\* IrqGuard::new()
IrqGuardNew ==
    /\ At("base", "run") \/ At("base", "work")
    /\ intr' = FALSE
    /\ Goto("locked")
    /\ UNCHANGED <<nfs, vector, irr, hv, tpr>>

\* IrqGuard::drop(), to nesting count 0
IrqGuardDrop ==
    /\ At("base", "locked") \/ At("base", "idle_end") \/ At("base", "vmpl_end")
    /\ ~intr
    /\ intr' = TRUE
    /\ Call(IF tpr = 0 THEN "run" ELSE "work", Frame("enable", "check"))
    /\ UNCHANGED <<nfs, vector, irr, hv, tpr>>

\* scheduler_idle() with an empty run list: snp_idle_halt
IdleHalt ==
    /\ At("base", "run")
    /\ intr' = FALSE
    /\ Goto("idle_test")
    /\ UNCHANGED <<nfs, vector, irr, hv, tpr>>

IdleTest ==
    /\ At("base", "idle_test")
    /\ Goto(IF nfs THEN "idle_end" ELSE "idle_window")
    /\ UNCHANGED <<nfs, vector, irr, hv, intr, tpr>>

IdleSti ==
    /\ At("base", "idle_window")
    /\ intr' = TRUE
    /\ Goto("idle_hlt")
    /\ UNCHANGED <<nfs, vector, irr, hv, tpr>>

IdleHlt ==
    /\ At("base", "idle_hlt")
    /\ Goto("halted")
    /\ UNCHANGED <<nfs, vector, irr, hv, intr, tpr>>

\* CLI behind the HLT, and the return to scheduler_idle()
IdleCli ==
    /\ At("base", "idle_end") /\ intr
    /\ intr' = FALSE
    /\ UNCHANGED <<nfs, vector, irr, hv, tpr, stack>>

\* enter_guest: switch_to_vmpl_unsafe
SwitchToVmpl ==
    /\ At("base", "run")
    /\ intr' = FALSE
    /\ Goto("vmpl_test")
    /\ UNCHANGED <<nfs, vector, irr, hv, tpr>>

VmplTest ==
    /\ At("base", "vmpl_test")
    /\ Goto(IF nfs THEN "vmpl_end" ELSE "vmpl_window")
    /\ UNCHANGED <<nfs, vector, irr, hv, intr, tpr>>

Vmgexit ==
    /\ At("base", "vmpl_window")
    /\ Goto("guest")
    /\ UNCHANGED <<nfs, vector, irr, hv, intr, tpr>>

-----------------------------------------------------------------------------
Hypervisor == \E v \in Vectors : Request(v) \/ Post(v)

\* Steps the kernel takes once it is in an exception, a handler or a window
KernelStep ==
    \/ HvEntry
    \/ FaultHandler \/ FaultHandled \/ handle_as_hv \/ default_return \/ default_iret
    \/ ClearNoFurtherSignal \/ LoadVector \/ TakeVector \/ Processed
    \/ IsrEnter \/ IsrExit
    \/ ProcessRequired \/ NothingRequired \/ Resume
    \/ IdleTest \/ IdleSti \/ IdleHlt \/ IdleCli \/ VmplTest \/ Vmgexit

TaskStep ==
    \/ Fault \/ IrqGuardNew \/ IrqGuardDrop \/ TprGuardDrop
    \/ \E l \in Levels : TprGuardRaise(l)
    \/ IdleHalt \/ SwitchToVmpl

Next == Hypervisor \/ GuestExit \/ KernelStep \/ TaskStep

(***************************************************************************)
(* The CPU keeps executing; a handler faults finitely often before it      *)
(* returns; a task drops the guards it takes and comes through the run     *)
(* queue, at TPR 0, again and again.                                       *)
(***************************************************************************)
Fairness ==
    /\ WF_vars(KernelStep)
    /\ SF_vars(IsrExit)
    /\ SF_vars(IrqGuardDrop) /\ SF_vars(TprGuardDrop)
    /\ SF_vars(tpr = 0 /\ IrqGuardNew)

Spec == Init /\ [][Next]_vars /\ Fairness

-----------------------------------------------------------------------------
(* Properties.                                                             *)

Actionable == nfs \/ tpr_from_vector(vector) > tpr

(***************************************************************************)
(* A CPU never halts, and never runs the guest, on top of an event it      *)
(* could handle: the checks in front of HLT and VMGEXIT, the redirection   *)
(* of a #HV that lands behind them and the events taken when interrupts    *)
(* are enabled leave no gap.                                               *)
(***************************************************************************)
NoSleepOnEvent ==
    Top.kind = "base" /\ Top.pc \in {"halted", "guest"} /\ Actionable => hv

(***************************************************************************)
(* No postponed #HV is lost on the way back to code that runs with         *)
(* interrupts enabled: when a task or a handler body runs there while      *)
(* NoFurtherSignal suppresses the next #HV, that #HV is on its way.  A     *)
(* task that dropped a guard at TPR 0, and a handler body, have no vector  *)
(* above their TPR waiting in the page either.                             *)
(***************************************************************************)
NoLostSignal ==
    /\ intr /\ nfs /\ (Top.kind = "base" \/ Top.pc = "body") => hv
    /\ Actionable /\ Top.pc \in {"run", "body"} => hv

(***************************************************************************)
(* Handlers nest by priority: common_isr_handler() is only ever entered    *)
(* for a class above that of every handler it interrupts, and the TPR is   *)
(* that of the innermost handler whose body runs.                          *)
(***************************************************************************)
IsrFrames == {i \in 1..Len(stack) : stack[i].kind = "isr"}

HandlersNest ==
    /\ \A i, j \in IsrFrames :
          i < j => tpr_from_vector(stack[i].vector) < tpr_from_vector(stack[j].vector)
    /\ \A i \in IsrFrames :
          (\A j \in IsrFrames : j <= i) /\ stack[i].pc = "body"
             => tpr = tpr_from_vector(stack[i].vector)

(***************************************************************************)
(* The stack is bounded by the number of priority classes, however long    *)
(* the hypervisor keeps posting: process_if_required() loops instead of    *)
(* recursing, so each handler adds one enable loop and one processing      *)
(* loop.                                                                   *)
(***************************************************************************)
BoundedNesting ==
    \A k \in {"enable", "proc"} :
        Cardinality({i \in 1..Len(stack) : stack[i].kind = k}) <= Cardinality(IsrFrames) + 1

(***************************************************************************)
(* A vector in the doorbell page is eventually taken, or replaced by one   *)
(* of higher priority: not even one that the TPR held back when its #HV    *)
(* was processed stays there, although lower_tpr() does not look.          *)
(***************************************************************************)
EventTaken == \A v \in Vectors : (vector = v) ~> (vector # v)
=============================================================================

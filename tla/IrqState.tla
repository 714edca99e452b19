------------------------------ MODULE IrqState ------------------------------
(***************************************************************************)
(* Interrupt masking on one CPU: the per-CPU IrqState with its nesting     *)
(* counts (kernel/src/cpu/irq_state.rs), the IrqGuard and TprGuard made    *)
(* from it, and the common interrupt handler (cpu/idt/svsm.rs) that uses   *)
(* the same counts while interrupts nest.                                  *)
(*                                                                         *)
(* The stack holds the interrupted contexts: a task at the bottom, above   *)
(* it the handlers.  Only the top of the stack runs.  A step that leaves   *)
(* interrupts disabled throughout is one action; everything an interrupt   *)
(* can separate is split.  The APIC's pending vectors are external, and so  *)
(* is its rule that a vector in service blocks those of its class; the     *)
(* rule is left out, since with restricted injection TPR alone orders the  *)
(* handlers.                                                               *)
(***************************************************************************)
EXTENDS Integers, SequencesExt

CONSTANTS
    Vectors,        \* interrupt vectors the APIC may raise
    Levels,         \* TPR levels that tasks raise with a TprGuard
    HandlerLevels,  \* TPR levels that interrupt handlers raise with a TprGuard
    MaxGuards       \* guards one context holds at once

TPR_LIMIT == 16
IPI_VECTOR == 224   \* 0xE0, the one vector that has a handler

\* The priority class of a vector
tpr_from_vector(vector) == vector \div 16

ASSUME VectorsAssumption == Vectors \subseteq 16..255
ASSUME LevelsAssumption == Levels \union HandlerLevels \subseteq 1..(TPR_LIMIT - 1)

VARIABLES
    intr,       \* RFLAGS.IF
    tpr,        \* CR8
    state,      \* IrqState::state, the value of IF when counts[0] was 0
    counts,     \* IrqState::counts
    stack,      \* the interrupted contexts and, last, the running one
    irr         \* vectors pending in the APIC

vars == <<intr, tpr, state, counts, stack, irr>>

Task == 0       \* the "vector" of the task at the bottom of the stack

Class(v) == IF v = Task THEN 0 ELSE tpr_from_vector(v)

Frame(v, prev) ==
    [vector |-> v, pc |-> IF v = Task THEN "run" ELSE "entry",
     prev |-> prev,         \* previous_tpr of common_isr_handler()
     was |-> FALSE,         \* irqs_enabled() as seen by disable()
     level |-> 0,           \* argument of the raise or lower in progress
     lower |-> FALSE,       \* lower_tpr() found that TPR must be recomputed
     irqGuards |-> 0, tprGuards |-> <<>>]

Frames ==
    [vector : Vectors \union {Task},
     pc : {"run", "entry", "disable", "exit", "raise", "lower"},
     prev : 0..(TPR_LIMIT - 1), was : BOOLEAN, level : 0..(TPR_LIMIT - 1),
     lower : BOOLEAN, irqGuards : 0..MaxGuards, tprGuards : Seq(1..(TPR_LIMIT - 1))]

TypeOK ==
    /\ intr \in BOOLEAN /\ state \in BOOLEAN
    /\ tpr \in 0..(TPR_LIMIT - 1)
    /\ counts \in [0..(TPR_LIMIT - 1) -> Nat]
    /\ stack \in Seq(Frames) /\ stack # <<>>
    /\ irr \subseteq Vectors

Init ==
    /\ intr = TRUE /\ state = FALSE
    /\ tpr = 0
    /\ counts = [l \in 0..(TPR_LIMIT - 1) |-> 0]
    /\ stack = <<Frame(Task, 0)>>
    /\ irr = {}

Top == stack[Len(stack)]
Running(l) == Top.pc = l

\* The running context continues as frame f
Become(f) == stack' = [stack EXCEPT ![Len(stack)] = f]

\* Code that may take guards runs: the task or the handler of IPI_VECTOR
Acting == Running("run") /\ Top.vector \in {Task, IPI_VECTOR}

Held == Top.irqGuards + Len(Top.tprGuards)

\* The counts and the saved state after push_nesting(was_enabled)
PushNesting(was_enabled) ==
    /\ counts' = [counts EXCEPT ![0] = @ + 1]
    /\ state' = IF counts[0] = 0 THEN was_enabled ELSE state

-----------------------------------------------------------------------------
\* disable(): irqs_enabled() is read before the cli
Disable ==
    /\ Acting /\ Held < MaxGuards
    /\ Become([Top EXCEPT !.pc = "disable", !.was = intr])
    /\ UNCHANGED <<intr, tpr, state, counts, irr>>

DisableLate ==
    /\ Running("disable")
    /\ PushNesting(Top.was)
    /\ Become([Top EXCEPT !.pc = "run", !.irqGuards = @ + 1])
    /\ UNCHANGED <<intr, tpr, irr>>

\* disable(): cli and push_nesting(); the caller has an IrqGuard
DisableDone ==
    /\ Running("disable")
    /\ intr' = FALSE
    /\ PushNesting(Top.was)
    /\ Become([Top EXCEPT !.pc = "run", !.irqGuards = @ + 1])
    /\ UNCHANGED <<tpr, irr>>

EnableNever ==
    /\ Running("run") /\ Top.irqGuards > 0
    /\ counts' = [counts EXCEPT ![0] = @ - 1]
    /\ Become([Top EXCEPT !.irqGuards = @ - 1])
    /\ UNCHANGED <<intr, tpr, state, irr>>

\* Drop of an IrqGuard, enable(): pop_nesting(), and IF restored at zero
Enable ==
    /\ Running("run") /\ Top.irqGuards > 0
    /\ counts' = [counts EXCEPT ![0] = @ - 1]
    /\ intr' = (counts[0] = 1 /\ state)
    /\ Become([Top EXCEPT !.irqGuards = @ - 1])
    /\ UNCHANGED <<tpr, state, irr>>

\* raise_tpr(): the assertion and the write of CR8
RaiseTpr ==
    /\ Acting /\ Held < MaxGuards
    /\ \E l \in IF Top.vector = Task THEN Levels ELSE HandlerLevels :
          /\ l >= tpr
          /\ tpr' = l
          /\ Become([Top EXCEPT !.pc = "raise", !.level = l])
    /\ UNCHANGED <<intr, state, counts, irr>>

RaiseTprStore ==
    /\ Running("raise")
    /\ counts' = [counts EXCEPT ![Top.level] = 1]
    /\ Become([Top EXCEPT !.pc = "run", !.level = 0,
                          !.tprGuards = Append(@, Top.level)])
    /\ UNCHANGED <<intr, tpr, state, irr>>

\* raise_tpr(): the count of requests for the level
RaiseTprDone ==
    /\ Running("raise")
    /\ counts' = [counts EXCEPT ![Top.level] = @ + 1]
    /\ Become([Top EXCEPT !.pc = "run", !.level = 0,
                          !.tprGuards = Append(@, Top.level)])
    /\ UNCHANGED <<intr, tpr, state, irr>>

\* Drop of a TprGuard, in any order, lower_tpr(): CR8 is read and the count
\* decremented
LowerTpr ==
    /\ Running("run")
    /\ \E i \in 1..Len(Top.tprGuards) :
          LET l == Top.tprGuards[i] IN
          /\ counts' = [counts EXCEPT ![l] = @ - 1]
          /\ Become([Top EXCEPT !.pc = "lower", !.level = l,
                                !.lower = (counts[l] = 1 /\ l >= tpr),
                                !.tprGuards = RemoveAt(@, i)])
    /\ UNCHANGED <<intr, tpr, state, irr>>

LowerTprToZero ==
    /\ Running("lower")
    /\ tpr' = IF Top.lower THEN 0 ELSE tpr
    /\ Become([Top EXCEPT !.pc = "run", !.level = 0, !.lower = FALSE])
    /\ UNCHANGED <<intr, state, counts, irr>>

\* lower_tpr(): the highest level below that is still requested
LowerTprDone ==
    /\ Running("lower")
    /\ tpr' = IF Top.lower
              THEN Max({0} \union {l \in 0..(Top.level - 1) : counts[l] # 0})
              ELSE tpr
    /\ Become([Top EXCEPT !.pc = "run", !.level = 0, !.lower = FALSE])
    /\ UNCHANGED <<intr, state, counts, irr>>

-----------------------------------------------------------------------------
\* A device or another CPU raises a vector
Request(v) ==
    /\ v \notin irr
    /\ irr' = irr \union {v}
    /\ UNCHANGED <<intr, tpr, state, counts, stack>>

\* What the APIC and the CPU require of a vector to deliver it
Deliverable(v) ==
    /\ v \in irr
    /\ intr
    /\ tpr_from_vector(v) > tpr
    /\ \A u \in irr : tpr_from_vector(v) >= tpr_from_vector(u)

Interrupt(v) ==
    /\ Deliverable(v)
    /\ irr' = irr \ {v}
    /\ intr' = FALSE
    /\ stack' = Append(stack, Frame(v, 0))
    /\ UNCHANGED <<tpr, state, counts>>

\* common_isr_handler_entry() and common_isr_handler() up to the dispatch:
\* push_nesting(true), TPR of the vector, irqs_enable()
IsrEntry ==
    /\ Running("entry")
    /\ tpr' = tpr_from_vector(Top.vector)
    /\ state' = IF counts[0] = 0 THEN TRUE ELSE state
    /\ intr' = (counts[0] = 0)
    /\ Become([Top EXCEPT !.pc = "run", !.prev = tpr])
    /\ UNCHANGED <<counts, irr>>

\* The handler of the vector returns; irqs_disable() reads IF
IsrExit ==
    /\ Running("run") /\ Top.vector # Task
    /\ Held = 0
    /\ Become([Top EXCEPT !.pc = "exit", !.was = intr])
    /\ UNCHANGED <<intr, tpr, state, counts, irr>>

IsrReturnPopsTwice ==
    /\ Running("exit")
    /\ state' = IF counts[0] = 0 THEN Top.was ELSE state
    /\ counts' = [counts EXCEPT ![0] = @ - 1]
    /\ tpr' = Top.prev
    /\ intr' = TRUE
    /\ stack' = Front(stack)
    /\ UNCHANGED irr

\* cli, push_nesting(), TPR restored, EOI, pop_nesting(), and the IRET, which
\* restores the IF that was set when the interrupt came
IsrReturn ==
    /\ Running("exit")
    /\ state' = IF counts[0] = 0 THEN Top.was ELSE state
    /\ tpr' = Top.prev
    /\ intr' = TRUE
    /\ stack' = Front(stack)
    /\ UNCHANGED <<counts, irr>>

Step ==
    \/ DisableDone \/ Enable
    \/ RaiseTprDone \/ LowerTpr \/ LowerTprDone
    \/ IsrEntry \/ IsrExit \/ IsrReturn

Next ==
    \/ Disable \/ RaiseTpr
    \/ Step
    \/ \E v \in Vectors : Request(v) \/ Interrupt(v)

Unguarded == \A i \in 1..Len(stack) : stack[i].irqGuards = 0 /\ stack[i].tprGuards = <<>>

\* Contexts keep running, handlers return and the scopes of guards end; a
\* deliverable interrupt is taken at the next instruction boundary.
Fairness ==
    /\ WF_vars(Step)
    /\ []<>Unguarded
    /\ SF_vars(IsrExit)
    /\ \A v \in Vectors : SF_vars(Interrupt(v))

Spec == Init /\ [][Next]_vars /\ Fairness

-----------------------------------------------------------------------------
\* No interrupt is taken while an IrqGuard is held, and none at or below the
\* level of a TprGuard ("ensuring that no interrupt can be taken while the lock
\* is held", locking/common.rs): below a handler no context holds such a guard.
GuardsRespected ==
    \A i \in 1..Len(stack) : \A j \in (i + 1)..Len(stack) :
        /\ stack[i].irqGuards = 0
        /\ \A l \in Range(stack[i].tprGuards) : l < Class(stack[j].vector)

\* The nesting counts are the number of guards that will still be dropped,
\* whatever interrupts nest between the steps of raising and lowering.
CountsExact ==
    /\ counts[0] = MapThenSumSet(LAMBDA i : stack[i].irqGuards, 1..Len(stack))
    /\ \A l \in 1..(TPR_LIMIT - 1) :
          counts[l] = MapThenSumSet(
              LAMBDA i : Cardinality({k \in DOMAIN stack[i].tprGuards : stack[i].tprGuards[k] = l}),
              1..Len(stack))

\* TPR levels that the contexts on the stack still need: those of their guards
\* and the class of each interrupt being handled.
ActiveLevels ==
    UNION {Range(stack[i].tprGuards) \union {Class(stack[i].vector)} : i \in 1..Len(stack)}

\* "When the guard goes out of scope, TPR is lowered to the highest active TPR"
\* (TprGuard): between guard operations TPR is the highest level still needed.
TprIsHighestActive == Running("run") => tpr = Max(ActiveLevels)

\* An interrupt that is not outranked is handled once guards are dropped: no
\* path leaves interrupts disabled or TPR raised for ever.
Delivered ==
    \A v \in Vectors :
        (\A u \in Vectors : Class(u) <= Class(v)) => (v \in irr ~> v \notin irr)
=============================================================================

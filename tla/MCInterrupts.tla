---------------------------- MODULE MCInterrupts ----------------------------
(***************************************************************************)
(* One run for the two models of interrupts on one CPU: IrqState with an   *)
(* APIC that delivers directly, and HvDoorbell with a hypervisor that      *)
(* signals through the doorbell page.  A behaviour is one of either model; *)
(* the variables of the other stay as they are.                            *)
(***************************************************************************)
EXTENDS IrqState

CONSTANTS HvVectors, HvLevels

VARIABLES part, nfs, vector, hvIrr, hv, hvIntr, hvTpr, hvStack

H == INSTANCE HvDoorbell
        WITH Vectors <- HvVectors, Levels <- HvLevels,
             irr <- hvIrr, intr <- hvIntr, tpr <- hvTpr, stack <- hvStack

hvVars == <<nfs, vector, hvIrr, hv, hvIntr, hvTpr, hvStack>>
allVars == <<part, vars, hvVars>>

INT_INJ_VECTOR == 80        \* 0x50
TPR_LOCK == 2
TPR_SYNCH == 13
TPR_IPI == 14
LOCK_VECTOR == 47           \* 0x2F, the highest vector of class TPR_LOCK

MCVectors == {LOCK_VECTOR, INT_INJ_VECTOR, IPI_VECTOR}
MCLevels == {TPR_LOCK, TPR_SYNCH}
MCHvVectors == {INT_INJ_VECTOR, IPI_VECTOR}
MCHvLevels == {TPR_SYNCH, TPR_IPI}

MCInit == part \in {"irq", "hv"} /\ Init /\ H!Init

MCNext ==
    \/ part = "irq" /\ Next /\ UNCHANGED <<part, hvVars>>
    \/ part = "hv" /\ H!Next /\ UNCHANGED <<part, vars>>

MCSpec ==
    /\ MCInit /\ [][MCNext]_allVars
    /\ part = "irq" => Fairness
    /\ part = "hv" => H!Fairness

\* The nesting counts are exact, and TPR is the highest level raised.
CountsAndTpr == CountsExact /\ TprIsHighestActive

\* A CPU that has seen no event has none to see, and handlers nest as the
\* priorities of their vectors allow.
NoMissedEvent == H!NoSleepOnEvent /\ H!NoLostSignal /\ H!HandlersNest /\ H!BoundedNesting

\* Every interrupt is delivered, by the APIC or through the doorbell page.
Delivery == Delivered /\ H!EventTaken
=============================================================================

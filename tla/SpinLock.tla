------------------------------ MODULE SpinLock ------------------------------
(***************************************************************************)
(* The ticket lock of kernel/src/locking/spinlock.rs (RawSpinLock).        *)
(*                                                                         *)
(* Every shared-memory access is one step.  `current` hands out tickets,   *)
(* `holder` is the ticket being served.  lock() draws a ticket and spins;  *)
(* try_lock() loads both counters, one after the other, and only draws a   *)
(* ticket, by compare-exchange, if they were equal.  The interrupt guard   *)
(* taken by I::acquire_lock() is the subject of module IrqState.           *)
(***************************************************************************)
EXTENDS Naturals, FiniteSets

CONSTANTS
    Threads,    \* execution contexts that use the lock
    NoThread,   \* not a thread
    MaxTicket   \* end of the range of the AtomicU64 counters (2^64 in the code)

ASSUME TicketAssumption == MaxTicket \in Nat

ASSUME NoThreadAssumption == NoThread \notin Threads

VARIABLES
    current,    \* next ticket to hand out
    holder,     \* ticket being served
    pc,         \* where each thread is in lock()/try_lock()/drop()
    ticket,     \* the ticket a thread has drawn
    seen        \* the value of `current` loaded by try_lock()

vars == <<current, holder, pc, ticket, seen>>

PCs == {"idle", "spin", "tryHolder", "tryCas", "locked"}

TypeOK ==
    /\ current \in 0..MaxTicket
    /\ holder \in 0..MaxTicket
    /\ pc \in [Threads -> PCs]
    /\ ticket \in [Threads -> 0..MaxTicket]
    /\ seen \in [Threads -> 0..MaxTicket]

Init ==
    /\ current = 0
    /\ holder = 0
    /\ pc = [t \in Threads |-> "idle"]
    /\ ticket = [t \in Threads |-> 0]
    /\ seen = [t \in Threads |-> 0]

Goto(t, l) == pc' = [pc EXCEPT ![t] = l]

\* lock(): ticket = current.fetch_add(1)
DrawTicket(t) ==
    /\ pc[t] = "idle"
    /\ current < MaxTicket
    /\ ticket' = [ticket EXCEPT ![t] = current]
    /\ current' = current + 1
    /\ Goto(t, "spin")
    /\ UNCHANGED <<holder, seen>>

AcquireUnordered(t) ==
    /\ pc[t] = "spin"
    /\ holder <= ticket[t]
    /\ \A u \in Threads : pc[u] # "locked"
    /\ Goto(t, "locked")
    /\ UNCHANGED <<current, holder, ticket, seen>>

\* lock(): the load of `holder` that ends the spin loop
Acquire(t) ==
    /\ pc[t] = "spin"
    /\ holder = ticket[t]
    /\ Goto(t, "locked")
    /\ UNCHANGED <<current, holder, ticket, seen>>

TryLoadCurrentWide(t) ==
    /\ pc[t] = "idle"
    /\ seen' = [seen EXCEPT ![t] = current + 1]
    /\ Goto(t, "tryHolder")
    /\ UNCHANGED <<current, holder, ticket>>

\* try_lock(): current.load()
TryLoadCurrent(t) ==
    /\ pc[t] = "idle"
    /\ current < MaxTicket
    /\ seen' = [seen EXCEPT ![t] = current]
    /\ Goto(t, "tryHolder")
    /\ UNCHANGED <<current, holder, ticket>>

\* try_lock(): holder.load() and the comparison; None if the lock is taken
TryLoadHolder(t) ==
    /\ pc[t] = "tryHolder"
    /\ Goto(t, IF seen[t] = holder THEN "tryCas" ELSE "idle")
    /\ UNCHANGED <<current, holder, ticket, seen>>

TryCasBlind(t) ==
    /\ pc[t] = "tryCas"
    /\ current' = seen[t] + 1
    /\ ticket' = [ticket EXCEPT ![t] = seen[t]]
    /\ Goto(t, "locked")
    /\ UNCHANGED <<holder, seen>>

\* try_lock(): current.compare_exchange(seen, seen + 1); None if it fails
TryCas(t) ==
    /\ pc[t] = "tryCas"
    /\ IF current = seen[t]
       THEN /\ current' = seen[t] + 1
            /\ ticket' = [ticket EXCEPT ![t] = seen[t]]
            /\ Goto(t, "locked")
       ELSE /\ Goto(t, "idle")
            /\ UNCHANGED <<current, ticket>>
    /\ UNCHANGED <<holder, seen>>

ReleaseAll(t) ==
    /\ pc[t] = "locked"
    /\ holder' = current
    /\ Goto(t, "idle")
    /\ UNCHANGED <<current, ticket, seen>>

\* Drop of the guard: holder.fetch_add(1)
Release(t) ==
    /\ pc[t] = "locked"
    /\ holder' = holder + 1
    /\ Goto(t, "idle")
    /\ UNCHANGED <<current, ticket, seen>>

Next ==
    \E t \in Threads :
        \/ DrawTicket(t) \/ Acquire(t)
        \/ TryLoadCurrent(t) \/ TryLoadHolder(t) \/ TryCas(t)
        \/ Release(t)

\* A thread that is inside lock(), try_lock() or its critical section keeps
\* running; nothing makes a thread start an acquisition.
Fairness ==
    \A t \in Threads :
        WF_vars(Acquire(t) \/ TryLoadHolder(t) \/ TryCas(t) \/ Release(t))

Spec == Init /\ [][Next]_vars /\ Fairness

-----------------------------------------------------------------------------
\* Threads that hold a ticket that has not been released.
Queued == {t \in Threads : pc[t] \in {"spin", "locked"}}

\* The guard gives exclusive access to the protected data (the SAFETY comments
\* of lock() and try_lock()): two guards never exist at once, whichever mix of
\* lock() and try_lock() the threads use.
MutualExclusion ==
    \A t, u \in Threads : pc[t] = "locked" /\ pc[u] = "locked" => t = u

\* The tickets between `holder` and `current` are exactly the ones drawn and
\* not released, each by one thread: no ticket is lost, which would stop the
\* lock forever, and none is handed out twice.
TicketsAccounted ==
    /\ \A t, u \in Queued : ticket[t] = ticket[u] => t = u
    /\ {ticket[t] : t \in Queued} = holder .. (current - 1)
    /\ \A t \in Threads : pc[t] = "locked" => ticket[t] = holder

\* First come, first served: a thread never enters while one that drew its
\* ticket earlier is still waiting.
FifoStep ==
    \A t, u \in Threads :
        (pc[u] = "spin" /\ pc'[u] = "spin" /\ pc[t] # "locked" /\ pc'[t] = "locked")
            => ticket'[t] < ticket'[u]
Fifo == [][FifoStep]_vars

-----------------------------------------------------------------------------
Spinning == {t \in Threads : pc[t] = "spin"}
Locked == {t \in Threads : pc[t] = "locked"}

\* The waiting threads in the order of their tickets.
WaitQueue ==
    [i \in 1..Cardinality(Spinning) |->
        CHOOSE t \in Spinning :
            Cardinality({u \in Spinning : ticket[u] < ticket[t]}) = i - 1]

Abstract ==
    INSTANCE FifoLock WITH
        owner <- IF Locked = {} THEN NoThread ELSE CHOOSE t \in Locked : TRUE,
        waiting <- WaitQueue

\* RawSpinLock is a fair FIFO lock: drawing a ticket is joining the queue, and
\* try_lock() takes effect, if at all, when the queue is empty.
ImplementsFifoLock == Abstract!Spec
=============================================================================

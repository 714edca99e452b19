--------------------------- MODULE SpinLock_proofs ---------------------------
(***************************************************************************)
(* Exclusion and ticket accounting of the ticket lock, for any number of   *)
(* threads and any range of the counters.                                  *)
(*                                                                         *)
(* MutualExclusion is not inductive: what makes it so is that the tickets  *)
(* outstanding are distinct and fill [holder, current), and that a ticket  *)
(* number remembered by try_lock() is never ahead of `holder` once it has  *)
(* been compared with it.  A successful compare-exchange then finds        *)
(* holder = current, so nobody is queued.                                  *)
(***************************************************************************)
EXTENDS SpinLock, TLAPS

\* The outstanding tickets, stated without sets of values.
Tickets ==
    /\ holder <= current
    /\ \A t \in Queued : holder <= ticket[t] /\ ticket[t] < current
    /\ \A t, u \in Queued : ticket[t] = ticket[u] => t = u
    /\ \A k \in holder .. (current - 1) : \E t \in Queued : ticket[t] = k
    /\ \A t \in Threads : pc[t] = "locked" => ticket[t] = holder
    /\ \A t \in Threads : pc[t] = "tryCas" => seen[t] <= holder

\* try_lock() only remembers counter values below the end of the range.
SeenBound ==
    \A t \in Threads : pc[t] \in {"tryHolder", "tryCas"} => seen[t] < MaxTicket

IInv == TypeOK /\ Tickets /\ SeenBound

\* A new lock has no outstanding ticket.
LEMMA InitIInv == Init => IInv
  BY TicketAssumption DEF Init, IInv, TypeOK, Tickets, SeenBound, Queued, PCs

\* Every atomic access of lock(), try_lock() and drop() keeps the tickets in
\* order.
LEMMA NextIInv == IInv /\ [Next]_vars => IInv'
<1> SUFFICES ASSUME IInv, [Next]_vars PROVE IInv'
  OBVIOUS
<1> USE TicketAssumption DEF IInv, TypeOK, Tickets, SeenBound, Queued, PCs, Goto
<1>1. ASSUME NEW t \in Threads, DrawTicket(t) PROVE IInv'
  BY <1>1 DEF DrawTicket
<1>2. ASSUME NEW t \in Threads, Acquire(t) PROVE IInv'
  BY <1>2 DEF Acquire
<1>3. ASSUME NEW t \in Threads, TryLoadCurrent(t) PROVE IInv'
  BY <1>3 DEF TryLoadCurrent
<1>4. ASSUME NEW t \in Threads, TryLoadHolder(t) PROVE IInv'
  BY <1>4 DEF TryLoadHolder
<1>5. ASSUME NEW t \in Threads, TryCas(t) PROVE IInv'
  BY <1>5 DEF TryCas
<1>6. ASSUME NEW t \in Threads, Release(t) PROVE IInv'
  BY <1>6 DEF Release
<1>7. CASE UNCHANGED vars
  BY <1>7 DEF vars
<1> QED
  BY <1>1, <1>2, <1>3, <1>4, <1>5, <1>6, <1>7 DEF Next

\* The inductive invariant holds of every reachable state of the lock.
LEMMA SpecIInv == Spec => []IInv
  BY InitIInv, NextIInv, PTL DEF Spec

\* The counters of the lock stay in range.
THEOREM TypeCorrect == Spec => []TypeOK
<1>1. IInv => TypeOK
  BY DEF IInv
<1> QED
  BY <1>1, SpecIInv, PTL

\* At most one guard of a RawSpinLock exists at any time.
THEOREM Exclusion == Spec => []MutualExclusion
<1>1. IInv => MutualExclusion
  BY DEF IInv, Tickets, Queued, MutualExclusion
<1> QED
  BY <1>1, SpecIInv, PTL

\* No ticket is lost or handed out twice by fetch_add, compare_exchange and
\* drop().
THEOREM Accounting == Spec => []TicketsAccounted
<1>1. IInv => TicketsAccounted
  <2> SUFFICES ASSUME IInv PROVE TicketsAccounted
    OBVIOUS
  <2>1. {ticket[t] : t \in Queued} = holder .. (current - 1)
    BY DEF IInv, TypeOK, Tickets, Queued
  <2> QED
    BY <2>1 DEF IInv, Tickets, TicketsAccounted
<1> QED
  BY <1>1, SpecIInv, PTL

\* Neither lock() nor try_lock() overtakes a thread that drew its ticket before.
THEOREM FirstComeFirstServed == Spec => Fifo
<1>1. IInv /\ [Next]_vars => [FifoStep]_vars
  <2> SUFFICES ASSUME IInv, Next, NEW t \in Threads, NEW u \in Threads,
                      pc[u] = "spin", pc'[u] = "spin",
                      pc[t] # "locked", pc'[t] = "locked"
               PROVE  ticket'[t] < ticket'[u]
    BY DEF FifoStep, vars
  <2> USE DEF IInv, TypeOK, Tickets, Queued, Goto
  <2>1. PICK s \in Threads : \/ DrawTicket(s) \/ Acquire(s)
                             \/ TryLoadCurrent(s) \/ TryLoadHolder(s)
                             \/ TryCas(s) \/ Release(s)
    BY DEF Next
  <2>2. CASE Acquire(s)
    BY <2>2 DEF Acquire
  <2>3. CASE TryCas(s)
    BY <2>3 DEF TryCas
  <2>4. CASE DrawTicket(s) \/ TryLoadCurrent(s) \/ TryLoadHolder(s) \/ Release(s)
    BY <2>4 DEF DrawTicket, TryLoadCurrent, TryLoadHolder, Release
  <2> QED
    BY <2>1, <2>2, <2>3, <2>4
<1> QED
  BY <1>1, SpecIInv, PTL DEF Spec, Fifo
=============================================================================

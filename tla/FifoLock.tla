------------------------------ MODULE FifoLock ------------------------------
(***************************************************************************)
(* What a fair blocking lock promises its callers: one owner at a time,    *)
(* waiters served in the order in which they asked, and an attempt that    *)
(* does not wait, which succeeds only if nobody owns or awaits the lock.   *)
(***************************************************************************)
EXTENDS Naturals, Sequences

CONSTANTS Threads, NoThread

VARIABLES
    owner,      \* the thread inside the critical section, or NoThread
    waiting     \* the threads that wait, in order of arrival

vars == <<owner, waiting>>

Init == owner = NoThread /\ waiting = <<>>

Waits(t) == \E i \in 1..Len(waiting) : waiting[i] = t

Enqueue(t) ==
    /\ owner # t /\ ~Waits(t)
    /\ waiting' = Append(waiting, t)
    /\ UNCHANGED owner

Grant ==
    /\ owner = NoThread
    /\ waiting # <<>>
    /\ owner' = Head(waiting)
    /\ waiting' = Tail(waiting)

GrantIdle(t) ==
    /\ owner = NoThread
    /\ waiting = <<>>
    /\ owner' = t
    /\ UNCHANGED waiting

Leave ==
    /\ owner # NoThread
    /\ owner' = NoThread
    /\ UNCHANGED waiting

Next ==
    \/ \E t \in Threads : Enqueue(t) \/ GrantIdle(t)
    \/ Grant
    \/ Leave

Spec == Init /\ [][Next]_vars /\ WF_vars(Grant) /\ WF_vars(Leave)
=============================================================================

----------------------------- MODULE RemoteCall -----------------------------
(***************************************************************************)
(* What sending an IPI promises (the documentation of kernel/src/cpu/      *)
(* ipi.rs): the message runs once on every CPU it is meant for, and the    *)
(* sender continues only after all of them are done.                       *)
(***************************************************************************)
CONSTANTS Cpus

VARIABLES
    calling,    \* CPUs that are inside send_ipi()
    todo        \* for each sender the CPUs that have yet to run its message

vars == <<calling, todo>>

Init == calling = {} /\ todo = [c \in Cpus |-> {}]

Call(c, T) ==
    /\ c \notin calling
    /\ calling' = calling \union {c}
    /\ todo' = [todo EXCEPT ![c] = T]

Run(c, t) ==
    /\ t \in todo[c]
    /\ todo' = [todo EXCEPT ![c] = @ \ {t}]
    /\ UNCHANGED calling

Return(c) ==
    /\ c \in calling
    /\ todo[c] = {}
    /\ calling' = calling \ {c}
    /\ UNCHANGED todo

Next ==
    \E c \in Cpus :
        \/ \E T \in SUBSET Cpus : Call(c, T)
        \/ \E t \in Cpus : Run(c, t)
        \/ Return(c)

Fairness ==
    \A c \in Cpus : WF_vars(Return(c)) /\ \A t \in Cpus : WF_vars(Run(c, t))

Spec == Init /\ [][Next]_vars /\ Fairness
=============================================================================

-------------------------------- MODULE Ipi --------------------------------
(***************************************************************************)
(* Inter-processor interrupts, kernel/src/cpu/ipi.rs with the atomic CPU   *)
(* set of cpu/cpuset.rs.                                                   *)
(*                                                                         *)
(* Every CPU has a bulletin board with one message and a count of CPUs     *)
(* that have yet to complete it, and a request set naming the CPUs whose   *)
(* boards it has to look at.  On each CPU a task sends messages and the    *)
(* handler of the IPI vector, which interrupts it, receives them.  Every   *)
(* access to shared memory is one step.  A message is known by its number; *)
(* what it does when invoked is left to the modules that use IPIs.         *)
(***************************************************************************)
EXTENDS Integers, Sequences, FiniteSetsExt

CONSTANTS
    Cpus,           \* CPU indices
    WordBits,       \* CPUs per word of a CPU set (64 in the code)
    USIZE,          \* number of values of the pending counter (2^64)
    Workloads       \* what the CPUs send, and which start late: a behaviour
                    \* has one of these workloads

ASSUME CpusAssumption == Cpus \subseteq Nat /\ IsFiniteSet(Cpus)
ASSUME WidthAssumption == WordBits \in Nat \ {0} /\ USIZE \in Nat /\ USIZE > Cardinality(Cpus)

Kinds == {"Single", "Multiple", "AllButSelf", "All"}
IpiTarget == [kind : Kinds, cpus : SUBSET Cpus]

VARIABLES
    request_set,    \* request_set[c]: CPUs that want CPU c to read their board
    pending,        \* pending[c]: the count on the board of c
    irr,            \* CPUs at which the IPI vector is pending
    online,         \* CPUs for which is_online() holds
    task,           \* task[c]: where c is in send_ipi()
    isr,            \* isr[c]: where c is in handle_ipi_interrupt()
    calls,          \* calls[c]: the targets of the messages c has yet to send
    ran             \* ran[c][t]: how often t ran the message on the board of c

vars == <<request_set, pending, irr, online, task, isr, calls, ran>>

\* left: CPUs the loop has yet to visit; flagged: targets flagged so far;
\* must: CPUs that have to run the message (history, not in the code)
Idle == [pc |-> "idle", kind |-> "All", left |-> {}, flagged |-> {}, self |-> FALSE,
         must |-> {}]
NoIsr == [pc |-> "none", word |-> 0, from |-> 0]

\* The word of a CPU set a CPU is in, and the last word there is
Word(c) == c \div WordBits
LastWord == Word(Max(Cpus))

TaskStates ==
    [pc : {"idle", "next", "flag", "store", "irq", "self", "wait", "panic"},
     kind : Kinds, left : SUBSET Cpus, flagged : SUBSET Cpus, self : BOOLEAN,
     must : SUBSET Cpus]
IsrStates ==
    [pc : {"none", "scan", "receive", "ack"}, word : 0..LastWord, from : Cpus \union {0}]

TypeOK ==
    /\ request_set \in [Cpus -> SUBSET Cpus]
    /\ pending \in [Cpus -> 0..(USIZE - 1)]
    /\ irr \subseteq Cpus /\ online \subseteq Cpus
    /\ task \in [Cpus -> TaskStates]
    /\ isr \in [Cpus -> IsrStates]
    /\ calls \in [Cpus -> Seq(IpiTarget)]
    /\ ran \in [Cpus -> [Cpus -> Nat]]

Init ==
    /\ request_set = [c \in Cpus |-> {}]
    /\ pending = [c \in Cpus |-> 0]
    /\ irr = {}
    /\ task = [c \in Cpus |-> Idle]
    /\ isr = [c \in Cpus |-> NoIsr]
    /\ \E w \in Workloads : calls = w.calls /\ online = Cpus \ w.late
    /\ ran = [c \in Cpus |-> [t \in Cpus |-> 0]]

-----------------------------------------------------------------------------
(* The sender.  Its task runs while its CPU is not in the handler.         *)

At(c, l) == task[c].pc = l /\ isr[c].pc = "none"
Become(c, t) == task' = [task EXCEPT ![c] = t]

\* The CPUs the loop over the target set visits
Visits(c, req) ==
    CASE req.kind \in {"Single", "Multiple"} -> req.cpus
      [] OTHER -> Cpus \ {c}

\* Mutants: the sender forgets itself in a list, or in a broadcast
IncludesSelfAll(c, req) == req.kind = "All"
IncludesSelf(c, req) ==
    \/ req.kind = "All"
    \/ req.kind \in {"Single", "Multiple"} /\ c \in req.cpus

\* The CPUs a message is meant for; a broadcast means the CPUs that are online
Targets(c, req) ==
    CASE req.kind = "All" -> online
      [] req.kind = "AllButSelf" -> online \ {c}
      [] OTHER -> req.cpus

\* assert_eq!(pending, 0) and the initialisation of the board
Begin(c) ==
    /\ At(c, "idle")
    /\ c \in online
    /\ calls[c] # <<>>
    /\ IF pending[c] # 0
       THEN /\ Become(c, [Idle EXCEPT !.pc = "panic"])
            /\ UNCHANGED <<calls, ran>>
       ELSE LET req == Head(calls[c]) IN
            /\ Become(c, [pc |-> "next", kind |-> req.kind,
                          left |-> Visits(c, req) \ {c}, flagged |-> {},
                          self |-> IncludesSelf(c, req),
                          must |-> Targets(c, req)])
            /\ calls' = [calls EXCEPT ![c] = Tail(@)]
            /\ ran' = [ran EXCEPT ![c] = [t \in Cpus |-> 0]]
    /\ UNCHANGED <<request_set, pending, irr, online, isr>>

Broadcast(c) == task[c].kind \in {"AllButSelf", "All"}

\* Mutant: every listed target stores 1 instead of adding 1
NextTargetStores(c) ==
    /\ At(c, "next")
    /\ task[c].left # {}
    /\ IF Broadcast(c) /\ Min(task[c].left) \notin online
       THEN /\ Become(c, [task[c] EXCEPT !.left = @ \ {Min(@)}])
            /\ UNCHANGED pending
       ELSE /\ Become(c, [task[c] EXCEPT !.pc = "flag"])
            /\ pending' = IF Broadcast(c) THEN pending ELSE [pending EXCEPT ![c] = 1]
    /\ UNCHANGED <<request_set, irr, online, isr, calls, ran>>

\* The count is raised before a single or listed CPU is flagged; a broadcast
\* skips CPUs that are not online and counts at the end.
NextTarget(c) ==
    /\ At(c, "next")
    /\ task[c].left # {}
    /\ IF Broadcast(c) /\ Min(task[c].left) \notin online
       THEN /\ Become(c, [task[c] EXCEPT !.left = @ \ {Min(@)}])
            /\ UNCHANGED pending
       ELSE /\ Become(c, [task[c] EXCEPT !.pc = "flag"])
            /\ pending' = IF Broadcast(c) THEN pending
                          ELSE [pending EXCEPT ![c] = (@ + 1) % USIZE]
    /\ UNCHANGED <<request_set, irr, online, isr, calls, ran>>

\* flag_ipi()
Flag(c) ==
    /\ At(c, "flag")
    /\ LET t == Min(task[c].left) IN
       /\ request_set' = [request_set EXCEPT ![t] = @ \union {c}]
       /\ Become(c, [task[c] EXCEPT !.pc = "next", !.left = @ \ {t},
                                    !.flagged = @ \union {t}])
    /\ UNCHANGED <<pending, irr, online, isr, calls, ran>>

\* All targets are flagged; a broadcast stores its count only now
StoreCount(c) ==
    /\ At(c, "next")
    /\ task[c].left = {}
    /\ pending' = IF Broadcast(c)
                  THEN [pending EXCEPT ![c] = Cardinality(task[c].flagged)] ELSE pending
    /\ Become(c, [task[c] EXCEPT !.pc = "irq"])
    /\ UNCHANGED <<request_set, irr, online, isr, calls, ran>>

\* send_ipi_irq(): the vector is posted to the targets, if there are any
SendIrq(c) ==
    /\ At(c, "irq")
    /\ irr' = CASE task[c].flagged = {} -> irr
                [] Broadcast(c) -> irr \union (Cpus \ {c})
                [] OTHER -> irr \union task[c].flagged
    /\ Become(c, [task[c] EXCEPT !.pc = IF task[c].self THEN "self" ELSE "wait"])
    /\ UNCHANGED <<request_set, pending, online, isr, calls, ran>>

\* The message is run locally with TPR_IPI, which keeps the handler out
RunSelf(c) ==
    /\ At(c, "self")
    /\ ran' = [ran EXCEPT ![c][c] = @ + 1]
    /\ Become(c, [task[c] EXCEPT !.pc = "wait"])
    /\ UNCHANGED <<request_set, pending, irr, online, isr, calls>>

\* Mutant: the sender does not wait for the last target
ReturnEarly(c) ==
    /\ At(c, "wait")
    /\ pending[c] <= 1
    /\ Become(c, Idle)
    /\ UNCHANGED <<request_set, pending, irr, online, isr, calls, ran>>

\* The spin loop ends when every target has acknowledged
Return(c) ==
    /\ At(c, "wait")
    /\ pending[c] = 0
    /\ Become(c, Idle)
    /\ UNCHANGED <<request_set, pending, irr, online, isr, calls, ran>>

\* A CPU that was started marks itself online
SetOnline(c) ==
    /\ c \notin online
    /\ online' = online \union {c}
    /\ UNCHANGED <<request_set, pending, irr, task, isr, calls, ran>>

-----------------------------------------------------------------------------
(* The receiver.                                                           *)

\* Delivery of IPI_VECTOR: TPR below TPR_IPI and interrupts enabled
Interrupt(c) ==
    /\ c \in irr
    /\ isr[c].pc = "none"
    /\ task[c].pc # "panic"
    /\ c \in online
    /\ irr' = irr \ {c}
    /\ isr' = [isr EXCEPT ![c] = [NoIsr EXCEPT !.pc = "scan"]]
    /\ UNCHANGED <<request_set, pending, online, task, calls, ran>>

\* Mutant: the whole word is taken and only its lowest CPU is served
ScanOnce(c) ==
    /\ isr[c].pc = "scan"
    /\ LET set == {s \in request_set[c] : Word(s) = isr[c].word} IN
       IF set # {}
       THEN /\ request_set' = [request_set EXCEPT ![c] = {}]
            /\ isr' = [isr EXCEPT ![c] = [@ EXCEPT !.pc = "receive", !.from = Min(set)]]
       ELSE /\ isr' = [isr EXCEPT ![c] = NoIsr]
            /\ UNCHANGED request_set
    /\ UNCHANGED <<pending, irr, online, task, calls, ran>>

\* Mutant: the end of the set is checked one word too late
ScanPastEnd(c) ==
    /\ isr[c].pc = "scan"
    /\ LET set == {s \in request_set[c] : Word(s) = isr[c].word} IN
       IF set # {}
       THEN /\ request_set' = [request_set EXCEPT ![c] = @ \ {Min(set)}]
            /\ isr' = [isr EXCEPT ![c] = [@ EXCEPT !.pc = "receive", !.from = Min(set)]]
       ELSE /\ isr' = [isr EXCEPT ![c] = IF @.word > LastWord THEN NoIsr
                                         ELSE [@ EXCEPT !.word = @ + 1]]
            /\ UNCHANGED request_set
    /\ UNCHANGED <<pending, irr, online, task, calls, ran>>

\* AtomicCpuSetIterator::next(): the lowest CPU in the current word is taken
\* out of the set; past an empty word the iterator never comes back
Scan(c) ==
    /\ isr[c].pc = "scan"
    /\ LET set == {s \in request_set[c] : Word(s) = isr[c].word} IN
       IF set # {}
       THEN /\ request_set' = [request_set EXCEPT ![c] = @ \ {Min(set)}]
            /\ isr' = [isr EXCEPT ![c] = [@ EXCEPT !.pc = "receive", !.from = Min(set)]]
       ELSE /\ isr' = [isr EXCEPT ![c] = IF @.word = LastWord THEN NoIsr
                                         ELSE [@ EXCEPT !.word = @ + 1]]
            /\ UNCHANGED request_set
    /\ UNCHANGED <<pending, irr, online, task, calls, ran>>

\* receive_single_ipi(): the message on the sender's board is invoked
Receive(c) ==
    /\ isr[c].pc = "receive"
    /\ ran' = [ran EXCEPT ![isr[c].from][c] = @ + 1]
    /\ isr' = [isr EXCEPT ![c] = [@ EXCEPT !.pc = "ack"]]
    /\ UNCHANGED <<request_set, pending, irr, online, task, calls>>

\* pending.fetch_sub(1)
Ack(c) ==
    /\ isr[c].pc = "ack"
    /\ pending' = [pending EXCEPT ![isr[c].from] = (@ - 1) % USIZE]
    /\ isr' = [isr EXCEPT ![c] = [@ EXCEPT !.pc = "scan"]]
    /\ UNCHANGED <<request_set, irr, online, task, calls, ran>>

Send(c) == NextTarget(c) \/ Flag(c) \/ StoreCount(c) \/ SendIrq(c) \/ RunSelf(c) \/ Return(c)
Handle(c) == Scan(c) \/ Receive(c) \/ Ack(c)

Next ==
    \E c \in Cpus :
        \/ Begin(c) \/ Send(c) \/ Handle(c)
        \/ Interrupt(c) \/ SetOnline(c)

\* CPUs keep running, also between interrupts, and a pending vector is taken
\* when the CPU is open to it.
Fairness ==
    \A c \in Cpus :
        /\ SF_vars(Send(c))
        /\ WF_vars(Handle(c))
        /\ SF_vars(Interrupt(c))
        /\ WF_vars(SetOnline(c))

Spec == Init /\ [][Next]_vars /\ Fairness

-----------------------------------------------------------------------------
Sending(c) == task[c].pc \notin {"idle", "panic"}

\* Targets of c's message that have not acknowledged it.
Unacked(c) ==
    {t \in task[c].flagged :
        c \in request_set[t] \/ (isr[t].pc \in {"receive", "ack"} /\ isr[t].from = c)}

\* "The IPI board is guaranteed to remain valid until the pending count is
\* decremented": whoever looks at a board was flagged for the message on it and
\* its sender has not returned.
BoardStable ==
    \A t \in Cpus : isr[t].pc \in {"receive", "ack"} =>
        /\ Sending(isr[t].from)
        /\ t \in task[isr[t].from].flagged
        /\ ran[isr[t].from][t] = (IF isr[t].pc = "ack" THEN 1 ELSE 0)

\* "The number of CPUs that have yet to complete the request" (IpiBoard): once
\* the targets are flagged, and for single and listed targets all along, the
\* count on the board is the number of targets that have not acknowledged.
PendingExact ==
    \A c \in Cpus :
        Sending(c) /\ (Broadcast(c) => task[c].pc \in {"irq", "self", "wait"}) =>
            pending[c] = Cardinality(Unacked(c)) + (IF task[c].pc = "flag" THEN 1 ELSE 0)

\* The assertion that no request is outstanding when a new one is set up.
NoPanic == \A c \in Cpus : task[c].pc # "panic"

\* Sending returns: "any other IPIs that arrive while waiting here will
\* interrupt this spin loop and will be processed correctly".
SendCompletes == \A c \in Cpus : Sending(c) ~> task[c].pc = "idle"

Abstract ==
    INSTANCE RemoteCall WITH
        calling <- {c \in Cpus : task[c].pc # "idle"},
        todo <- [c \in Cpus |-> {t \in task[c].must : ran[c][t] = 0}]

\* IPIs implement remote calls that return after every target has run.
ImplementsRemoteCall == Abstract!Spec
=============================================================================

----------------------------- MODULE Scheduler -----------------------------
(***************************************************************************)
(* The cooperative scheduler, kernel/src/task/schedule.rs with the task    *)
(* state of task/tasks.rs and the idle loop of cpu/percpu.rs.              *)
(*                                                                         *)
(* A run queue is only used by its own CPU, with interrupts disabled, so a *)
(* critical section on it is one step.  CPUs meet in the tasks' `active`   *)
(* flags, in the global task list, and in the IPIs that move a task to     *)
(* another CPU; an IPI is the remote call of module RemoteCall: the        *)
(* handler runs on the target while its interrupts are enabled, and the    *)
(* sender goes on after it ran.  A task keeps its place in the scheduler's *)
(* code on its own stack (field pc) while other tasks run.                 *)
(***************************************************************************)
EXTENDS Integers, Sequences, FiniteSets
LOCAL INSTANCE SequencesExt

CONSTANTS
    Cpus,           \* CPU 0 is the boot processor
    Workers,        \* tasks other than the idle tasks
    Idle,           \* Idle[c]: the idle task of CPU c
    LoopCpu,        \* the request-loop tasks among Workers, each with its CPU
    NoTask,         \* None
    FlushByIpi      \* whether TLB flushes send IPIs (not on SNP)

Idles == {Idle[c] : c \in Cpus}
Tasks == Workers \union Idles

ASSUME TasksAssumption ==
    /\ Workers \intersect Idles = {} /\ NoTask \notin Tasks
    /\ \A c, d \in Cpus : Idle[c] = Idle[d] => c = d
ASSUME LoopAssumption ==
    /\ DOMAIN LoopCpu \subseteq Workers
    /\ \A w, x \in DOMAIN LoopCpu : LoopCpu[w] \in Cpus /\ (LoopCpu[w] = LoopCpu[x] => w = x)

VARIABLES
    rq,         \* rq[c]: the RunQueue of CPU c
    cpu,        \* cpu[c]: where c is in the task switch, and whose stack it uses
    nest,       \* nest[c]: interrupt-disable nesting count
    task,       \* task[t]: scheduling state, and t's place in the scheduler
    tasklist,   \* TASKLIST
    handles,    \* tasks referenced by whoever started them
    ipi         \* ipi[c]: the message CPU c is sending

vars == <<rq, cpu, nest, task, tasklist, handles, ipi>>

NoAffinity == <<NoTask, 0>>
NoIpi == [kind |-> "none", task |-> NoTask, left |-> {}]

Places ==
    {"unborn", "new", "first", "run", "idle", "halted", "woken", "again",
     "select", "resumed", "after", "sending", "reap", "unmap"}

TypeOK ==
    /\ rq \in [Cpus -> [list : Seq(Workers), current : Tasks \union {NoTask},
                        terminated : Workers \union {NoTask},
                        wake : Workers \union {NoTask},
                        affinity : (Workers \X Cpus) \union {NoAffinity}]]
    /\ cpu \in [Cpus -> [pc : {"boot", "stack", "leave", "release", "acquire"},
                         on : Tasks \union {NoTask}, next : Tasks \union {NoTask}]]
    /\ nest \in [Cpus -> 0..1]
    /\ task \in [Tasks -> [pc : Places, cont : {"run", "idle", "again", "kill"},
                           resched : BOOLEAN, fresh : BOOLEAN, active : BOOLEAN,
                           state : {"running", "blocked", "terminated"},
                           cpu_index : Cpus, mapped : Cpus]]
    /\ tasklist \subseteq Tasks /\ handles \subseteq Workers
    /\ ipi \in [Cpus -> [kind : {"none", "affinity", "flush"},
                         task : Workers \union {NoTask}, left : SUBSET Cpus]]

\* A task as Task::create() makes it on CPU c
Created(c, body) ==
    [pc |-> "new", cont |-> body, resched |-> FALSE, fresh |-> TRUE, active |-> FALSE,
     state |-> "running", cpu_index |-> c, mapped |-> c]

\* The idle tasks exist; that of the boot processor runs svsm_main() first.
Init ==
    /\ rq = [c \in Cpus |-> [list |-> <<>>, current |-> NoTask, terminated |-> NoTask,
                             wake |-> NoTask, affinity |-> NoAffinity]]
    /\ cpu = [c \in Cpus |-> [pc |-> "boot", on |-> NoTask, next |-> NoTask]]
    /\ nest = [c \in Cpus |-> 0]
    /\ task = [t \in Tasks |->
                 IF t \in Workers THEN [Created(0, "run") EXCEPT !.pc = "unborn"]
                 ELSE LET c == CHOOSE d \in Cpus : Idle[d] = t
                      IN Created(c, IF c = 0 THEN "run" ELSE "idle")]
    /\ tasklist = Idles
    /\ handles = {}
    /\ ipi = [c \in Cpus |-> NoIpi]

-----------------------------------------------------------------------------
At(c, p) == cpu[c].pc = "stack" /\ task[cpu[c].on].pc = p
Current(c) == cpu[c].on
IrqsOn(c) == cpu[c].pc = "stack" /\ nest[c] = 0

\* A task gives control to select_new_task() and goes on at body afterwards
SelectNew(t, resched, body) == [t EXCEPT !.pc = "select", !.resched = resched, !.cont = body]

\* Places that hold a reference to a task
InQueue(q, t) ==
    t \in ToSet(q.list) \union {q.current, q.terminated, q.wake, q.affinity[1]}
Referenced(t) ==
    \/ t \in tasklist \union handles
    \/ \E c \in Cpus : InQueue(rq[c], t) \/ ipi[c].task = t

\* Dropping the last reference to task t unmaps its stack, which flushes TLBs
Flushes(t) == FlushByIpi /\ t \in Workers \ (tasklist \union handles)
Flush(c) == [kind |-> "flush", task |-> NoTask, left |-> Cpus \ {c}]

-----------------------------------------------------------------------------
(* What tasks do.  The idle task of the boot processor runs svsm_main(),   *)
(* which starts tasks; a request-loop task goes to its CPU and then idles  *)
(* it between visits to the guest; other tasks do what they like.          *)

MayRun(c, T) == At(c, "run") /\ Current(c) \in T
Ordinary == Workers \ DOMAIN LoopCpu

\* start_kernel_task(), start_kernel_thread(), exec_user(): the new task is put
\* on this CPU's run queue and the starter yields.
Start(c, w) ==
    /\ MayRun(c, Tasks)
    /\ task[w].pc = "unborn"
    /\ task' = [task EXCEPT ![w] = Created(c, "run"),
                            ![Current(c)] = SelectNew(@, TRUE, "run")]
    /\ tasklist' = tasklist \union {w}
    /\ handles' = handles \union {w}
    /\ rq' = [rq EXCEPT ![c].list = Append(@, w)]
    /\ UNCHANGED <<cpu, nest, ipi>>

\* The starter lets go of the new task, which has run by then
DropHandle(w) ==
    /\ w \in handles
    /\ task[w].pc # "new"
    /\ handles' = handles \ {w}
    /\ UNCHANGED <<rq, cpu, nest, task, tasklist, ipi>>

\* schedule(), from a task or at the end of the idle loop
Schedule(c) ==
    /\ MayRun(c, Ordinary \union Idles) \/ At(c, "again")
    /\ task' = [task EXCEPT ![Current(c)] =
                    SelectNew(@, TRUE, IF @.pc = "again" THEN "idle" ELSE "run")]
    /\ UNCHANGED <<rq, cpu, nest, tasklist, handles, ipi>>

\* Mutant: the task is put on the target's run queue before it has left its stack
SetAffinityEarly(c, d) ==
    /\ MayRun(c, Workers)
    /\ d # c
    /\ Current(c) \in DOMAIN LoopCpu => d = LoopCpu[Current(c)]
    /\ task' = [task EXCEPT ![Current(c)] = SelectNew(@, FALSE, "run")]
    /\ rq' = [rq EXCEPT ![d].list = Append(@, Current(c))]
    /\ UNCHANGED <<cpu, nest, tasklist, handles, ipi>>

\* Mutant: the task that wants to leave is queued on its old CPU again
SetAffinityRequeued(c, d) ==
    /\ MayRun(c, Workers)
    /\ d # c
    /\ Current(c) \in DOMAIN LoopCpu => d = LoopCpu[Current(c)]
    /\ task' = [task EXCEPT ![Current(c)] = SelectNew(@, TRUE, "run")]
    /\ rq' = [rq EXCEPT ![c].affinity = <<Current(c), d>>]
    /\ UNCHANGED <<cpu, nest, tasklist, handles, ipi>>

\* set_affinity() to another CPU; to the current CPU it does nothing
SetAffinity(c, d) ==
    /\ MayRun(c, Workers)
    /\ d # c
    /\ Current(c) \in DOMAIN LoopCpu => d = LoopCpu[Current(c)]
    /\ task' = [task EXCEPT ![Current(c)] =
                    [SelectNew(@, FALSE, "run") EXCEPT !.state = "blocked"]]
    /\ rq' = [rq EXCEPT ![c].affinity = <<Current(c), d>>]
    /\ UNCHANGED <<cpu, nest, tasklist, handles, ipi>>

\* go_idle(): wait until the CPU has been idle
GoIdle(c) ==
    /\ MayRun(c, DOMAIN LoopCpu)
    /\ LoopCpu[Current(c)] = c
    /\ task' = [task EXCEPT ![Current(c)] =
                    [SelectNew(@, FALSE, "run") EXCEPT !.state = "blocked"]]
    /\ rq' = [rq EXCEPT ![c].wake = Current(c)]
    /\ UNCHANGED <<cpu, nest, tasklist, handles, ipi>>

\* Mutant: the terminated task is not kept referenced until it has left its stack
KillUnreferenced(c) ==
    /\ task' = [task EXCEPT ![Current(c)] =
                    [SelectNew(@, FALSE, "run") EXCEPT !.state = "terminated"]]
    /\ tasklist' = tasklist \ {Current(c)}
    /\ UNCHANGED rq

\* current_task_terminated(), then select_new_task(false)
Kill(c) ==
    /\ task' = [task EXCEPT ![Current(c)] =
                    [SelectNew(@, FALSE, "run") EXCEPT !.state = "terminated"]]
    /\ rq' = [rq EXCEPT ![c].terminated = Current(c)]
    /\ tasklist' = tasklist \ {Current(c)}

\* terminate(): a task still in `terminated_task` is dropped under the run
\* queue's lock
Terminate(c) ==
    /\ MayRun(c, Ordinary)
    /\ IF Flushes(rq[c].terminated)
       THEN /\ task' = [task EXCEPT ![Current(c)].pc = "unmap", ![Current(c)].cont = "kill"]
            /\ rq' = [rq EXCEPT ![c].terminated = NoTask]
            /\ nest' = [nest EXCEPT ![c] = @ + 1]
            /\ ipi' = [ipi EXCEPT ![c] = Flush(c)]
            /\ UNCHANGED tasklist
       ELSE Kill(c) /\ UNCHANGED <<nest, ipi>>
    /\ UNCHANGED <<cpu, handles>>

\* svsm_main() is done and becomes the idle loop
EnterIdle(c) ==
    /\ MayRun(c, Idles)
    /\ task' = [task EXCEPT ![Current(c)].pc = "idle", ![Current(c)].cont = "idle"]
    /\ UNCHANGED <<rq, cpu, nest, tasklist, handles, ipi>>

Body(c) ==
    \/ \E w \in Workers : Start(c, w)
    \/ \E d \in Cpus : SetAffinity(c, d)
    \/ Schedule(c) \/ GoIdle(c) \/ Terminate(c) \/ EnterIdle(c)

-----------------------------------------------------------------------------
(* select_new_task().                                                      *)

\* RunQueue::schedule_prepare(): the current task is queued again if it wants
\* to run on, and the front of the list, or the idle task, is next.
Requeued(c) ==
    IF task[Current(c)].resched /\ Current(c) \notin Idles
    THEN Append(rq[c].list, Current(c)) ELSE rq[c].list
NextTask(c) == IF Requeued(c) = <<>> THEN Idle[c] ELSE Head(Requeued(c))

\* Mutant: the per-CPU mappings of a task that changed CPU are not updated
PrepareUnmapped(c) ==
    /\ At(c, "select")
    /\ nest' = [nest EXCEPT ![c] = @ + 1]
    /\ rq' = [rq EXCEPT ![c].list = IF Requeued(c) = <<>> THEN <<>> ELSE Tail(Requeued(c)),
                        ![c].current = NextTask(c)]
    /\ IF NextTask(c) = Current(c)
       THEN /\ task' = [task EXCEPT ![Current(c)].pc = "resumed"]
            /\ UNCHANGED cpu
       ELSE /\ task' = [task EXCEPT ![Current(c)].pc = "resumed",
                                    ![NextTask(c)].cpu_index = c]
            /\ cpu' = [cpu EXCEPT ![c].pc = "leave", ![c].next = NextTask(c)]
    /\ UNCHANGED <<tasklist, handles, ipi>>

\* Interrupts are disabled, the next task is chosen and made this CPU's
Prepare(c) ==
    /\ At(c, "select")
    /\ nest' = [nest EXCEPT ![c] = @ + 1]
    /\ rq' = [rq EXCEPT ![c].list = IF Requeued(c) = <<>> THEN <<>> ELSE Tail(Requeued(c)),
                        ![c].current = NextTask(c)]
    /\ IF NextTask(c) = Current(c)
       THEN /\ task' = [task EXCEPT ![Current(c)].pc = "resumed"]
            /\ UNCHANGED cpu
       ELSE /\ task' = [task EXCEPT
                 ![Current(c)].pc = "resumed",
                 ![NextTask(c)].cpu_index = c,
                 ![NextTask(c)].mapped = IF task[NextTask(c)].cpu_index # c THEN c ELSE @]
            /\ cpu' = [cpu EXCEPT ![c].pc = "leave", ![c].next = NextTask(c)]
    /\ UNCHANGED <<tasklist, handles, ipi>>

\* schedule_init(): the idle task is the first task of a CPU
ScheduleInit(c) ==
    /\ cpu[c].pc = "boot"
    /\ nest' = [nest EXCEPT ![c] = @ + 1]
    /\ rq' = [rq EXCEPT ![c].current = Idle[c]]
    /\ cpu' = [cpu EXCEPT ![c].pc = "acquire", ![c].next = Idle[c]]
    /\ UNCHANGED <<task, tasklist, handles, ipi>>

\* switch_context: the registers are saved and the old stack is left ...
LeaveStack(c) ==
    /\ cpu[c].pc = "leave"
    /\ cpu' = [cpu EXCEPT ![c].pc = "release"]
    /\ UNCHANGED <<rq, nest, task, tasklist, handles, ipi>>

\* ... then the old task is marked inactive ...
Release(c) ==
    /\ cpu[c].pc = "release"
    /\ task' = [task EXCEPT ![cpu[c].on].active = FALSE]
    /\ cpu' = [cpu EXCEPT ![c].pc = "acquire", ![c].on = NoTask]
    /\ UNCHANGED <<rq, nest, tasklist, handles, ipi>>

\* ... and when the new task is inactive it is taken and its stack entered.
Acquire(c) ==
    /\ cpu[c].pc = "acquire"
    /\ LET t == cpu[c].next IN
       /\ ~task[t].active
       /\ task' = [task EXCEPT ![t].active = TRUE,
                               ![t].pc = IF @ = "new" THEN "first" ELSE @]
       /\ cpu' = [cpu EXCEPT ![c] = [pc |-> "stack", on |-> t, next |-> NoTask]]
    /\ UNCHANGED <<rq, nest, tasklist, handles, ipi>>

\* The interrupt guard of select_new_task() is dropped
Resume(c) ==
    /\ At(c, "resumed")
    /\ nest' = [nest EXCEPT ![c] = @ - 1]
    /\ task' = [task EXCEPT ![Current(c)].pc = "after"]
    /\ UNCHANGED <<rq, cpu, tasklist, handles, ipi>>

\* Mutants: a new task leaves interrupts disabled, or does no housekeeping
FirstRunMasked(c) ==
    /\ At(c, "first")
    /\ task' = [task EXCEPT ![Current(c)].pc = "after"]
    /\ UNCHANGED <<rq, cpu, nest, tasklist, handles, ipi>>
FirstRunOnly(c) ==
    /\ At(c, "first")
    /\ nest' = [nest EXCEPT ![c] = @ - 1]
    /\ task' = [task EXCEPT ![Current(c)] = [@ EXCEPT !.pc = task[Current(c)].cont, !.fresh = FALSE]]
    /\ UNCHANGED <<rq, cpu, tasklist, handles, ipi>>

\* setup_new_task_common(): nobody's guard is dropped in a new task, so it
\* enables interrupts itself
FirstRun(c) ==
    /\ At(c, "first")
    /\ nest' = [nest EXCEPT ![c] = @ - 1]
    /\ task' = [task EXCEPT ![Current(c)].pc = "after"]
    /\ UNCHANGED <<rq, cpu, tasklist, handles, ipi>>

\* Where a task goes after after_task_switch(): a new one starts its body
Switched(t) == [t EXCEPT !.pc = IF t.fresh THEN t.cont ELSE "reap", !.fresh = FALSE]

\* Mutant: the task is sent to the CPU it comes from
AfterTaskSwitchSelf(c) ==
    /\ At(c, "after")
    /\ rq' = [rq EXCEPT ![c].affinity = NoAffinity]
    /\ IF rq[c].affinity = NoAffinity
       THEN /\ task' = [task EXCEPT ![Current(c)] = Switched(@)]
            /\ UNCHANGED ipi
       ELSE /\ task' = [task EXCEPT ![Current(c)].pc = "sending"]
            /\ ipi' = [ipi EXCEPT ![c] = [kind |-> "affinity", task |-> rq[c].affinity[1],
                                          left |-> {c}]]
    /\ UNCHANGED <<cpu, nest, tasklist, handles>>

\* after_task_switch(): a task that asked for another CPU is sent there
AfterTaskSwitch(c) ==
    /\ At(c, "after")
    /\ rq' = [rq EXCEPT ![c].affinity = NoAffinity]
    /\ IF rq[c].affinity = NoAffinity
       THEN /\ task' = [task EXCEPT ![Current(c)] = Switched(@)]
            /\ UNCHANGED ipi
       ELSE /\ task' = [task EXCEPT ![Current(c)].pc = "sending"]
            /\ ipi' = [ipi EXCEPT ![c] = [kind |-> "affinity", task |-> rq[c].affinity[1],
                                          left |-> {rq[c].affinity[2]}]]
    /\ UNCHANGED <<cpu, nest, tasklist, handles>>

\* The send returns
AffinitySent(c) ==
    /\ At(c, "sending")
    /\ ipi[c].left = {}
    /\ ipi' = [ipi EXCEPT ![c] = NoIpi]
    /\ task' = [task EXCEPT ![Current(c)] = Switched(@)]
    /\ UNCHANGED <<rq, cpu, nest, tasklist, handles>>

Continue(t) == [t EXCEPT !.pc = t.cont]

\* The reference to a terminated task is released, under the run queue's lock
Reap(c) ==
    /\ At(c, "reap")
    /\ rq' = [rq EXCEPT ![c].terminated = NoTask]
    /\ IF Flushes(rq[c].terminated)
       THEN /\ task' = [task EXCEPT ![Current(c)].pc = "unmap"]
            /\ nest' = [nest EXCEPT ![c] = @ + 1]
            /\ ipi' = [ipi EXCEPT ![c] = Flush(c)]
       ELSE /\ task' = [task EXCEPT ![Current(c)] = Continue(@)]
            /\ UNCHANGED <<nest, ipi>>
    /\ UNCHANGED <<cpu, tasklist, handles>>

\* The flush that came with dropping a task returns, and the lock is released
Unmapped(c) ==
    /\ At(c, "unmap")
    /\ ipi[c].left = {}
    /\ ipi' = [ipi EXCEPT ![c] = NoIpi]
    /\ nest' = [nest EXCEPT ![c] = @ - 1]
    /\ IF task[Current(c)].cont = "kill" THEN Kill(c)
       ELSE /\ task' = [task EXCEPT ![Current(c)] = Continue(@)]
            /\ UNCHANGED <<rq, tasklist>>
    /\ UNCHANGED <<cpu, handles>>

Switch(c) ==
    \/ Prepare(c) \/ ScheduleInit(c) \/ LeaveStack(c) \/ Release(c) \/ Acquire(c)
    \/ Resume(c) \/ FirstRun(c) \/ AfterTaskSwitch(c) \/ AffinitySent(c)
    \/ Reap(c) \/ Unmapped(c)

-----------------------------------------------------------------------------
(* The idle loop and the IPI handler.                                      *)

\* Mutant: the CPU halts without looking at its run queue
SchedulerIdleBlind(c) ==
    /\ At(c, "idle")
    /\ task' = [task EXCEPT ![Current(c)].pc = "halted"]
    /\ UNCHANGED <<rq, cpu, nest, tasklist, handles, ipi>>

\* scheduler_idle(): with interrupts disabled, halt if nothing can run;
\* halting enables them
SchedulerIdle(c) ==
    /\ At(c, "idle")
    /\ task' = [task EXCEPT ![Current(c)].pc = IF rq[c].list = <<>> THEN "halted" ELSE "woken"]
    /\ UNCHANGED <<rq, cpu, nest, tasklist, handles, ipi>>

\* Some interrupt other than an IPI ends the halt
Wake(c) ==
    /\ At(c, "halted")
    /\ task' = [task EXCEPT ![Current(c)].pc = "woken"]
    /\ UNCHANGED <<rq, cpu, nest, tasklist, handles, ipi>>

\* The task that waits for the CPU to have been idle is made runnable
\* (schedule_task()), and the scheduler is called, once more in that case
IdleWoken(c) ==
    /\ At(c, "woken")
    /\ IF rq[c].wake = NoTask
       THEN /\ task' = [task EXCEPT ![Current(c)] = SelectNew(@, TRUE, "idle")]
            /\ UNCHANGED rq
       ELSE /\ task' = [task EXCEPT ![Current(c)] = SelectNew(@, TRUE, "again"),
                                    ![rq[c].wake].state = "running"]
            /\ rq' = [rq EXCEPT ![c].wake = NoTask, ![c].list = Append(@, rq[c].wake)]
    /\ UNCHANGED <<cpu, nest, tasklist, handles, ipi>>

\* The message of CPU c is handled on CPU d: SetAffinityMessage::invoke() puts
\* the task on d's run queue, a flush changes nothing here.  The interrupt
\* ends a halt.
Invoke(c, d) ==
    /\ d \in ipi[c].left
    /\ IrqsOn(d)
    /\ ipi' = [ipi EXCEPT ![c].left = @ \ {d}]
    /\ rq' = IF ipi[c].kind = "affinity"
             THEN [rq EXCEPT ![d].list = Append(@, ipi[c].task)] ELSE rq
    /\ task' = [t \in Tasks |->
                  IF ipi[c].kind = "affinity" /\ t = ipi[c].task
                  THEN [task[t] EXCEPT !.state = "running"]
                  ELSE IF t = Current(d) /\ At(d, "halted")
                  THEN [task[t] EXCEPT !.pc = "woken"] ELSE task[t]]
    /\ UNCHANGED <<cpu, nest, tasklist, handles>>

IdleLoop(c) == SchedulerIdle(c) \/ IdleWoken(c)

Next ==
    \/ \E c \in Cpus :
          \/ Body(c) \/ Switch(c) \/ IdleLoop(c) \/ Wake(c)
          \/ \E d \in Cpus : Invoke(c, d)
    \/ \E w \in Workers : DropHandle(w)

\* CPUs keep running, tasks call the scheduler in the end (it is cooperative),
\* and an IPI is taken when its target is open to interrupts time and again.
Fairness ==
    \A c \in Cpus :
        /\ WF_vars(Body(c)) /\ WF_vars(Switch(c)) /\ WF_vars(IdleLoop(c))
        /\ \A d \in Cpus : SF_vars(Invoke(c, d))

Spec == Init /\ [][Next]_vars /\ Fairness

-----------------------------------------------------------------------------
Born(t) == task[t].pc # "unborn"
SwitchingTo(c, t) == cpu[c].next = t

\* A task's stack is used by one CPU at most, and the `active` flag says so; by
\* the time a CPU has chosen a task (and changes its page table and cpu_index),
\* no CPU uses the task any more, so the wait in switch_context never spins.
StackExclusive ==
    /\ \A t \in Tasks :
          /\ Cardinality({c \in Cpus : cpu[c].on = t \/ SwitchingTo(c, t)}) <= 1
          /\ task[t].active <=> \E c \in Cpus : cpu[c].on = t

\* Where a task is known to the schedulers of the CPUs
KnownAt(t) ==
    UNION {{<<"list", c, i>> : i \in {j \in DOMAIN rq[c].list : rq[c].list[j] = t}} : c \in Cpus}
    \union {<<"current", c, 0>> : c \in {d \in Cpus : rq[d].current = t}}
    \union {<<"wake", c, 0>> : c \in {d \in Cpus : rq[d].wake = t}}
    \union {<<"affinity", c, 0>> : c \in {d \in Cpus : rq[d].affinity[1] = t}}
    \union {<<"ipi", c, 0>> : c \in {d \in Cpus : ipi[d].task = t /\ ipi[d].left # {}}}

\* A task that can still run is known at exactly one place, so it is neither
\* lost nor run twice; one that leaves its CPU is also still current there, and
\* a terminated task is known nowhere once it has left.
NeverLostNorTwice ==
    \A t \in Workers : Born(t) =>
        LET leaving == IF task[t].pc = "select" /\ ~task[t].resched THEN 1 ELSE 0
        IN Cardinality(KnownAt(t)) =
              leaving + (IF task[t].state = "terminated" THEN 0 ELSE 1)

\* "A task must be inactive to be terminated.  Otherwise, its stack might be
\* freed while it is actively executing" (Drop for Task): when the last
\* reference is gone no CPU uses the task or is about to.
DroppedIsInactive ==
    \A t \in Tasks : Born(t) /\ ~Referenced(t) =>
        ~task[t].active /\ \A c \in Cpus : cpu[c].on # t /\ ~SwitchingTo(c, t)

\* A running task has this CPU's per-CPU mappings in its page table.
PerCpuMapped ==
    \A c \in Cpus : cpu[c].pc = "stack" =>
        task[cpu[c].on].mapped = c /\ task[cpu[c].on].cpu_index = c

\* The assertions on the scheduler's paths hold where they are evaluated:
\* preemption_checks(), the empty set_affinity and wake_from_idle slots, the
\* states of tasks that are queued again or moved, and the task list.
NoPanic ==
    \A c \in Cpus :
        /\ At(c, "run") \/ At(c, "again") \/ At(c, "woken") => nest[c] = 0
        /\ MayRun(c, Workers) =>
              /\ rq[c].affinity = NoAffinity
              /\ Current(c) \in DOMAIN LoopCpu => rq[LoopCpu[Current(c)]].wake = NoTask
              /\ Current(c) \in tasklist
        /\ At(c, "select") =>
              IF task[Current(c)].resched THEN task[Current(c)].state = "running"
              ELSE NextTask(c) # Current(c)
        /\ ipi[c].kind = "affinity" /\ ipi[c].left # {} => task[ipi[c].task].state = "blocked"

\* A task on a run queue gets to run.
RunnableRuns ==
    \A c \in Cpus, w \in Workers :
        (\E i \in DOMAIN rq[c].list : rq[c].list[i] = w) ~> rq[c].current = w

\* A task that asks for another CPU gets to run there.
MigrationCompletes ==
    \A c \in Cpus, w \in Workers : \A d \in Cpus \ {c} :
        rq[c].affinity = <<w, d>> ~> rq[d].current = w

\* Sending an IPI returns: IPIs that arrive while a sender waits "will interrupt
\* this spin loop and will be processed correctly" (send_ipi).
SendReturns == \A c \in Cpus : ipi[c].left # {} ~> ipi[c].left = {}
=============================================================================

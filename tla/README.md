# Verification of the COCONUT-SVSM kernel

This directory holds TLA+ models of the SVSM kernel (`kernel/src`), the TLC
configurations that check them on small instances, and TLAPS proofs of the
lock invariants for every number of contexts. `PROJECT.json` lists the
components, the runs, the source lines behind each definition, the findings,
the hazards the properties are aimed at, and the theorems.

Source paths below are relative to `kernel/src` unless they start with a
directory of the repository's root.

## The system

The SVSM is a small kernel at the most privileged level (VMPL0) of a
confidential VM, beside a guest operating system. It boots on one CPU, starts
the others one by one, and runs a request-loop task per CPU that switches to
the guest and serves the guest's calls. Its own tasks are scheduled
cooperatively; interrupts preempt them, and CPUs talk to each other by
inter-processor interrupts (IPIs). On SNP the hypervisor delivers interrupts
through a doorbell page and the #HV exception.

### Inventory

| part | source | state |
|---|---|---|
| ticket spinlock | `locking/spinlock.rs` | `SpinLock`, abstract `FifoLock`, proved |
| reader-writer lock | `locking/rwlock.rs` | `RWLock`, proved |
| interrupt state, guards | `cpu/irq_state.rs`, `cpu/idt/svsm.rs`, `locking/common.rs` | `IrqState` |
| #HV doorbell, interrupt entry and return, idle halt, VMPL switch | `sev/hv_doorbell.rs`, `cpu/idt/svsm_entry.S`, `sev/ghcb.rs` | `HvDoorbell` |
| IPIs, CPU sets | `cpu/ipi.rs`, `cpu/cpuset.rs` | `Ipi`, abstract `RemoteCall` |
| scheduler, tasks, idle loop | `task/`, `cpu/percpu.rs`, `requests.rs` | `Scheduler` |
| heap page allocator | `mm/alloc.rs` | `PageAllocator` |
| slabs | `mm/alloc.rs` | planned |
| CPU bring-up, TLB shootdown, global mappings | `cpu/smp.rs`, `cpu/tlb.rs`, `mm/global_memory.rs` | planned |
| virtual memory regions, page tables, visibility | `mm/vm/`, `mm/pagetable.rs`, `mm/page_visibility.rs`, `mm/validate.rs` | planned |
| VMSA registry, core protocol, request loop, guest entry | `protocols/core.rs`, `requests.rs`, `vmm/execloop.rs`, `cpu/percpu.rs` | planned |
| guest APIC emulation | `cpu/apic.rs` | planned |
| guest request driver | `greq/` | planned |
| file system, system-call objects | `fs/`, `syscall/` | planned |
| virtio queues, vsock connections | `virtio-drivers/`, `virtio/`, `vsock/` | planned |
| bitmap allocator | `utils/bitmap_allocator.rs` | planned |
| vTPM and attestation protocols | `vtpm/`, `protocols/{vtpm,attest}.rs`, `attest.rs` | not modelled: sequential, the state is in a C library or in cryptography |
| guest memory access, exceptions, instruction decoder | `mm/guestmem.rs`, `cpu/vc.rs`, `insn_decode/` | not modelled: functions of registers and bytes |
| platforms, SEV and TDX primitives, Hyper-V | `platform/`, `sev/`, `tdx/`, `hyperv/` | not modelled: instruction and hypercall encodings; where they have control (idle halt, VMPL switch) it is in `HvDoorbell` |
| descriptor tables, control registers, features | `cpu/` | not modelled: register accesses |
| boot, launch, ACPI, fw_cfg | `svsm.rs`, `boot_params.rs`, `acpi/`, `fw_cfg.rs`, `boot/` | not modelled: runs once on one CPU; its result is the initial state of `PageAllocator` |
| console, gdb stub | `console.rs`, `serial.rs`, `debug/` | not modelled: output and debugging |
| user programs, ELF, tools, Verus proofs | `user/`, `elf/`, `tools/`, `verification/` | not part of the running kernel |

### How the models fit together

`SpinLock` and `RWLock` justify treating a critical section as one step in the
other modules. `IrqState` justifies that code under an `IrqGuard`, or under a
`TprGuard` for lower interrupts, is not interrupted, which `Ipi` (TPR_SYNCH)
and `Scheduler` (run queues) rely on. `HvDoorbell` shows, for SNP, that an
interrupt held back by such a guard is neither lost nor slept on. `Ipi`
implements `RemoteCall`, and `Scheduler` uses IPIs as that remote call.
These links are by argument; only `SpinLock`/`FifoLock` and `Ipi`/`RemoteCall`
are refinements that TLC checks.

## The modules

**SpinLock.** One action per atomic access: `DrawTicket` is
`current.fetch_add(1)`; `Acquire` the load of `holder` that ends the spin;
`TryLoadCurrent`, `TryLoadHolder`, `TryCas` the accesses of `try_lock()`;
`Release` the drop of the guard. `FifoLock` is the promise: one owner, waiters
served in order, every waiter served.

**RWLock.** The packed counter is a pair of readers and writers. A *share* is
anything that will be given back to the counter: a guard, a half made by
`map_split()`, or the claim of a writer still waiting for readers.

**IrqState.** One CPU. A stack of contexts, the task at the bottom and handlers
above it, of which the top runs. Steps an interrupt can separate (raising a
count, then TPR) are separate actions; pending vectors are the environment.

**HvDoorbell.** One CPU at instruction granularity where it matters: the tests
of NoFurtherSignal before HLT, VMGEXIT and IRET, and the windows behind them
from which the #HV entry code redirects. The hypervisor posts vectors between
any two instructions. Handlers, the enable loop and the processing loop are
frames of a stack.

**Ipi, RemoteCall.** Every CPU has a sending task and the IPI handler that
interrupts it. All accesses to boards, counts, request sets and their words are
steps. `RemoteCall` has calls with targets, runs of a call on a target, and
returns after all targets ran it exactly once. `ran` and `must` are history.

**Scheduler.** Critical sections on a run queue are one step. The context
switch is three (leave the stack, release the old task, acquire the new one),
followed by the rest of `select_new_task()` or the first-run path of a new
task. Each task's position in the scheduler's code is kept on its stack
(`task[t].pc`) while others run. `FlushByIpi` distinguishes platforms whose TLB
flushes are IPIs from SNP, where they are hypercalls.

**PageAllocator.** The region is a record; its methods are operators from
regions to regions, and each public function, being a critical section of
`ROOT_MEM`, is one action. Descriptors, list links and counters are kept; page
contents and the bit encoding of descriptors are not. Counters wrap at `USIZE`.

Memory is sequentially consistent throughout. Acquire and release orderings on
the way into and out of critical sections are taken as sufficient; relaxed
accesses are steps of their own, in program order.

## Model checking

Every run is `tlc -config <cfg> <module>`; all take less than three minutes.

| run | instance | what it shows |
|---|---|---|
| `spinlock` | 3 threads, 4 tickets | one guard at a time; outstanding tickets fill [holder, current) without gaps or doubles; the lock implements `FifoLock`, liveness included |
| `rwlock` | 2 threads, 2 parts each | writers are exclusive; both halves of the counter are exact under splits and drops; contention ends with somebody holding the lock |
| `irq_state` | 3 vectors, 2 levels, 3 guards per context | no interrupt under a guard that masks it; exact nesting counts; TPR at the highest level needed; pending vectors are delivered |
| `hv_doorbell` | 2 vectors, 2 levels | no halt or guest entry on top of an event; no lost #HV on a return path; handlers nest by priority; the stack is bounded; vectors are taken |
| `ipi` | 3 CPUs in 2 words, 6 workloads | a board is valid while it is read; the pending count is exact; `send_ipi()` implements `RemoteCall`, liveness included |
| `scheduler` | 2 CPUs, 3 workers, one a request loop, flushes by IPI | one CPU per stack; a task is known at exactly one place; dropped tasks are inactive; per-CPU mappings are right; no assertion fires |
| `scheduler_live` | 2 CPUs, 2 workers | tasks on a run queue run; affinity changes complete |
| `page_allocator` | heaps of 7, 9 and 10 pages, 3 orders | lists and counters exact; blocks tile the heap and have one owner; an aligned run of free pages can always be allocated; no panic |
| `irq_state_handler_tpr` | finding 1 | violated |
| `ipi_broadcast_repeat` | finding 2 | violated |
| `scheduler_flush` | finding 3 | violated |
| `page_allocator_boot` | finding 4 | violated |

### Bounds

- *Threads, CPUs.* Two contend; a third is needed for FIFO order among waiters,
  for a receiver that serves two senders, and for a cycle of senders.
- *Tickets* (`MaxTicket` 4) allow one more acquisition than threads, so a thread
  can return to the lock. The 64-bit counters do not wrap in practice.
- *Parts.* Two guards per context, so that a split guard is dropped in halves.
- *Guards and vectors.* Three guards suffice for a release out of order at equal
  and different levels; the vectors are one per priority class that matters:
  at a lock's level, between the levels, and the IPI vector.
- *CPU-set words* have 2 bits, so that three CPUs span two words.
- *Workloads.* One or two messages per CPU. Broadcasts appear alone in `ipi`,
  because finding 2 makes them fail beside other traffic.
- *Workers.* Two ordinary tasks make a terminated task, a migrating task and an
  idle CPU coincide; a request-loop task adds waiting for idle.
- *Heaps.* Page counts that are not powers of two, so that the last block has no
  buddy, with blocks before, in and after the aligned part and with pages in use
  at boot; three orders give two levels of
  splitting and merging. `MaxRefs` 2 distinguishes the last drop from others.

### Fairness

- *Locks.* A thread inside an operation keeps executing (weak fairness), and a
  guard is dropped eventually: in `SpinLock` by weak fairness of `Release`, in
  `RWLock` by strong fairness of giving up a context's last share, since a guard
  may be split again in between. No thread has to start an operation.
- *Interrupts.* A running context continues; a handler returns; the hardware
  delivers a vector that is deliverable again and again (strong fairness), since
  guards come and go. `IrqState` assumes that the task is without guards again
  and again, `HvDoorbell` that guards are dropped and that the task at TPR 0
  uses an `IrqGuard` again and again, as the idle loop and the scheduler do:
  `lower_tpr()` alone never looks at the doorbell.
- *IPIs.* A sender, being interrupted repeatedly, needs strong fairness.
- *Scheduler.* Tasks keep calling the scheduler. It is cooperative, so a task
  that computes for ever starves others by design.

### Deadlock

TLC's deadlock check is off where the system may stop: tickets or messages are
used up (`spinlock`, `ipi`, `ipi_broadcast_repeat`), or two CPUs wait as in
finding 3 (`scheduler`, `scheduler_flush`). It is on everywhere else.

## Findings

1. `irq_state_handler_tpr`: `lower_tpr()` recomputes TPR from the guard counts,
   and the interrupt handler raises TPR without counting. A `TprGuard` used in a
   handler therefore lowers TPR below the level of the interrupt being handled,
   contrary to the guard's documentation. No handler uses one today.
2. `ipi_broadcast_repeat`: a broadcast flags its targets before it stores their
   number in `pending`. A target still in its handler may acknowledge first; the
   store overwrites the decrement and the sender waits for ever.
3. `scheduler_flush`: a terminated task is dropped while the run queue's write
   guard has interrupts disabled. Dropping it flushes TLBs, which, where that
   means an IPI, waits for all CPUs; two CPUs doing so wait for each other.
4. `page_allocator_boot`: pages in use at boot are not counted in `nr_pages`.
   Freeing the boot parameters makes more pages free than there are in total.

## Proofs

`SpinLock_proofs` and `RWLock_proofs` hold the proofs; `tlapm` checks them
without unproved steps.

**SpinLock**, for any set of threads and any `MaxTicket`: `TypeCorrect`,
`Exclusion`, `Accounting` and `FirstComeFirstServed` (an action property: no
thread gets the lock before one that drew its ticket earlier). Exclusion is not
inductive, because a release could serve a ticket that two threads hold. The
invariant `IInv` adds that outstanding tickets are distinct and lie in
[holder, current), that a locked thread's ticket is `holder`, and that what
`try_lock()` has loaded is not ahead of `current`; then a successful
compare-exchange means that nobody is queued.

**RWLock**, for finite sets of threads and parts: `TypeCorrect` (no drop takes
half of the counter below zero), `Exclusive`, `ExactCounts` and
`AssertionHolds` (the `assert!` in `lock_write()`). `IInv` combines these with
`Ownership`, which says at which steps of an operation a thread owns shares.
Each half of the counter is the cardinality of a set of shares, so a
compare-exchange that finds no writer knows that there is no write share. One
lemma per action shows that it is preserved.

Assumptions on constants: `MaxTicket` is a natural number, `NoThread` is no
thread, threads and parts are finite. Liveness, the two refinements, and the
invariants of the other modules are model-checked only: liveness under fairness
and ENABLED are out of the prover's reach.

## Plan

In order. Each module is one action per handler, with data abstracted, and
joins a run with neighbours rather than adding one where it can.

1. *Guest side.* `VmsaRegistry` (CREATE_VCPU, DELETE_VCPU, REMAP_CA, PVALIDATE,
   generation counters, guest entry; two CPUs, two pages; abstract
   specification: a page is a VMSA of at most one CPU and not accessible to the
   guest meanwhile) and `GuestApic` (IRR, ISR stack, lazy EOI, hand-off; a guest
   and a host as environment; abstract specification: a prioritised set of
   pending interrupts).
2. *Memory.* `Shootdown` (global ranges, FLUSH_SMP, CPUs coming online, over
   `RemoteCall`), `PageVisibility` with failing steps, `VirtualRange` with
   rollback, `PageTable` with splitting of huge pages (refining a function from
   addresses to frames), and `Slab` on `PageAllocator`'s operators.
3. *Services.* `GuestRequest` (sequence numbers and resends), `RamFs` with
   handles and concurrent removal, `VirtQueue` and `VsockConnections` with a
   device as environment, `BitmapAllocator` against a reference definition.
4. *Proofs.* The counts and masking of `IrqState`; `BoardStable` and
   `PendingExact` of `Ipi` for listed targets, and its steps as steps of
   `RemoteCall`; `SpinLock` implements `FifoLock` (safety);
   `NeverLostNorTwice` and `StackExclusive` of `Scheduler`; the registry's
   exclusivity.

Hazards that wait for these modules are in `PROJECT.json` with a note. Further
ones to take up with them:

- `locking/rwlock.rs:400`: a second read guard taken by a context while a writer
  waits for its first one; whether callers do so is a question about callers.
- `cpu/idt/svsm_entry.S:249`: the restart path of the #HV entry loads the
  interrupted rax before it is compared, as RIP, with the HLT instruction.
- `svsm.rs:464`: the boot stack is freed by an address that may be outside the
  heap's range, which `free_page()` ignores.
- `mm/page_visibility.rs:40`: the order of invalidation, page state change, page
  table update and flush, and failures half way.
- `protocols/core.rs:186`, `:419`, `cpu/percpu.rs:1035`, `vmm/execloop.rs:103`:
  DELETE_VCPU waiting for the guest to stop, resumption of PVALIDATE, a failed
  remapping, and guest entry with interrupts disabled.
- `cpu/apic.rs:163`: hand-back of an interrupt that was queued and not taken.
- `fs/filesystem.rs:105`, `:760`: positions behind a truncated end; removal of a
  directory under three lock acquisitions.
- `vsock/stream.rs:73`, `virtio-drivers/src/queue.rs:353`, `:416`: port choice,
  wrap-around of the ring index, and the descriptor free list.
- `cpu/ipi.rs:627`: `wait_for_ipi_block()` waits for every CPU.

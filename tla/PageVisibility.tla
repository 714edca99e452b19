--------------------------- MODULE PageVisibility ---------------------------
(***************************************************************************)
(* Pages shared with the host: make_page_shared() and make_page_private()  *)
(* of kernel/src/mm/page_visibility.rs, SharedBox on top of them, and the  *)
(* store of shared pages that the virtio HAL keeps (kernel/src/virtio/     *)
(* hal.rs).  The pages lie in one 2MiB region of the heap, mapped by a     *)
(* huge entry until a page of it is shared for the first time.  That part  *)
(* of the page tables is common to all CPUs, while the lock that           *)
(* get_pgtable() takes belongs to one CPU.                                 *)
(*                                                                         *)
(* One action is one access to state that another CPU, the host or the     *)
(* TLBs can see.                                                           *)
(***************************************************************************)
EXTENDS Integers, FiniteSets

CONSTANTS
    Cpus,
    Sharers,        \* CPUs that create boxes; any CPU may drop one
    Pages,          \* an interval: the pages of the region
    BoxPages,       \* sizes of the types put in a SharedBox, in pages
    Dropped         \* sizes of the boxes that are ever dropped: those of the virtio HAL
                    \* have one page, the larger one of the guest request driver stays

None == "none"
NoOp == [pc |-> "idle", to |-> "", pages |-> {}, at |-> 0, last |-> 0, why |-> "", wait |-> {}]

VARIABLES
    pmd,        \* the entry of the region: huge, or the 4KiB entries below it
    rmp,        \* of each page: assigned to the guest or shared, and validated
    bitmap,     \* the valid bitmap: pages the SVSM holds for validated
    tlb,        \* what each CPU has cached of the mapping of each page
    free,       \* pages in the hands of the page allocator
    boxes,      \* SHARED_MEM: the pages of each SharedBox in the store
    lock,       \* the CPU that holds SHARED_MEM's lock
    refused,    \* pages for which the host refused a page state change
    op          \* of each CPU, the box it is creating or dropping, and how far

visVars == <<pmd, rmp, bitmap, tlb, free, boxes, lock, refused, op>>

AllPrivate == [p \in Pages |-> "private"]

VisInit ==
    /\ pmd = [huge |-> TRUE, pte |-> AllPrivate]
    /\ rmp = [p \in Pages |-> [shared |-> FALSE, validated |-> TRUE]]
    /\ bitmap = Pages
    /\ tlb = [c \in Cpus |-> [p \in Pages |-> None]]
    /\ free = Pages
    /\ boxes = {}
    /\ lock = None
    /\ refused = {}
    /\ op = [c \in Cpus |-> NoOp]

\* What the page tables say of page p
Entry(p) == pmd.pte[p]
First(S) == CHOOSE p \in S : \A q \in S : p <= q

At(c, pc, to) == op[c].pc = pc /\ op[c].to = to
Goto(c, pc) == op' = [op EXCEPT ![c].pc = pc]
GotoFlush(c, pc) == op' = [op EXCEPT ![c].pc = pc, ![c].wait = Cpus]
Flushed(c) == op[c].wait = {}

\* make_page_private() for the pages up to last, when all of pages are to be freed
MakePrivate(c, pages, last, why) ==
    op' = [op EXCEPT ![c] = [pc |-> "walk", to |-> "private", pages |-> pages, at |-> First(pages),
                             last |-> last, why |-> why, wait |-> {}]]

-----------------------------------------------------------------------------
(* SharedBox::try_new_zeroed() and its store.                              *)

\* PageBox::try_new_zeroed(): pages of the allocator, next to each other
try_new_zeroed(c) ==
    \E n \in BoxPages, p \in Pages :
        /\ op[c] = NoOp /\ c \in Sharers
        /\ p..(p + n - 1) \subseteq free
        /\ free' = free \ (p..(p + n - 1))
        /\ op' = [op EXCEPT ![c] = [pc |-> "invalidate", to |-> "shared", pages |-> p..(p + n - 1),
                                    at |-> p, last |-> p + n - 1, why |-> "new", wait |-> {}]]
        /\ UNCHANGED <<pmd, rmp, bitmap, tlb, boxes, lock, refused>>

\* The error path: the pages already shared are made private, then all are freed
Rollback(c) ==
    IF op[c].at = First(op[c].pages)
    THEN /\ free' = free \union op[c].pages
         /\ op' = [op EXCEPT ![c] = NoOp]
    ELSE MakePrivate(c, op[c].pages, op[c].at - 1, "undo") /\ UNCHANGED free

\* PageStore::push() under the lock of SHARED_MEM: the box is in use
push(c) ==
    /\ At(c, "push", "shared") /\ lock = None
    /\ boxes' = boxes \union {op[c].pages}
    /\ op' = [op EXCEPT ![c] = NoOp]
    /\ UNCHANGED <<pmd, rmp, bitmap, tlb, free, lock, refused>>

-----------------------------------------------------------------------------
(* set_shared_4k() and set_encrypted_4k(), with the flush that follows.    *)

\* split_4k() looks at the entry of the region, and splits it when it is huge
Walk(c) ==
    /\ op[c].pc = "walk"
    /\ Goto(c, IF pmd.huge THEN "split" ELSE "entry")
    /\ UNCHANGED <<pmd, rmp, bitmap, tlb, free, boxes, lock, refused>>

Panic(c) == op' = [op EXCEPT ![c] = [NoOp EXCEPT !.pc = "panic"]]

\* do_split_4k() asserts that the entry is huge, then builds a table of private
\* entries; that a page for the table is always to be had is an assumption
SplitCheck(c) ==
    /\ op[c].pc = "split"
    /\ IF pmd.huge THEN Goto(c, "install") ELSE Panic(c)
    /\ UNCHANGED <<pmd, rmp, bitmap, tlb, free, boxes, lock, refused>>

\* The table replaces what the entry of the region holds by now, and every TLB is
\* flushed
do_split_4k(c) ==
    /\ op[c].pc = "install"
    /\ pmd' = [huge |-> FALSE, pte |-> AllPrivate]
    /\ GotoFlush(c, "split_wait")
    /\ UNCHANGED <<rmp, bitmap, tlb, free, boxes, lock, refused>>

SplitFlushed(c) ==
    /\ op[c].pc = "split_wait" /\ Flushed(c)
    /\ Goto(c, "entry")
    /\ UNCHANGED <<pmd, rmp, bitmap, tlb, free, boxes, lock, refused>>

\* make_pte_shared() and make_pte_private()
make_pte(c) ==
    /\ op[c].pc = "entry"
    /\ pmd' = [pmd EXCEPT !.pte[op[c].at] = op[c].to]
    /\ GotoFlush(c, "wait")
    /\ UNCHANGED <<rmp, bitmap, tlb, free, boxes, lock, refused>>

\* flush_percpu() on CPU d, for a flush that another CPU waits for
flush_percpu(d) ==
    \E c \in Cpus :
        /\ d \in op[c].wait
        /\ op' = [op EXCEPT ![c].wait = @ \ {d}]
        /\ tlb' = IF op[c].pc = "wait" THEN [tlb EXCEPT ![d][op[c].at] = None]
                  ELSE [tlb EXCEPT ![d] = [p \in Pages |-> None]]
        /\ UNCHANGED <<pmd, rmp, bitmap, free, boxes, lock, refused>>

-----------------------------------------------------------------------------
(* make_page_shared().                                                     *)

Invalidate(c) ==
    /\ op[c].pc = "invalidate"
    /\ rmp' = [rmp EXCEPT ![op[c].at].validated = FALSE]
    /\ bitmap' = bitmap \ {op[c].at}
    /\ Goto(c, "psc")
    /\ UNCHANGED <<pmd, tlb, free, boxes, lock, refused>>

\* The host answers a page state change with an error
Refuse(c) == refused' = refused \union {op[c].at}

PscShared(c) ==
    /\ At(c, "psc", "shared")
    /\ \/ /\ rmp' = [rmp EXCEPT ![op[c].at].shared = TRUE]
          /\ Goto(c, "walk")
          /\ UNCHANGED <<free, refused>>
       \/ Rollback(c) /\ Refuse(c) /\ UNCHANGED rmp
    /\ UNCHANGED <<pmd, bitmap, tlb, boxes, lock>>


SharedFlushed(c) ==
    /\ At(c, "wait", "shared") /\ Flushed(c)
    /\ op' = [op EXCEPT ![c].at = IF @ = op[c].last THEN @ ELSE @ + 1,
                        ![c].pc = IF op[c].at = op[c].last THEN "push" ELSE "invalidate"]
    /\ UNCHANGED <<pmd, rmp, bitmap, tlb, free, boxes, lock, refused>>

-----------------------------------------------------------------------------
(* make_page_private(), and SharedBox::drop().                             *)


PrivateFlushed(c) ==
    /\ At(c, "wait", "private") /\ Flushed(c)
    /\ Goto(c, "psc")
    /\ UNCHANGED <<pmd, rmp, bitmap, tlb, free, boxes, lock, refused>>

Unlocked(c) == lock' = IF lock = c THEN None ELSE lock

\* When the host refuses, SharedBox::drop() leaks the pages and the error path of
\* try_new_zeroed() panics
PscPrivate(c) ==
    /\ At(c, "psc", "private")
    /\ \/ /\ rmp' = [rmp EXCEPT ![op[c].at].shared = FALSE]
          /\ Goto(c, "validate")
          /\ UNCHANGED <<lock, refused>>
       \/ /\ Refuse(c)
          /\ IF op[c].why = "drop" THEN op' = [op EXCEPT ![c] = NoOp] ELSE Panic(c)
          /\ Unlocked(c)
          /\ UNCHANGED rmp
    /\ UNCHANGED <<pmd, bitmap, tlb, free, boxes>>

Validate(c) ==
    /\ op[c].pc = "validate"
    /\ rmp' = [rmp EXCEPT ![op[c].at].validated = TRUE]
    /\ bitmap' = bitmap \union {op[c].at}
    /\ IF op[c].at = op[c].last
       THEN /\ free' = free \union op[c].pages
            /\ op' = [op EXCEPT ![c] = NoOp]
            /\ Unlocked(c)
       ELSE /\ op' = [op EXCEPT ![c].at = @ + 1, ![c].pc = "walk"]
            /\ UNCHANGED <<free, lock>>
    /\ UNCHANGED <<pmd, tlb, boxes, refused>>

\* SharedBox::drop() makes private the pages within the size of the SharedBox
\* itself, a pointer, and frees those of the value
LastDropped(box) == First(box)

\* SvsmHal::unshare() and dma_dealloc(): the box leaves the store, and is dropped
\* while the lock is still held
unshare(c) ==
    \E box \in boxes :
        /\ op[c] = NoOp /\ lock = None /\ Cardinality(box) \in Dropped
        /\ lock' = c
        /\ boxes' = boxes \ {box}
        /\ MakePrivate(c, box, LastDropped(box), "drop")
        /\ UNCHANGED <<pmd, rmp, bitmap, tlb, free, refused>>

\* A CPU may cache what the page tables say of any page at any time
TlbFill(d) ==
    \E p \in Pages :
        /\ tlb' = [tlb EXCEPT ![d][p] = Entry(p)]
        /\ UNCHANGED <<pmd, rmp, bitmap, free, boxes, lock, refused, op>>

VisNext ==
    \E c \in Cpus :
        \/ try_new_zeroed(c) \/ push(c) \/ unshare(c)
        \/ Invalidate(c) \/ PscShared(c) \/ Walk(c) \/ SplitCheck(c) \/ do_split_4k(c) \/ make_pte(c)
        \/ SplitFlushed(c) \/ SharedFlushed(c)
        \/ PrivateFlushed(c) \/ PscPrivate(c) \/ Validate(c)
        \/ flush_percpu(c) \/ TlbFill(c)

VisSpec == VisInit /\ [][VisNext]_visVars

-----------------------------------------------------------------------------


=============================================================================

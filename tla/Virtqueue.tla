------------------------------ MODULE Virtqueue ------------------------------
(***************************************************************************)
(* A split virtqueue (virtio-drivers/src/queue.rs) between a driver and    *)
(* the device: descriptors on a free list, the available and the used ring *)
(* with their wrapping 16-bit indices, direct and indirect chains, and the *)
(* suppression of notifications.  Three clients use it: the block driver's *)
(* blocking requests (device/blk.rs under block/virtio_blk.rs), its non-   *)
(* blocking ones, and the receive queue that owns its buffers              *)
(* (queue/owning.rs).                                                      *)
(*                                                                         *)
(* The device is part of the environment: it takes chains in order,        *)
(* completes them in any order, and goes to sleep when it finds the        *)
(* available ring empty after having asked for notifications again.        *)
(***************************************************************************)
EXTENDS Naturals, Sequences, FiniteSets, FiniteSetsExt, SequencesExt

CONSTANTS
    QueueSize,          \* for each kind of client, of "blk", "nb", "owning", its queue's SIZE
    U16,                \* 2^16 in the code, a multiple of every SIZE
    MaxOutstanding,     \* bound on the requests of the "nb" client in flight
    BlkCalls, NbCalls,  \* the calls made: [op, block, n] of sectors, and operations
    Sectors,            \* sectors of the disk: 0..Sectors-1
    PageSectors         \* PAGE_SIZE / SECTOR_SIZE

VARIABLES
    queue,              \* the driver's VirtQueue
    ring,               \* memory shared with the device: desc, avail, used
    dev,                \* the device
    client,             \* the driver's client: kind, step, what it waits for
    disk                \* contents of the disk

vqVars == <<queue, ring, dev, client, disk>>

SIZE == QueueSize[client.kind]
Index == 0..(SIZE - 1)
Written == 0
NoDesc == [next |-> 0, flags |-> {}, buf |-> "none"]

\* A call of the block driver: the sectors asked for, those done, the data read
NoCall == [op |-> "none", block |-> 0, n |-> 0, done |-> 0, buf |-> <<>>, ok |-> TRUE]

VqInit ==
    /\ \E k \in DOMAIN QueueSize :
         client = [kind |-> k, pc |-> "begin", waits |-> {}, token |-> 0, head |-> 0, call |-> NoCall]
    /\ queue = [free_head |-> 0, num_used |-> 0, shadow |-> [i \in Index |-> NoDesc],
                avail_idx |-> 0, last_used_idx |-> 0, event_idx |-> FALSE, indirect |-> FALSE,
                lists |-> [i \in Index |-> <<>>]]
    /\ ring = [desc |-> [i \in Index |-> NoDesc],
               avail |-> [idx |-> 0, ring |-> [i \in Index |-> 0], flags |-> 0, used_event |-> 0],
               used |-> [idx |-> 0, ring |-> [i \in Index |-> 0], flags |-> 0, avail_event |-> 0]]
    /\ \E f \in SUBSET {"INDIRECT", "EVENT_IDX"} :
         dev = [status |-> {}, features |-> f, negotiated |-> {}, ready |-> FALSE,
                seen |-> 0, working |-> {}, awake |-> FALSE, kicked |-> FALSE, asked |-> FALSE]
    /\ disk = [s \in 0..(Sectors - 1) |-> s + 1]

-----------------------------------------------------------------------------
(* Transport::begin_init, VirtQueue::new, finish_init                      *)

begin_init ==
    /\ client.pc = "begin"
    /\ dev' = [dev EXCEPT !.status = {"ACKNOWLEDGE", "DRIVER", "FEATURES_OK"},
                          !.negotiated = dev.features \cap {"INDIRECT", "EVENT_IDX"}]
    /\ client' = [client EXCEPT !.pc = "queue"]
    /\ UNCHANGED <<queue, ring, disk>>

\* queue_set, and the free list through all descriptors
VirtQueueNew ==
    LET linked == [i \in Index |-> [NoDesc EXCEPT !.next = IF i < SIZE - 1 THEN i + 1 ELSE 0]]
    IN  /\ client.pc = "queue" /\ ~dev.ready
        /\ queue' = [queue EXCEPT !.shadow = linked, !.event_idx = "EVENT_IDX" \in dev.negotiated,
                                  !.indirect = "INDIRECT" \in dev.negotiated]
        /\ ring' = [ring EXCEPT !.desc = linked]
        /\ dev' = [dev EXCEPT !.ready = TRUE]
        /\ client' = [client EXCEPT !.pc = "finish"]
        /\ UNCHANGED disk

finish_init ==
    /\ client.pc = "finish"
    /\ dev' = [dev EXCEPT !.status = @ \cup {"DRIVER_OK"}]
    /\ client' = [client EXCEPT !.pc = IF client.kind = "owning" THEN "fill" ELSE "idle"]
    /\ UNCHANGED <<queue, ring, disk>>

-----------------------------------------------------------------------------
(* The queue                                                               *)

\* The condition on which add() does not report QueueFull
Fits(q, n) == q.num_used + 1 <= SIZE /\ n <= SIZE /\ (q.indirect \/ q.num_used + n <= SIZE)

SetBuf(d, b, extra) ==
    [d EXCEPT !.buf = b.buf, !.flags = extra \cup (IF b.write THEN {"WRITE"} ELSE {})]

\* add_direct: take a descriptor of the free list for each buffer of the chain
RECURSIVE DirectLoop(_, _, _)
DirectLoop(q, bufs, last) ==
    IF bufs = <<>>
      THEN [q EXCEPT !.shadow[last].flags = @ \ {"NEXT"}]
      ELSE DirectLoop([q EXCEPT !.shadow[q.free_head] = SetBuf(@, Head(bufs), {"NEXT"}),
                                !.free_head = q.shadow[q.free_head].next],
                      Tail(bufs), q.free_head)

add_direct(q, bufs) ==
    [DirectLoop(q, bufs, q.free_head) EXCEPT !.num_used = @ + Len(bufs)]

\* add_indirect: one descriptor that points to a list of its own
add_indirect(q, bufs) ==
    [q EXCEPT !.lists[q.free_head] = bufs,
              !.free_head = q.shadow[q.free_head].next,
              !.shadow[q.free_head] = [@ EXCEPT !.flags = {"INDIRECT"}, !.buf = "list"],
              !.num_used = @ + 1]

AddChain(q, bufs) ==
    IF q.indirect /\ Len(bufs) > 1 THEN add_indirect(q, bufs) ELSE add_direct(q, bufs)

\* The first half of add(): descriptors and the slot of the available ring; the
\* device does not look at them before the index says so
Offer(bufs) ==
    LET q == AddChain(queue, bufs)
    IN  /\ queue' = q
        /\ ring' = [ring EXCEPT !.desc = [i \in Index |-> IF q.shadow[i] # queue.shadow[i]
                                                            THEN q.shadow[i] ELSE @[i]],
                                !.avail.ring[queue.avail_idx % SIZE] = queue.free_head]

\* The second half, behind the fence
Publish ==
    /\ queue' = [queue EXCEPT !.avail_idx = (@ + 1) % U16]
    /\ ring' = [ring EXCEPT !.avail.idx = queue'.avail_idx]

should_notify_above ==
    IF queue.event_idx THEN queue.avail_idx > (ring.used.avail_event + 1) % U16
    ELSE ring.used.flags = 0

should_notify ==
    IF queue.event_idx THEN queue.avail_idx >= (ring.used.avail_event + 1) % U16
    ELSE ring.used.flags = 0

NotifyIfWanted == dev' = [dev EXCEPT !.kicked = @ \/ should_notify]

can_pop == queue.last_used_idx # ring.used.idx
peek_used == ring.used.ring[queue.last_used_idx % SIZE]

\* recycle_descriptors for a direct chain of n buffers: they go to the front of
\* the free list, the last one links to what was its head
RECURSIVE RecycleLoop(_, _, _, _)
RecycleLoop(q, at, n, original_free_head) ==
    LET d == q.shadow[at]
        more == "NEXT" \in d.flags
        r == [q EXCEPT !.shadow[at] = [d EXCEPT !.buf = "none",
                                                !.next = IF more THEN @ ELSE original_free_head],
                       !.num_used = @ - 1]
    IN  IF n = 1 THEN r ELSE RecycleLoop(r, d.next, n - 1, original_free_head)

\* Like recycle_descriptors below, but an indirect chain replaces the free list
recycle_forgetting(q, head, n) ==
    IF "INDIRECT" \in q.shadow[head].flags
      THEN [q EXCEPT !.free_head = head, !.lists[head] = <<>>, !.num_used = @ - 1,
                     !.shadow[head] = [@ EXCEPT !.buf = "none"]]
      ELSE [RecycleLoop(q, head, n, q.free_head) EXCEPT !.free_head = head]

recycle_descriptors(q, head, n) ==
    IF "INDIRECT" \in q.shadow[head].flags
      THEN [q EXCEPT !.free_head = head, !.lists[head] = <<>>, !.num_used = @ - 1,
                     !.shadow[head] = [@ EXCEPT !.buf = "none", !.next = q.free_head]]
      ELSE [RecycleLoop(q, head, n, q.free_head) EXCEPT !.free_head = head]

\* pop_used of a token that is next on the used ring
pop_used(token, n) ==
    /\ can_pop /\ peek_used = token
    /\ LET q == recycle_descriptors(queue, token, n)
           last == (queue.last_used_idx + 1) % U16
       IN  /\ queue' = [q EXCEPT !.last_used_idx = last]
           /\ ring' = [ring EXCEPT
                !.desc = IF "INDIRECT" \in queue.shadow[token].flags THEN @
                         ELSE [i \in Index |-> IF q.shadow[i] # queue.shadow[i]
                                                 THEN q.shadow[i] ELSE @[i]],
                !.avail.used_event = IF queue.event_idx THEN last ELSE @]

-----------------------------------------------------------------------------
(* The clients: each adds a chain in two steps, then notifies               *)

In(b) == [buf |-> b, write |-> FALSE]
Out(b) == [buf |-> b, write |-> TRUE]

OfferAs(bufs, next) ==
    /\ Fits(queue, Len(bufs)) /\ Offer(bufs)
    /\ client' = [client EXCEPT !.pc = next, !.head = queue.free_head,
                                !.waits = @ \cup {[token |-> queue.free_head, bufs |-> bufs]}]
    /\ UNCHANGED <<dev, disk>>

PublishThen(pc, next) ==
    /\ client.pc = pc /\ Publish
    /\ client' = [client EXCEPT !.pc = next]
    /\ UNCHANGED <<dev, disk>>

NotifyThen(pc, next) ==
    /\ client.pc = pc /\ NotifyIfWanted
    /\ client' = [client EXCEPT !.pc = next, !.head = 0, !.token = 0]
    /\ UNCHANGED <<queue, ring, disk>>

PopThen(w, next) ==
    /\ pop_used(w.token, Len(w.bufs))
    /\ client' = [client EXCEPT !.pc = next, !.token = IF next = "refill" THEN w.token ELSE 0,
                                !.waits = @ \ {w}]
    /\ UNCHANGED <<dev, disk>>

\* OwningQueue::new puts SIZE buffers in the queue before the first notification,
\* poll() takes one out, hands it to the handler and puts it back.
OwningQueueNew ==
    \/ client.pc = "fill" /\ OfferAs(<<Out("rx")>>, "fill publish")
    \/ PublishThen("fill publish", IF Cardinality(client.waits) = SIZE THEN "fill notify" ELSE "fill")
    \/ NotifyThen("fill notify", "idle")

OwningPop ==
    /\ client.kind = "owning" /\ client.pc = "idle"
    /\ \E w \in client.waits : PopThen(w, "refill")

add_buffer_to_queue ==
    \/ client.pc = "refill" /\ OfferAs(<<Out("rx")>>, "refill publish")
    \/ PublishThen("refill publish", "refill notify")
    \/ NotifyThen("refill notify", "idle")

\* The chains of request_read, request_write and request
RequestBuffers(op) ==
    CASE op = "in" -> <<In("req"), Out("data"), Out("resp")>>
      [] op = "out" -> <<In("req"), In("data"), Out("resp")>>
      [] OTHER -> <<In("req"), Out("resp")>>

\* read_blocks_nb, write_blocks_nb and their completion
BlocksNb ==
    \/ client.kind = "nb" /\ client.pc = "idle" /\ Cardinality(client.waits) < MaxOutstanding
         /\ \E op \in NbCalls : OfferAs(RequestBuffers(op), "nb publish")
    \/ PublishThen("nb publish", "nb notify")
    \/ NotifyThen("nb notify", "idle")

CompleteBlocks ==
    /\ client.kind = "nb" /\ client.pc = "idle"
    /\ \E w \in client.waits : PopThen(w, "idle")

\* VirtIOBlkDriver: the buffer in chunks of a page, each a request of its own
Call ==
    /\ client.kind = "blk" /\ client.pc = "idle"
    /\ \E c \in BlkCalls :
         client' = [client EXCEPT !.pc = "request",
                      !.call = [NoCall EXCEPT !.op = c.op, !.block = c.block, !.n = c.n]]
    /\ UNCHANGED <<queue, ring, dev, disk>>

Chunk(c) == Min({PageSectors, c.n - c.done})
PositionByChunk(c) == c.block + c.done \div PageSectors
Position(c) == c.block + (c.done \div PageSectors) * PageSectors

Request ==
    /\ client.pc = "request"
    /\ OfferAs(RequestBuffers(client.call.op), "request publish")

\* add_notify_wait_pop behind the addition
NotifyWaitPop ==
    \/ PublishThen("request publish", "request notify")
    \/ NotifyThen("request notify", "wait")
    \/ client.pc = "wait" /\ \E w \in client.waits : PopThen(w, "response")

Response ==
    LET c == client.call
        done == IF c.op = "flush" THEN c.n ELSE c.done + Chunk(c)
    IN  /\ client.pc = "response"
        /\ client' = IF c.ok THEN [client EXCEPT !.call.done = done,
                                   !.pc = IF done = c.n THEN "return" ELSE "request"]
                     ELSE [client EXCEPT !.pc = "return"]
        /\ UNCHANGED <<queue, ring, dev, disk>>

Return ==
    /\ client.pc = "return"
    /\ client' = [client EXCEPT !.pc = "idle", !.call = NoCall]
    /\ UNCHANGED <<queue, ring, dev, disk>>

-----------------------------------------------------------------------------
(* The device                                                              *)

\* The chain that starts at a descriptor, as the device reads it
RECURSIVE DeviceChain(_, _)
DeviceChain(head, n) ==
    LET d == ring.desc[head]
        b == [buf |-> d.buf, write |-> "WRITE" \in d.flags]
    IN  IF "INDIRECT" \in d.flags THEN queue.lists[head]
        ELSE IF n > 1 /\ "NEXT" \in d.flags THEN <<b>> \o DeviceChain(d.next, n - 1) ELSE <<b>>

Suppress(quiet) ==
    ring' = IF "EVENT_IDX" \in dev.negotiated
              THEN [ring EXCEPT !.used.avail_event = IF quiet THEN @ ELSE dev.seen]
              ELSE [ring EXCEPT !.used.flags = IF quiet THEN 1 ELSE 0]

DeviceWake ==
    /\ dev.kicked /\ ~dev.awake /\ "DRIVER_OK" \in dev.status
    /\ dev' = [dev EXCEPT !.kicked = FALSE, !.awake = TRUE, !.asked = FALSE]
    /\ Suppress(TRUE) /\ UNCHANGED <<queue, client, disk>>

DeviceTake ==
    /\ dev.awake /\ dev.seen # ring.avail.idx
    /\ LET head == ring.avail.ring[dev.seen % SIZE]
       IN  dev' = [dev EXCEPT !.seen = (@ + 1) % U16, !.asked = FALSE,
                              !.working = @ \cup {[token |-> head, bufs |-> DeviceChain(head, SIZE)]}]
    /\ Suppress(TRUE) /\ UNCHANGED <<queue, client, disk>>

DeviceComplete ==
    \E w \in dev.working, ok \in BOOLEAN :
      LET c == client.call
          span == Position(c)..(Position(c) + Chunk(c) - 1)
          moved == client.kind = "blk" /\ ok
      IN  /\ client.kind # "blk" => ok
          /\ dev' = [dev EXCEPT !.working = @ \ {w}]
          /\ ring' = [ring EXCEPT !.used.ring[ring.used.idx % SIZE] = w.token,
                                  !.used.idx = (@ + 1) % U16]
          /\ client' = IF client.kind = "blk"
                          THEN [client EXCEPT !.call.ok = ok, !.call.buf =
                                 IF ok /\ c.op = "in"
                                   THEN @ \o [i \in 1..Chunk(c) |-> disk[Position(c) + i - 1]] ELSE @]
                          ELSE client
          /\ disk' = IF moved /\ c.op = "out"
                       THEN [s \in DOMAIN disk |-> IF s \in span THEN Written ELSE disk[s]]
                       ELSE disk
          /\ UNCHANGED queue

\* Ask for notifications, then look at the ring once more before sleeping.
DeviceAsk ==
    /\ dev.awake /\ dev.seen = ring.avail.idx /\ ~dev.asked
    /\ dev' = [dev EXCEPT !.asked = TRUE]
    /\ Suppress(FALSE) /\ UNCHANGED <<queue, client, disk>>

DeviceSleep ==
    /\ dev.awake /\ dev.seen = ring.avail.idx /\ dev.asked
    /\ dev' = [dev EXCEPT !.awake = FALSE]
    /\ UNCHANGED <<queue, ring, client, disk>>

-----------------------------------------------------------------------------
VqNext ==
    \/ begin_init \/ VirtQueueNew \/ finish_init
    \/ OwningQueueNew \/ OwningPop \/ add_buffer_to_queue
    \/ BlocksNb \/ CompleteBlocks
    \/ Call \/ Request \/ NotifyWaitPop \/ Response \/ Return
    \/ DeviceWake \/ DeviceTake \/ DeviceComplete \/ DeviceAsk \/ DeviceSleep

VqSpec == VqInit /\ [][VqNext]_vqVars

-----------------------------------------------------------------------------
RECURSIVE FreeChain(_, _)
FreeChain(at, n) == IF n = 0 THEN <<>> ELSE <<at>> \o FreeChain(queue.shadow[at].next, n - 1)

RECURSIVE ChainOf(_, _)
ChainOf(head, n) ==
    IF n > 1 /\ "INDIRECT" \notin queue.shadow[head].flags
      THEN <<head>> \o ChainOf(queue.shadow[head].next, n - 1) ELSE <<head>>

\* Every descriptor is on the free list or in exactly one chain handed to the
\* device, whatever the order in which chains were completed and recycled; of a
\* chain the device holds it reads the buffers that add() was given; and a buffer
\* put back into the receive queue gets the token it had, the index under which
\* OwningQueue finds it (the assertions of owning.rs).
DescriptorsOwnedOnce ==
    client.pc \notin {"begin", "queue"} =>
        LET free == FreeChain(queue.free_head, SIZE - queue.num_used)
            chains == {ChainOf(w.token, Len(w.bufs)) : w \in client.waits}
            all == free \o FoldSet(LAMBDA c, acc : c \o acc, <<>>, chains)
        IN  /\ Len(all) = SIZE /\ ToSet(all) = Index
            /\ dev.working \subseteq client.waits
            /\ client.pc = "refill publish" => client.head = client.token
            /\ client.pc = "fill publish" => client.head = Cardinality(client.waits) - 1

\* A driver that waits for the device, or has nothing to do, is not waiting for
\* one that sleeps with a published chain unseen: should_notify() never holds
\* back the notification the device needs, also when the indices wrap.
NoLostKick ==
    client.pc \in {"idle", "wait"} /\ dev.seen # ring.avail.idx => dev.awake \/ dev.kicked

\* A read or a write of the block device that succeeds moved every sector asked
\* for, from or to its own place, although it went in chunks of a page.
BlocksMoved ==
    LET c == client.call
    IN  client.pc = "return" /\ c.ok =>
          /\ c.op = "in" => c.buf = [i \in 1..c.n |-> disk[c.block + i - 1]]
          /\ c.op = "out" => \A i \in 0..(c.n - 1) : disk[c.block + i] = Written
=============================================================================

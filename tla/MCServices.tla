----------------------------- MODULE MCServices -----------------------------
(***************************************************************************)
(* One run for the models of the drivers and services above the memory     *)
(* management: virtqueues and their clients, vsock streams, the directory  *)
(* tree and the files of the RAM file system.  A behaviour is one of the   *)
(* model that part names; the variables of the others stay 0.              *)
(***************************************************************************)
EXTENDS Integers, Sequences, FiniteSets

CONSTANTS Parts, TreeCalls, Limits, Nodes

VARIABLES
    part,
    queue, ring, dev, client, disk,
    first_free_port, device, stream, connections, rx, host,
    node, thread,
    rawfile, handle, ref, unspec

\* A blocking client moves requests of three sectors, one page and a half; the
\* two others keep several requests in flight.
Vq == INSTANCE Virtqueue
        WITH QueueSize <- [k \in {"blk", "nb", "owning"} |-> IF k = "owning" THEN 2 ELSE 4],
             BlkCalls <- {[op |-> "in", block |-> 1, n |-> 3], [op |-> "out", block |-> 1, n |-> 3],
                          [op |-> "flush", block |-> 0, n |-> 1]},
             NbCalls <- {"in"}, MaxOutstanding <- 2, U16 <- 8, Sectors <- 4, PageSectors <- 2

Traffic(received, sent, asks) == [bytes |-> received, sends |-> sent, asks |-> asks]

\* Enough bytes to fill a buffer and wrap a counter, in either direction, with a
\* second connection beside; and a request for credit.
MCLimits ==
    {<<Traffic(3, 0, 0), Traffic(1, 0, 0)>>, <<Traffic(1, 4, 0), Traffic(0, 0, 0)>>,
     <<Traffic(2, 0, 1), Traffic(0, 0, 0)>>}
NoBytes == {<<Traffic(0, 0, 0), Traffic(0, 0, 0)>>}

Vs == INSTANCE Vsock
        WITH Streams <- {"s", "t"}, VSOCK_MIN_PORT <- 1, VMADDR_PORT_ANY <- 3,
             MAX_RETRIES <- 2, Capacity <- 2, U32 <- 4, QUEUE_SIZE <- 2

Call(name, path) == [op |-> name, path |-> path]

MCCalls ==
    {Call("mkdir", <<"d">>), Call("rmdir", <<"d">>), Call("create_all", <<"d", "f">>),
     Call("unlink", <<"d", "f">>), Call("open", <<"d", "f">>)}
\* A file is unlinked while a directory takes its name.
ReplaceCalls ==
    {Call("mkdir", <<"d">>), Call("create", <<"d">>), Call("unlink", <<"d">>),
     Call("create", <<"d", "f">>)}

Ft == INSTANCE FileTree
        WITH Threads <- {"t1", "t2", "t3"}, Root <- 0, Calls <- TreeCalls

Rf == INSTANCE RamFile
        WITH Handles <- {"h1", "h2"}, PAGE_SIZE <- 2, MaxSize <- 3, Bytes <- {1}

vqVars == <<queue, ring, dev, client, disk>>
vsockVars == <<first_free_port, device, stream, connections, rx, host>>
treeVars == <<node, thread>>
fileVars == <<rawfile, handle, ref, unspec>>
allVars == <<part, vqVars, vsockVars, treeVars, fileVars>>

VqOff == queue = 0 /\ ring = 0 /\ dev = 0 /\ client = 0 /\ disk = 0
VsockOff ==
    /\ first_free_port = 0 /\ device = 0 /\ stream = 0
    /\ connections = 0 /\ rx = 0 /\ host = 0
TreeOff == node = 0 /\ thread = 0
FileOff == rawfile = 0 /\ handle = 0 /\ ref = 0 /\ unspec = 0

MCInit ==
    /\ part \in Parts
    /\ \/ part = "vq" /\ Vq!VqInit /\ VsockOff /\ TreeOff /\ FileOff
       \/ part = "vsock" /\ Vs!VsockInit /\ VqOff /\ TreeOff /\ FileOff
       \/ part = "tree" /\ Ft!TreeInit /\ VqOff /\ VsockOff /\ FileOff
       \/ part = "file" /\ Rf!FileInit /\ VqOff /\ VsockOff /\ TreeOff

MCNext ==
    /\ \/ part = "vq" /\ Vq!VqNext /\ UNCHANGED <<vsockVars, treeVars, fileVars>>
       \/ part = "vsock" /\ Vs!VsockNext /\ UNCHANGED <<vqVars, treeVars, fileVars>>
       \/ part = "tree" /\ Ft!TreeNext /\ UNCHANGED <<vqVars, vsockVars, fileVars>>
       \/ part = "file" /\ Rf!FileNext /\ UNCHANGED <<vqVars, vsockVars, treeVars>>
    /\ UNCHANGED part

MCSpec == MCInit /\ [][MCNext]_allVars
MCFairSpec == MCSpec /\ (part = "vsock" => Vs!VsockFairness)

\* Every descriptor is on the free list or in one chain in flight, and a device
\* that waits for a notification gets the one it needs.
DescriptorsOwnedOnce == part = "vq" => Vq!DescriptorsOwnedOnce /\ Vq!NoLostKick

\* A finished call of the block driver moved the sectors it was asked to move.
BlocksMoved == part = "vq" => Vq!BlocksMoved


\* connect() on a stream returns.
ConnectReturns == part = "vsock" => Vs!ConnectReturns


\* A file holds what was written to it and zeros elsewhere.
ReadsBack == part = "file" => Rf!ReadsBack
=============================================================================

------------------------------- MODULE Vsock -------------------------------
(***************************************************************************)
(* Vsock streams to the host: VsockStream and the port allocator           *)
(* (kernel/src/vsock), VirtIOVsockDriver with its lock, and the connection *)
(* manager of virtio-drivers.  All streams have the host as peer, so a     *)
(* connection is known by its local port.                                  *)
(*                                                                         *)
(* Sending waits for the device to take the packet, so that the host has   *)
(* seen it when the call returns; packets of the host are queued in rx and *)
(* taken by whoever polls.  The bytes the host sends on a connection are   *)
(* 1, 2, 3 and so on.                                                      *)
(***************************************************************************)
EXTENDS Integers, SequencesExt

CONSTANTS
    Streams,        \* tasks, each with one stream
    VSOCK_MIN_PORT, VMADDR_PORT_ANY, MAX_RETRIES,
    Capacity,       \* of the buffer of a connection, here and at the host
    U32,            \* number of values of a counter (2^32)
    QUEUE_SIZE,     \* packets in the receive queue
    Limits          \* what is sent on the connections of a behaviour, by port:
                    \* bytes from and to the host, and requests for credit

Ports == VSOCK_MIN_PORT..(VMADDR_PORT_ANY - 1)

VARIABLES
    first_free_port,
    device,         \* the stream that holds the device lock
    stream,         \* stream[t]: where the task is and what it has read
    connections,    \* the connection manager's, by local port
    rx,             \* packets from the host
    host            \* host[p]: the host's end

vsockVars == <<first_free_port, device, stream, connections, rx, host>>

Free == "free"
Connection ==
    [established |-> FALSE, peer_requested_shutdown |-> FALSE, pending |-> FALSE,
     ring |-> [i \in 0..(Capacity - 1) |-> 0], start |-> 0, used |-> 0,
     peer_buf_alloc |-> 0, peer_fwd_cnt |-> 0, tx_cnt |-> 0, fwd_cnt |-> 0]
HostEnd(state, limit) ==
    [state |-> state, sent |-> 0, credit |-> 0, unread |-> 0, fwd_cnt |-> 0, asked |-> 0, limit |-> limit]

VsockInit ==
    /\ first_free_port = VSOCK_MIN_PORT
    /\ device = Free
    /\ stream = [t \in Streams |-> [pc |-> "start", port |-> 0, tries |-> 0, want |-> 0, total |-> 0,
                                    read |-> 0, inOrder |-> TRUE, sent |-> 0]]
    /\ connections = <<>>
    /\ rx = <<>>
    /\ \E limits \in Limits : host = [p \in Ports |-> HostEnd("none", limits[p])]

With(f, p, x) == [q \in DOMAIN f \union {p} |-> IF q = p THEN x ELSE f[q]]
Without(f, p) == [q \in DOMAIN f \ {p} |-> f[q]]
At(t, label) == stream[t].pc = label
Go(t, label) == stream' = [stream EXCEPT ![t].pc = label]
lock(t) == device = Free        \* taken and released within the action

-----------------------------------------------------------------------------
(* The ring buffer of a connection.                                        *)

ring_free(c) == Capacity - c.used

ring_add(c, bytes) ==
    LET first == (c.start + c.used) % Capacity IN
    [c EXCEPT !.used = @ + Len(bytes),
              !.ring = [i \in DOMAIN @ |->
                  LET n == ((i - first) % Capacity) + 1 IN IF n <= Len(bytes) THEN bytes[n] ELSE @[i]]]

ring_read(c, n) == [i \in 1..n |-> c.ring[(c.start + i - 1) % Capacity]]

\* Mutant: the first byte is left in the buffer
ring_drain_late(c, n) == [c EXCEPT !.used = @ - n, !.start = (@ + n - 1) % Capacity]

ring_drain(c, n) == [c EXCEPT !.used = @ - n, !.start = (@ + n) % Capacity]

-----------------------------------------------------------------------------
(* The host.  A packet carries the host's buffer size and how much of it   *)
(* was read.                                                               *)

Packet(p, type, bytes) ==
    [port |-> p, type |-> type, bytes |-> bytes, buf_alloc |-> Capacity, fwd_cnt |-> host[p].fwd_cnt]

Deliver(p, type, bytes) == Len(rx) < QUEUE_SIZE /\ rx' = Append(rx, Packet(p, type, bytes))
HostUnchanged == UNCHANGED <<first_free_port, device, stream, connections>>

HostAnswer(p) ==
    /\ host[p].state = "requested"
    /\ \/ Deliver(p, "Response", <<>>) /\ host' = [host EXCEPT ![p].state = "open"]
       \/ Deliver(p, "Rst", <<>>) /\ host' = [host EXCEPT ![p].state = "closed"]
    /\ HostUnchanged

\* As much as the buffer at the other end holds, as far as the host knows
HostSend(p) ==
    \E n \in 1..Capacity :
        /\ host[p].state = "open" /\ host[p].sent + n <= host[p].limit.bytes
        /\ ((host[p].sent - host[p].credit) % U32) + n <= Capacity
        /\ Deliver(p, "Rw", [i \in 1..n |-> host[p].sent + i])
        /\ host' = [host EXCEPT ![p].sent = @ + n]
        /\ HostUnchanged

HostClose(p) ==
    /\ host[p].state = "open"
    /\ \E type \in {"Shutdown", "Rst"} : Deliver(p, type, <<>>)
    /\ host' = [host EXCEPT ![p].state = "closed"]
    /\ HostUnchanged

HostCredit(p) ==
    /\ host[p].state = "open"
    /\ \/ /\ host[p].unread > 0
          /\ host' = [host EXCEPT ![p].unread = 0, ![p].fwd_cnt = (@ + host[p].unread) % U32]
          /\ Len(rx) < QUEUE_SIZE
          /\ rx' = Append(rx, [Packet(p, "CreditUpdate", <<>>) EXCEPT !.fwd_cnt = host'[p].fwd_cnt])
       \/ /\ host[p].asked < host[p].limit.asks /\ host' = [host EXCEPT ![p].asked = @ + 1]
          /\ Deliver(p, "CreditRequest", <<>>)
    /\ HostUnchanged

\* The host's end after a packet from here: our fwd_cnt is in all of them.
force_close(h, p) == [h EXCEPT ![p].state = "closed"]
credit_update(h, p, c) == [h EXCEPT ![p].credit = c.fwd_cnt]

-----------------------------------------------------------------------------
(* VsockConnectionManager::poll(): the first packet of rx.                 *)

update_for_event(c, e) ==
    [c EXCEPT !.peer_buf_alloc = e.buf_alloc, !.peer_fwd_cnt = e.fwd_cnt,
              !.pending = @ /\ e.type # "CreditUpdate"]

\* The data of a packet for another connection goes to that connection; a
\* connection that is closed stays as long as there is data to read.
poll ==
    LET e == Head(rx)
        p == e.port
        c == update_for_event(connections[p], e)
        closed == c.used = 0
    IN /\ rx # <<>> /\ rx' = Tail(rx)
       /\ IF p \notin DOMAIN connections THEN UNCHANGED <<connections, host>>
          ELSE CASE e.type = "Response" ->
                       /\ connections' = [connections EXCEPT ![p] = [c EXCEPT !.established = TRUE]]
                       /\ UNCHANGED host
                 [] e.type \in {"Rst", "Shutdown"} ->
                       /\ connections' = IF closed THEN Without(connections, p)
                                         ELSE [connections EXCEPT
                                                 ![p] = [c EXCEPT !.peer_requested_shutdown = TRUE]]
                       /\ host' = IF closed /\ e.type = "Shutdown" THEN force_close(host, p) ELSE host
                 [] e.type = "Rw" /\ Len(e.bytes) <= ring_free(c) ->
                       connections' = [connections EXCEPT ![p] = ring_add(c, e.bytes)] /\ UNCHANGED host
                 [] e.type = "Rw" /\ Len(e.bytes) > ring_free(c) ->
                       connections' = [connections EXCEPT ![p] = c] /\ UNCHANGED host
                 [] e.type = "CreditRequest" ->
                       connections' = [connections EXCEPT ![p] = c] /\ host' = credit_update(host, p, c)
                 [] e.type = "CreditUpdate" ->
                       connections' = [connections EXCEPT ![p] = c] /\ UNCHANGED host

\* What the caller of poll() gets; wait_for_event() goes on when it is none.
Event ==
    LET e == Head(rx) IN
    CASE e.port \notin DOMAIN connections \/ e.type = "CreditRequest" -> "none"
      [] e.type = "Rw" /\ Len(e.bytes) > ring_free(connections[e.port]) -> "error"
      [] OTHER -> "event"

-----------------------------------------------------------------------------
(* VsockStream::connect().                                                 *)

GetPort(t) ==
    /\ At(t, "start")
    /\ stream' = [stream EXCEPT ![t] = [@ EXCEPT !.pc = "check", !.port = first_free_port, !.tries = @ + 1]]
    /\ first_free_port' = IF first_free_port >= VMADDR_PORT_ANY - 1 THEN VSOCK_MIN_PORT
                          ELSE first_free_port + 1
    /\ UNCHANGED <<device, connections, rx, host>>

CheckPort(t) ==
    /\ At(t, "check") /\ lock(t)
    /\ Go(t, CASE stream[t].port \notin DOMAIN connections -> "request"
               [] stream[t].tries < MAX_RETRIES -> "start"
               [] OTHER -> "failed")
    /\ UNCHANGED <<first_free_port, device, connections, rx, host>>

Request(t) ==
    LET p == stream[t].port IN
    /\ At(t, "request") /\ lock(t)
    /\ IF p \in DOMAIN connections
       THEN Go(t, "failed") /\ UNCHANGED <<connections, host>>
       ELSE /\ connections' = With(connections, p, Connection)
            /\ host' = [host EXCEPT ![p] = HostEnd("requested", @.limit)]
            /\ Go(t, "connecting")
    /\ UNCHANGED <<first_free_port, device, rx>>

\* is_connection_established(), after the event was handled
Connected(t) == stream[t].port \in DOMAIN connections' /\ connections'[stream[t].port].established

\* The loop takes the lock and waits before it looks at the connection.
ConnectLock(t) ==
    /\ At(t, "connecting") /\ device = Free
    /\ device' = t /\ Go(t, "connect wait")
    /\ UNCHANGED <<first_free_port, connections, rx, host>>

ConnectPoll(t) ==
    /\ At(t, "connect wait") /\ poll
    /\ CASE Event = "none" -> UNCHANGED <<device, stream>>
         [] Event = "error" -> device' = Free /\ Go(t, "failed")
         [] OTHER -> /\ device' = Free
                     /\ Go(t, CASE Connected(t) -> "connected"
                                [] ~Connected(t) /\ stream[t].port \in DOMAIN connections' -> "connecting"
                                [] OTHER -> "failed")
    /\ UNCHANGED first_free_port

-----------------------------------------------------------------------------
(* read(), write() and drop of a stream.                                   *)

Read(t) ==
    \E n \in 1..Capacity :
        /\ At(t, "connected")
        /\ stream' = [stream EXCEPT ![t] = [@ EXCEPT !.pc = "recv", !.want = n, !.total = 0]]
        /\ UNCHANGED <<first_free_port, device, connections, rx, host>>

\* 0 bytes are the end of the stream.
Return(t, s) == stream' = [stream EXCEPT ![t] = [s EXCEPT !.pc = IF s.total > 0 THEN "connected" ELSE "eof"]]

\* One turn of the loop: what is there is copied, then the credit updated
Recv(t) ==
    LET s == stream[t]
        p == s.port
        c == connections[p]
        n == Min({c.used, s.want - s.total})
        d == [ring_drain(c, n) EXCEPT !.fwd_cnt = (@ + n) % U32]
        bytes == ring_read(c, n)
        got == [s EXCEPT !.total = @ + n, !.read = @ + n,
                         !.inOrder = @ /\ \A i \in 1..n : bytes[i] = s.read + i]
        gone == d.peer_requested_shutdown /\ d.used = 0
    IN /\ At(t, "recv") /\ lock(t)
       /\ IF p \notin DOMAIN connections
          THEN Return(t, s) /\ UNCHANGED <<device, connections, host>>
          ELSE /\ connections' = IF gone THEN Without(connections, p)
                                 ELSE [connections EXCEPT ![p] = d]
               /\ host' = IF gone THEN force_close(host, p)
                          ELSE IF d.peer_requested_shutdown THEN host ELSE credit_update(host, p, d)
               /\ IF d.peer_requested_shutdown \/ got.total = s.want
                  THEN Return(t, got) /\ UNCHANGED device
                  ELSE stream' = [stream EXCEPT ![t] = [got EXCEPT !.pc = "recv wait"]] /\ device' = t
       /\ UNCHANGED <<first_free_port, rx>>

RecvPoll(t) ==
    /\ At(t, "recv wait") /\ poll
    /\ CASE Event = "none" -> UNCHANGED <<device, stream>>
         [] Event = "error" -> device' = Free /\ Go(t, "failed")
         [] OTHER -> device' = Free /\ Go(t, "recv")
    /\ UNCHANGED first_free_port


peer_free(c) == c.peer_buf_alloc - ((c.tx_cnt - c.peer_fwd_cnt) % U32)

\* A write of one byte; without credit it fails and credit is asked for once.
Write(t) ==
    LET p == stream[t].port
        c == connections[p]
    IN /\ At(t, "connected") /\ lock(t) /\ stream[t].sent < host[p].limit.sends
       /\ p \in DOMAIN connections /\ ~c.peer_requested_shutdown
       /\ IF peer_free(c) >= 1
          THEN /\ connections' = [connections EXCEPT ![p].tx_cnt = (@ + 1) % U32]
               /\ host' = [credit_update(host, p, c) EXCEPT ![p].unread = @ + 1]
               /\ stream' = [stream EXCEPT ![t].sent = @ + 1]
          ELSE /\ ~c.pending
               /\ connections' = [connections EXCEPT ![p].pending = TRUE]
               /\ host' = credit_update(host, p, c)
               /\ UNCHANGED stream
       /\ UNCHANGED <<first_free_port, device, rx>>

\* Drop: the connection is closed by force
Drop(t) ==
    LET p == stream[t].port IN
    /\ At(t, "connected") \/ At(t, "eof")
    /\ lock(t)
    /\ IF p \in DOMAIN connections
       THEN connections' = Without(connections, p) /\ host' = force_close(host, p)
       ELSE UNCHANGED <<connections, host>>
    /\ Go(t, "dropped")
    /\ UNCHANGED <<first_free_port, device, rx>>

HostNext == \E p \in Ports : HostAnswer(p) \/ HostSend(p) \/ HostClose(p) \/ HostCredit(p)
StreamNext(t) ==
    \/ GetPort(t) \/ CheckPort(t) \/ Request(t) \/ ConnectLock(t) \/ ConnectPoll(t)
    \/ Read(t) \/ Recv(t) \/ RecvPoll(t) \/ Write(t) \/ Drop(t)

VsockNext == HostNext \/ \E t \in Streams : StreamNext(t)
VsockSpec == VsockInit /\ [][VsockNext]_vsockVars

\* Tasks run; the host answers a request to connect.
VsockFairness ==
    /\ \A t \in Streams : WF_vsockVars(GetPort(t)) /\ WF_vsockVars(ConnectPoll(t))
                          /\ WF_vsockVars(RecvPoll(t))
                          /\ SF_vsockVars(CheckPort(t)) /\ SF_vsockVars(Request(t))
                          /\ SF_vsockVars(ConnectLock(t)) /\ SF_vsockVars(Recv(t))
    /\ \A p \in Ports : WF_vsockVars(HostAnswer(p))

-----------------------------------------------------------------------------

\* Neither side gets more than it has space for, whatever credit updates are
\* under way and whatever counters have wrapped around: what the host has not
\* read fits its buffer (peer_free()), and a packet of the host fits the ring
\* buffer, so that poll() never drops data.
CreditRespected ==
    /\ \A p \in Ports : host[p].unread <= Capacity
    /\ rx # <<>> => Event # "error"

\* "The call blocks until the connection is established or fails": a connect()
\* the host has answered returns.
ConnectReturns ==
    \A t \in Streams : stream[t].pc = "connecting" ~> stream[t].pc \in {"connected", "failed"}
=============================================================================

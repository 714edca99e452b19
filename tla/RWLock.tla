------------------------------- MODULE RWLock -------------------------------
(***************************************************************************)
(* The reader-writer lock of kernel/src/locking/rwlock.rs (RawRWLock).     *)
(*                                                                         *)
(* The AtomicU64 counts readers in its low and writers in its high half;   *)
(* compose_val and split_val make it the pair <<readers, writers>>.  Every *)
(* access to it is one step.  A share is one unit of one half that some    *)
(* thread must give back: a guard, one half of a guard that map_split()    *)
(* divided, or the claim of a writer that waits for the readers to leave.  *)
(***************************************************************************)
EXTENDS Naturals, FiniteSets

CONSTANTS
    Contexts,   \* execution contexts that use the lock
    Parts       \* names of the guards one thread may hold at once

VARIABLES
    rwlock,         \* <<readers, writers>>
    readShares,     \* read guards: <<thread, part>>
    writeShares,    \* write guards and claims: <<thread, part>>
    at,             \* where each thread is in an acquisition
    val             \* readers counted by the last load (writers were 0)

rwVars == <<rwlock, readShares, writeShares, at, val>>

Shares == Contexts \X Parts
Points == {"idle", "readLoad", "readCas", "tryReadLoad", "tryReadCas",
          "writeLoad", "writeCas", "drain", "held", "panic"}

RWTypeOK ==
    /\ rwlock \in Nat \X Nat
    /\ readShares \subseteq Shares
    /\ writeShares \subseteq Shares
    /\ at \in [Contexts -> Points]
    /\ val \in [Contexts -> Nat]

RWInit ==
    /\ rwlock = <<0, 0>>
    /\ readShares = {}
    /\ writeShares = {}
    /\ at = [t \in Contexts |-> "idle"]
    /\ val = [t \in Contexts |-> 0]

readers == rwlock[1]
writers == rwlock[2]

Jump(t, l) == at' = [at EXCEPT ![t] = l]

Own(t, S) == {s \in S : s[1] = t}

\* A thread enters lock_read(), try_lock_read() or lock_write().
Start(t) ==
    /\ at[t] = "idle"
    /\ \E l \in {"readLoad", "tryReadLoad", "writeLoad"} : Jump(t, l)
    /\ UNCHANGED <<rwlock, readShares, writeShares, val>>

\* wait_for_writers(): the load that finds no writer
WaitForWriters(t, from, to) ==
    /\ at[t] = from
    /\ writers = 0
    /\ val' = [val EXCEPT ![t] = readers]
    /\ Jump(t, to)
    /\ UNCHANGED <<rwlock, readShares, writeShares>>

AddReaderOffByOne(t, from, retry) ==
    /\ at[t] = from
    /\ IF rwlock = <<val[t] + 1, 0>>
       THEN \E p \in Parts :
               /\ rwlock' = <<val[t] + 1, 0>>
               /\ readShares' = readShares \union {<<t, p>>}
               /\ Jump(t, "held")
       ELSE /\ Jump(t, retry)
            /\ UNCHANGED <<rwlock, readShares>>
    /\ UNCHANGED <<writeShares, val>>

\* The compare-exchange that adds a reader; back to the load if it fails
AddReader(t, from, retry) ==
    /\ at[t] = from
    /\ IF rwlock = <<val[t], 0>>
       THEN \E p \in Parts :
               /\ rwlock' = <<val[t] + 1, 0>>
               /\ readShares' = readShares \union {<<t, p>>}
               /\ Jump(t, "held")
       ELSE /\ Jump(t, retry)
            /\ UNCHANGED <<rwlock, readShares>>
    /\ UNCHANGED <<writeShares, val>>

ReadLoad(t) == WaitForWriters(t, "readLoad", "readCas")
ReadCas(t) == AddReader(t, "readCas", "readLoad")

\* try_lock_read(): fetch_update() gives up when it sees a writer
TryReadLoad(t) ==
    \/ WaitForWriters(t, "tryReadLoad", "tryReadCas")
    \/ /\ at[t] = "tryReadLoad"
       /\ writers # 0
       /\ Jump(t, "idle")
       /\ UNCHANGED <<rwlock, readShares, writeShares, val>>

TryReadCas(t) == AddReader(t, "tryReadCas", "tryReadLoad")

WriteLoad(t) == WaitForWriters(t, "writeLoad", "writeCas")

\* lock_write(): the compare-exchange that claims the lock for a writer
WriteCas(t) ==
    /\ at[t] = "writeCas"
    /\ IF rwlock = <<val[t], 0>>
       THEN \E p \in Parts :
               /\ rwlock' = <<val[t], 1>>
               /\ writeShares' = writeShares \union {<<t, p>>}
               /\ Jump(t, "drain")
       ELSE /\ Jump(t, "writeLoad")
            /\ UNCHANGED <<rwlock, writeShares>>
    /\ UNCHANGED <<readShares, val>>

DrainEarly(t) ==
    /\ at[t] = "drain"
    /\ Jump(t, "held")
    /\ UNCHANGED <<rwlock, readShares, writeShares, val>>

\* lock_write(): wait_for_readers(), then assert!(val == compose_val(0, 1))
Drain(t) ==
    /\ at[t] = "drain"
    /\ readers = 0
    /\ Jump(t, IF rwlock = <<0, 1>> THEN "held" ELSE "panic")
    /\ UNCHANGED <<rwlock, readShares, writeShares, val>>

TryLockWriteShared(t) ==
    /\ at[t] = "idle"
    /\ writers = 0
    /\ \E p \in Parts :
          /\ rwlock' = <<readers, 1>>
          /\ writeShares' = writeShares \union {<<t, p>>}
    /\ Jump(t, "held")
    /\ UNCHANGED <<readShares, val>>

\* try_lock_write(): one compare-exchange from (0, 0) to (0, 1); when it fails
\* nothing changes and the caller gets None
TryLockWrite(t) ==
    /\ at[t] = "idle"
    /\ rwlock = <<0, 0>>
    /\ \E p \in Parts :
          /\ rwlock' = <<0, 1>>
          /\ writeShares' = writeShares \union {<<t, p>>}
    /\ Jump(t, "held")
    /\ UNCHANGED <<readShares, val>>

\* RawReadLockGuard::map_split(): one more reader
SplitRead(t) ==
    /\ at[t] = "held"
    /\ Own(t, readShares) # {}
    /\ \E p \in Parts :
          /\ <<t, p>> \notin readShares
          /\ rwlock' = <<readers + 1, writers>>
          /\ readShares' = readShares \union {<<t, p>>}
    /\ UNCHANGED <<writeShares, at, val>>

SplitWriteUncounted(t) ==
    /\ at[t] = "held"
    /\ Own(t, writeShares) # {}
    /\ \E p \in Parts :
          /\ <<t, p>> \notin writeShares
          /\ writeShares' = writeShares \union {<<t, p>>}
    /\ UNCHANGED <<rwlock, readShares, at, val>>

\* RawWriteLockGuard::map_split(): one more writer
SplitWrite(t) ==
    /\ at[t] = "held"
    /\ Own(t, writeShares) # {}
    /\ \E p \in Parts :
          /\ <<t, p>> \notin writeShares
          /\ rwlock' = <<readers, writers + 1>>
          /\ writeShares' = writeShares \union {<<t, p>>}
    /\ UNCHANGED <<readShares, at, val>>

DropReadTwice(t) ==
    /\ at[t] = "held"
    /\ \E s \in Own(t, readShares) :
          /\ rwlock' = <<readers - 2, writers>>
          /\ readShares' = readShares \ {s}
          /\ Jump(t, IF Own(t, readShares) = {s} THEN "idle" ELSE "held")
    /\ UNCHANGED <<writeShares, val>>

\* Drop of a read guard
DropRead(t) ==
    /\ at[t] = "held"
    /\ \E s \in Own(t, readShares) :
          /\ rwlock' = <<readers - 1, writers>>
          /\ readShares' = readShares \ {s}
          /\ Jump(t, IF Own(t, readShares) = {s} THEN "idle" ELSE "held")
    /\ UNCHANGED <<writeShares, val>>

\* Drop of a write guard
DropWrite(t) ==
    /\ at[t] = "held"
    /\ \E s \in Own(t, writeShares) :
          /\ rwlock' = <<readers, writers - 1>>
          /\ writeShares' = writeShares \ {s}
          /\ Jump(t, IF Own(t, writeShares) = {s} THEN "idle" ELSE "held")
    /\ UNCHANGED <<readShares, val>>

\* A thread that is inside an acquisition or holds a guard.
Advance(t) ==
    \/ ReadLoad(t) \/ ReadCas(t)
    \/ TryReadLoad(t) \/ TryReadCas(t)
    \/ WriteLoad(t) \/ WriteCas(t) \/ Drain(t)
    \/ DropRead(t) \/ DropWrite(t)

RWNext ==
    \E t \in Contexts :
        \/ Start(t) \/ TryLockWrite(t)
        \/ Advance(t)
        \/ SplitRead(t) \/ SplitWrite(t)

\* Acquisitions in progress keep running and guards are eventually dropped.
RWFairness ==
    \A t \in Contexts :
        /\ WF_rwVars(Advance(t))
        /\ SF_rwVars(DropRead(t) /\ Own(t, readShares)' = {})
        /\ SF_rwVars(DropWrite(t) /\ Own(t, writeShares)' = {})

RWSpec == RWInit /\ [][RWNext]_rwVars /\ RWFairness

-----------------------------------------------------------------------------
\* A write guard is exclusive ("exclusive access for writers and shared access
\* for readers"): while one is usable, every share of the lock is of the thread
\* that took it, and there is no read guard.
WriterExclusion ==
    \A w \in writeShares :
        /\ \A s \in writeShares : s[1] = w[1]
        /\ at[w[1]] # "drain" => readShares = {}

\* Both halves of the counter are the number of guards that will be given back
\* to them, map_split() halves and waiting writers included: otherwise a drop
\* would underflow one half into the other or leave the lock taken for ever.
CountsExact ==
    /\ readers = Cardinality(readShares)
    /\ writers = Cardinality(writeShares)

\* The assertion of lock_write() after the readers have gone never fires.
NoPanic == \A t \in Contexts : at[t] # "panic"

\* Contention resolves: if some thread is in lock_read() or lock_write(), some
\* thread comes to hold the lock, although a given one may starve in the
\* compare-exchange loops.
SomeoneAcquires ==
    (\E t \in Contexts : at[t] \in {"readLoad", "readCas", "writeLoad", "writeCas"})
        ~> (\E t \in Contexts : at[t] = "held")
=============================================================================

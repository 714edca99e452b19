---------------------------- MODULE RWLock_proofs ----------------------------
(***************************************************************************)
(* Exclusion and exact counting of the reader-writer lock, for any number  *)
(* of threads and of guards per thread.                                    *)
(*                                                                         *)
(* The invariant ties the two halves of the counter to the sets of shares  *)
(* by cardinality, so that a compare-exchange that finds writers = 0 knows *)
(* there is no write share, and records who may own shares at which step.  *)
(***************************************************************************)
EXTENDS RWLock, FiniteSetTheorems, TLAPS

\* Only a thread that claimed or holds the lock owns shares, and the share of
\* a claim that waits for readers is the only write share.
Ownership ==
    /\ \A t \in Contexts : at[t] \notin {"drain", "held"} =>
          Own(t, readShares) = {} /\ Own(t, writeShares) = {}
    /\ \A t \in Contexts : at[t] = "drain" =>
          /\ Own(t, readShares) = {}
          /\ \E p \in Parts : writeShares = {<<t, p>>}

\* Guards are handed out one at a time, so there are finitely many shares.
Finite == IsFiniteSet(readShares) /\ IsFiniteSet(writeShares)

IInv == RWTypeOK /\ CountsExact /\ WriterExclusion /\ NoPanic /\ Ownership /\ Finite

\* Facts about the size of a set of shares that the steps below rest on.
LEMMA ShareCount ==
    ASSUME NEW S \in SUBSET Shares, IsFiniteSet(S)
    PROVE  /\ Cardinality(S) \in Nat
           /\ Cardinality(S) = 0 <=> S = {}
           /\ \A s \in Shares : IsFiniteSet(S \union {s})
           /\ \A s \in Shares : s \notin S => Cardinality(S \union {s}) = Cardinality(S) + 1
           /\ \A s \in S : IsFiniteSet(S \ {s}) /\ Cardinality(S \ {s}) = Cardinality(S) - 1
  BY FS_CardinalityType, FS_EmptySet, FS_AddElement, FS_RemoveElement

\* The unlocked lock that new() makes satisfies the invariant.
LEMMA InitIInv == RWInit => IInv
  BY FS_EmptySet
  DEF RWInit, IInv, RWTypeOK, CountsExact, WriterExclusion, NoPanic, Ownership, Finite,
      Own, readers, writers, Points

\* What the counter says about the sets of shares in a state of the invariant.
LEMMA CountFacts ==
    ASSUME IInv
    PROVE  /\ readers \in Nat /\ writers \in Nat /\ rwlock = <<readers, writers>>
           /\ readers = 0 <=> readShares = {}
           /\ writers = 0 <=> writeShares = {}
           /\ \A s \in Shares : s \notin readShares =>
                 Cardinality(readShares \union {s}) = readers + 1
           /\ \A s \in Shares : s \notin writeShares =>
                 Cardinality(writeShares \union {s}) = writers + 1
           /\ \A s \in readShares : Cardinality(readShares \ {s}) = readers - 1
           /\ \A s \in writeShares : Cardinality(writeShares \ {s}) = writers - 1
           /\ \A s \in readShares : readers - 1 \in Nat
           /\ \A s \in writeShares : writers - 1 \in Nat
           /\ \A s \in Shares : IsFiniteSet(readShares \union {s})
           /\ \A s \in Shares : IsFiniteSet(writeShares \union {s})
           /\ \A s \in readShares : IsFiniteSet(readShares \ {s})
           /\ \A s \in writeShares : IsFiniteSet(writeShares \ {s})
  <1>1. readShares \in SUBSET Shares /\ writeShares \in SUBSET Shares
    BY DEF IInv, RWTypeOK
  <1>2. readers = Cardinality(readShares) /\ writers = Cardinality(writeShares)
    BY DEF IInv, CountsExact
  <1>3. readers \in Nat /\ writers \in Nat /\ rwlock = <<readers, writers>>
    BY DEF IInv, RWTypeOK, readers, writers
  <1>4. IsFiniteSet(readShares) /\ IsFiniteSet(writeShares)
    BY DEF IInv, Finite
  <1> QED
    BY <1>1, <1>2, <1>3, <1>4, ShareCount

\* A step of a thread without shares that touches no share and not the counter.
LEMMA MoveIInv ==
    ASSUME IInv, NEW t \in Contexts, NEW l \in Points \ {"drain", "held", "panic"},
           at[t] \notin {"drain", "held"},
           at' = [at EXCEPT ![t] = l],
           val' \in [Contexts -> Nat],
           UNCHANGED <<rwlock, readShares, writeShares>>
    PROVE  IInv'
<1> USE DEF IInv
<1>1. RWTypeOK' /\ NoPanic'
  BY DEF RWTypeOK, NoPanic, Points
<1>2. CountsExact' /\ Finite'
  BY DEF CountsExact, Finite, readers, writers
<1>3. WriterExclusion'
  <2>1. \A w \in writeShares : w[1] \in Contexts /\ w[1] # t
    BY DEF RWTypeOK, Shares, Ownership, Own
  <2> QED
    BY <2>1 DEF WriterExclusion, RWTypeOK
<1>4. Ownership'
  BY DEF Ownership, Own, RWTypeOK
<1> QED
  BY <1>1, <1>2, <1>3, <1>4

\* wait_for_writers() changes only what the thread has seen.
LEMMA WaitIInv ==
    ASSUME IInv, NEW t \in Contexts,
           NEW from \in Points \ {"drain", "held"}, NEW to \in Points \ {"drain", "held", "panic"},
           WaitForWriters(t, from, to)
    PROVE  IInv'
<1> USE DEF IInv, WaitForWriters, Jump
<1>1. readers \in Nat
  BY CountFacts
<1> QED
  BY <1>1, MoveIInv DEF RWTypeOK

\* The compare-exchange of a reader adds one reader and one share, or nothing.
LEMMA AddReaderIInv ==
    ASSUME IInv, NEW t \in Contexts,
           NEW from \in Points \ {"drain", "held"}, NEW retry \in Points \ {"drain", "held", "panic"},
           AddReader(t, from, retry)
    PROVE  IInv'
<1> USE DEF IInv, AddReader, Jump
<1>1. CASE rwlock # <<val[t], 0>>
  BY <1>1, MoveIInv DEF RWTypeOK
<1>2. CASE rwlock = <<val[t], 0>>
  <2>1. PICK p \in Parts : /\ rwlock' = <<val[t] + 1, 0>>
                           /\ readShares' = readShares \union {<<t, p>>}
                           /\ at' = [at EXCEPT ![t] = "held"]
    BY <1>2
  <2>2. writeShares = {} /\ writeShares' = {} /\ val[t] = readers
    BY <1>2, CountFacts DEF readers, writers
  <2>3. <<t, p>> \in Shares /\ <<t, p>> \notin readShares
    BY DEF Ownership, Own, Shares
  <2>4. RWTypeOK' /\ NoPanic'
    BY <2>1, <2>3 DEF RWTypeOK, NoPanic, Points
  <2>5. CountsExact' /\ Finite'
    BY <2>1, <2>2, <2>3, CountFacts, FS_EmptySet DEF CountsExact, Finite, readers, writers
  <2>6. WriterExclusion'
    BY <2>2 DEF WriterExclusion
  <2>7. Ownership'
    BY <2>1, <2>2 DEF Ownership, Own, RWTypeOK
  <2> QED
    BY <2>4, <2>5, <2>6, <2>7
<1> QED
  BY <1>1, <1>2

\* A first write share: the compare-exchange of lock_write(), which leaves the
\* readers in place, or the one of try_lock_write(), which finds none.
LEMMA ClaimIInv ==
    ASSUME IInv, NEW t \in Contexts, NEW p \in Parts, NEW l \in {"drain", "held"},
           at[t] \notin {"drain", "held"},
           writers = 0, l = "held" => readers = 0,
           rwlock' = <<readers, 1>>,
           writeShares' = writeShares \union {<<t, p>>},
           at' = [at EXCEPT ![t] = l],
           UNCHANGED <<readShares, val>>
    PROVE  IInv'
<1> USE DEF IInv
<1>1. writeShares = {} /\ writeShares' = {<<t, p>>} /\ (l = "held" => readShares = {})
  BY CountFacts
<1>2. Own(t, readShares) = {}
  BY DEF Ownership
<1>3. RWTypeOK' /\ NoPanic'
  BY <1>1, CountFacts DEF RWTypeOK, NoPanic, Points, Shares
<1>4. CountsExact' /\ Finite'
  <2>1. CountsExact'
    BY <1>1, CountFacts, FS_Singleton DEF CountsExact, readers, writers
  <2>2. IsFiniteSet({<<t, p>>})
    BY FS_Singleton
  <2>3. Finite'
    BY <1>1, <2>2 DEF Finite
  <2> QED
    BY <2>1, <2>3
<1>5. WriterExclusion'
  BY <1>1 DEF WriterExclusion, RWTypeOK
<1>6. Ownership'
  <2>1. \A u \in Contexts \ {t} : at'[u] = at[u] /\ at[u] # "drain"
    BY <1>1 DEF Ownership, RWTypeOK
  <2>2. at'[t] = l
    BY DEF RWTypeOK
  <2>3. \A u \in Contexts \ {t} : Own(u, writeShares') = {}
    BY <1>1 DEF Own
  <2> QED
    BY <1>1, <1>2, <2>1, <2>2, <2>3 DEF Ownership
<1> QED
  BY <1>3, <1>4, <1>5, <1>6

\* A holder's write guard excludes readers, and a read guard excludes holders.
LEMMA HolderAlone ==
    ASSUME IInv, NEW t \in Contexts, at[t] = "held"
    PROVE  /\ Own(t, writeShares) # {} => readShares = {} /\ Own(t, writeShares) = writeShares
           /\ \A u \in Contexts : at[u] = "drain" => Own(t, writeShares) = {} /\ u # t
<1>1. ASSUME NEW w \in writeShares, w[1] = t
      PROVE  readShares = {} /\ Own(t, writeShares) = writeShares
  BY <1>1 DEF IInv, WriterExclusion, Own
<1>2. ASSUME NEW u \in Contexts, at[u] = "drain" PROVE Own(t, writeShares) = {} /\ u # t
  BY <1>2 DEF IInv, Ownership, Own
<1> QED
  BY <1>1, <1>2 DEF Own

\* map_split() of a read guard.
LEMMA SplitReadIInv == ASSUME IInv, NEW t \in Contexts, SplitRead(t) PROVE IInv'
<1> USE DEF IInv, SplitRead
<1>1. PICK p \in Parts : /\ <<t, p>> \notin readShares
                         /\ rwlock' = <<readers + 1, writers>>
                         /\ readShares' = readShares \union {<<t, p>>}
  OBVIOUS
<1>2. PICK r \in readShares : r[1] = t
  BY DEF Own
<1>3. RWTypeOK' /\ NoPanic'
  BY <1>1, CountFacts DEF RWTypeOK, NoPanic, Shares
<1>4. CountsExact' /\ Finite'
  BY <1>1, CountFacts DEF CountsExact, Finite, readers, writers, Shares
<1>5. WriterExclusion'
  BY <1>1, <1>2 DEF WriterExclusion
<1>6. Ownership'
  <2>1. \A u \in Contexts \ {t} : Own(u, readShares') = Own(u, readShares)
    BY <1>1 DEF Own
  <2> QED
    BY <2>1 DEF Ownership
<1> QED
  BY <1>3, <1>4, <1>5, <1>6

\* map_split() of a write guard.
LEMMA SplitWriteIInv == ASSUME IInv, NEW t \in Contexts, SplitWrite(t) PROVE IInv'
<1> USE DEF IInv, SplitWrite
<1>1. PICK p \in Parts : /\ <<t, p>> \notin writeShares
                         /\ rwlock' = <<readers, writers + 1>>
                         /\ writeShares' = writeShares \union {<<t, p>>}
  OBVIOUS
<1>2. readShares = {} /\ \A s \in writeShares' : s[1] = t
  BY <1>1, HolderAlone DEF Own
<1>3. RWTypeOK' /\ NoPanic'
  BY <1>1, CountFacts DEF RWTypeOK, NoPanic, Shares
<1>4. CountsExact' /\ Finite'
  BY <1>1, CountFacts DEF CountsExact, Finite, readers, writers, Shares
<1>5. WriterExclusion'
  BY <1>1, <1>2 DEF WriterExclusion
<1>6. Ownership'
  <2>1. \A u \in Contexts \ {t} : Own(u, writeShares') = Own(u, writeShares)
    BY <1>1 DEF Own
  <2>2. \A u \in Contexts : at[u] # "drain"
    BY HolderAlone
  <2> QED
    BY <2>1, <2>2 DEF Ownership
<1> QED
  BY <1>3, <1>4, <1>5, <1>6

\* The drop of a read guard.
LEMMA DropReadIInv == ASSUME IInv, NEW t \in Contexts, DropRead(t) PROVE IInv'
<1> USE DEF IInv, DropRead, Jump
<1>1. PICK s \in readShares :
         /\ s[1] = t
         /\ rwlock' = <<readers - 1, writers>>
         /\ readShares' = readShares \ {s}
         /\ at' = [at EXCEPT ![t] = IF Own(t, readShares) = {s} THEN "idle" ELSE "held"]
  BY DEF Own
<1>2. Own(t, writeShares) = {}
  BY <1>1, HolderAlone
<1>3. RWTypeOK' /\ NoPanic'
  BY <1>1, CountFacts DEF RWTypeOK, NoPanic, Points
<1>4. CountsExact' /\ Finite'
  BY <1>1, CountFacts DEF CountsExact, Finite, readers, writers
<1>5. WriterExclusion'
  <2>1. \A w \in writeShares : w[1] \in Contexts /\ w[1] # t
    BY <1>2 DEF RWTypeOK, Shares, Own
  <2> QED
    BY <1>1, <2>1 DEF WriterExclusion, RWTypeOK
<1>6. Ownership'
  <2>1. \A u \in Contexts \ {t} : Own(u, readShares') = Own(u, readShares) /\ at'[u] = at[u]
    BY <1>1 DEF Own, RWTypeOK
  <2>2. Own(t, readShares') = Own(t, readShares) \ {s} /\ at'[t] # "drain"
    BY <1>1 DEF Own, RWTypeOK
  <2>3. at'[t] = "idle" => Own(t, readShares') = {}
    BY <1>1, <2>2 DEF RWTypeOK
  <2>4. at'[t] \in {"idle", "held"}
    BY <1>1 DEF RWTypeOK
  <2> QED
    BY <1>2, <2>1, <2>2, <2>3, <2>4 DEF Ownership
<1> QED
  BY <1>3, <1>4, <1>5, <1>6

\* The drop of a write guard.
LEMMA DropWriteIInv == ASSUME IInv, NEW t \in Contexts, DropWrite(t) PROVE IInv'
<1> USE DEF IInv, DropWrite, Jump
<1>1. PICK s \in writeShares :
         /\ s[1] = t
         /\ rwlock' = <<readers, writers - 1>>
         /\ writeShares' = writeShares \ {s}
         /\ at' = [at EXCEPT ![t] = IF Own(t, writeShares) = {s} THEN "idle" ELSE "held"]
  BY DEF Own
<1>2. readShares = {} /\ Own(t, writeShares) = writeShares
  BY <1>1, HolderAlone DEF Own
<1>3. RWTypeOK' /\ NoPanic'
  BY <1>1, CountFacts DEF RWTypeOK, NoPanic, Points
<1>4. CountsExact' /\ Finite'
  BY <1>1, CountFacts DEF CountsExact, Finite, readers, writers
<1>5. WriterExclusion'
  BY <1>1, <1>2 DEF WriterExclusion
<1>6. Ownership'
  <2>1. \A u \in Contexts : at[u] # "drain" /\ at'[u] # "drain"
    BY <1>1, HolderAlone DEF Own, RWTypeOK
  <2>2. \A u \in Contexts \ {t} : Own(u, writeShares') = {}
    BY <1>1, <1>2 DEF Own
  <2>3. at'[t] \in {"idle", "held"} /\ (at'[t] = "idle" => Own(t, writeShares') = {})
    BY <1>1 DEF Own, RWTypeOK
  <2> QED
    BY <1>2, <2>1, <2>2, <2>3 DEF Ownership, Own
<1> QED
  BY <1>3, <1>4, <1>5, <1>6

\* Every atomic access of the lock operations keeps the invariant.
LEMMA NextIInv == IInv /\ [RWNext]_rwVars => IInv'
<1> SUFFICES ASSUME IInv, [RWNext]_rwVars PROVE IInv'
  OBVIOUS
<1>1. ASSUME NEW t \in Contexts, Start(t) PROVE IInv'
  BY <1>1, MoveIInv DEF Start, Jump, IInv, RWTypeOK, Points
<1>2. ASSUME NEW t \in Contexts, ReadLoad(t) PROVE IInv'
  BY <1>2, WaitIInv DEF ReadLoad, Points
<1>3. ASSUME NEW t \in Contexts, ReadCas(t) PROVE IInv'
  BY <1>3, AddReaderIInv DEF ReadCas, Points
<1>4. ASSUME NEW t \in Contexts, TryReadLoad(t) PROVE IInv'
  <2>1. CASE WaitForWriters(t, "tryReadLoad", "tryReadCas")
    BY <2>1, WaitIInv DEF Points
  <2>2. CASE ~ WaitForWriters(t, "tryReadLoad", "tryReadCas")
    BY <1>4, <2>2, MoveIInv DEF TryReadLoad, Jump, IInv, RWTypeOK, Points
  <2> QED
    BY <2>1, <2>2
<1>5. ASSUME NEW t \in Contexts, TryReadCas(t) PROVE IInv'
  BY <1>5, AddReaderIInv DEF TryReadCas, Points
<1>6. ASSUME NEW t \in Contexts, WriteLoad(t) PROVE IInv'
  BY <1>6, WaitIInv DEF WriteLoad, Points
<1>7. ASSUME NEW t \in Contexts, WriteCas(t) PROVE IInv'
  <2>1. CASE rwlock = <<val[t], 0>>
    BY <1>7, <2>1, ClaimIInv DEF WriteCas, Jump, readers, writers
  <2>2. CASE rwlock # <<val[t], 0>>
    BY <1>7, <2>2, MoveIInv DEF WriteCas, Jump, IInv, RWTypeOK, Points
  <2> QED
    BY <2>1, <2>2
<1>8. ASSUME NEW t \in Contexts, Drain(t) PROVE IInv'
  <2>1. PICK p \in Parts : writeShares = {<<t, p>>}
    BY <1>8 DEF Drain, IInv, Ownership
  <2>2. rwlock = <<0, 1>> /\ readShares = {}
    BY <1>8, <2>1, CountFacts, FS_Singleton DEF Drain, IInv, CountsExact
  <2>3. at' = [at EXCEPT ![t] = "held"] /\ UNCHANGED <<rwlock, readShares, writeShares, val>>
    BY <1>8, <2>2 DEF Drain, Jump
  <2>4. RWTypeOK' /\ NoPanic' /\ CountsExact' /\ Finite'
    BY <2>3 DEF IInv, RWTypeOK, NoPanic, CountsExact, Finite, readers, writers, Points
  <2>5. WriterExclusion'
    BY <2>1, <2>2, <2>3 DEF WriterExclusion
  <2>6. Ownership'
    BY <2>3 DEF IInv, Ownership, Own, RWTypeOK
  <2> QED
    BY <2>4, <2>5, <2>6 DEF IInv
<1>9. ASSUME NEW t \in Contexts, TryLockWrite(t) PROVE IInv'
  BY <1>9, ClaimIInv DEF TryLockWrite, Jump, readers, writers
<1>10. ASSUME NEW t \in Contexts, SplitRead(t) PROVE IInv'
  BY <1>10, SplitReadIInv
<1>11. ASSUME NEW t \in Contexts, SplitWrite(t) PROVE IInv'
  BY <1>11, SplitWriteIInv
<1>12. ASSUME NEW t \in Contexts, DropRead(t) PROVE IInv'
  BY <1>12, DropReadIInv
<1>13. ASSUME NEW t \in Contexts, DropWrite(t) PROVE IInv'
  BY <1>13, DropWriteIInv
<1>14. CASE UNCHANGED rwVars
  BY <1>14 DEF rwVars, IInv, RWTypeOK, CountsExact, WriterExclusion, NoPanic, Ownership, Own, Finite,
               readers, writers
<1> QED
  BY <1>1, <1>2, <1>3, <1>4, <1>5, <1>6, <1>7, <1>8, <1>9, <1>10, <1>11, <1>12,
     <1>13, <1>14 DEF RWNext, Advance

\* The invariant holds in every state of every behaviour of the lock.
LEMMA SpecIInv == RWSpec => []IInv
  BY InitIInv, NextIInv, PTL DEF RWSpec

\* The counter stays a pair of naturals: no drop takes a half below zero.
THEOREM TypeCorrect == RWSpec => []RWTypeOK
  <1>1. IInv => RWTypeOK
    BY DEF IInv
  <1> QED
    BY <1>1, SpecIInv, PTL

\* A usable write guard excludes every other thread's guard (lock_write(),
\* try_lock_write() and map_split() against any number of readers and writers).
THEOREM Exclusive == RWSpec => []WriterExclusion
  <1>1. IInv => WriterExclusion
    BY DEF IInv
  <1> QED
    BY <1>1, SpecIInv, PTL

\* Both halves of the counter equal the number of guards that will be dropped.
THEOREM ExactCounts == RWSpec => []CountsExact
  <1>1. IInv => CountsExact
    BY DEF IInv
  <1> QED
    BY <1>1, SpecIInv, PTL

\* The assertion of lock_write() never fires.
THEOREM AssertionHolds == RWSpec => []NoPanic
  <1>1. IInv => NoPanic
    BY DEF IInv
  <1> QED
    BY <1>1, SpecIInv, PTL
==============================================================================

------------------------------ MODULE MCLocks -------------------------------
(***************************************************************************)
(* One run for the two locks: threads that contend for one ticket lock,    *)
(* and contexts that share one reader-writer lock, each able to split its  *)
(* guard in two.  A behaviour is one of either model.                      *)
(***************************************************************************)
EXTENDS SpinLock, RWLock

VARIABLE part

allVars == <<part, vars, rwVars>>

MCInit == part \in {"spin", "rw"} /\ Init /\ RWInit

MCNext ==
    /\ \/ part = "spin" /\ Next /\ UNCHANGED rwVars
       \/ part = "rw" /\ RWNext /\ UNCHANGED vars
    /\ UNCHANGED part

MCSpec ==
    /\ MCInit /\ [][MCNext]_allVars
    /\ part = "spin" => Fairness
    /\ part = "rw" => RWFairness

\* Both models' states have their types: no release, drop or split moves a
\* counter of spinlock.rs or rwlock.rs below zero or beyond what was taken.
TypesOK == TypeOK /\ RWTypeOK
=============================================================================

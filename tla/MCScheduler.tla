---------------------------- MODULE MCScheduler ----------------------------
\* Instances of Scheduler with two CPUs.
EXTENDS Scheduler, TLC

CONSTANTS idle0, idle1, w1, w2, w3

MCIdle == [c \in {0, 1} |-> IF c = 0 THEN idle0 ELSE idle1]

\* One request-loop task, for the second CPU; or none.
OneLoop == [w \in {w1} |-> 1]
NoLoop == [w \in {} |-> 0]

\* The ordinary workers are interchangeable.
MCSymmetry == Permutations({w2, w3})

SafetySpec == Init /\ [][Next]_vars

\* A task is in one place the scheduler knows of, until it is dropped, and it is
\* dropped only when no CPU uses it.
NeverLost == NeverLostNorTwice /\ DroppedIsInactive

\* The per-CPU area of a CPU that runs a task is mapped, and no assertion fails.
PerCpuReady == PerCpuMapped /\ NoPanic
=============================================================================

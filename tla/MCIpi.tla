------------------------------- MODULE MCIpi -------------------------------
\* Workloads for Ipi.  Two CPUs share a word of the request set and the third
\* is in a word of its own.
EXTENDS Ipi

Single(t) == [kind |-> "Single", cpus |-> {t}]
Multiple(T) == [kind |-> "Multiple", cpus |-> T]
All == [kind |-> "All", cpus |-> {}]
AllButSelf == [kind |-> "AllButSelf", cpus |-> {}]

Work(on0, on1, on2, late) ==
    [calls |-> [c \in Cpus |-> CASE c = 0 -> on0 [] c = 1 -> on1 [] OTHER -> on2],
     late |-> late]

MCWorkloads ==
    {\* two CPUs send to each other and to the third
     Work(<<Multiple({0, 1, 2})>>, <<Multiple({0, 2})>>, <<>>, {}),
     \* one CPU sends twice while another calls it
     Work(<<Single(2), Multiple({1, 2})>>, <<>>, <<Single(0)>>, {}),
     \* all three wait for one another
     Work(<<Single(1)>>, <<Single(2)>>, <<Single(0)>>, {}),
     \* a broadcast with nothing else in flight; a CPU comes online meanwhile
     Work(<<All>>, <<>>, <<>>, {2}),
     Work(<<AllButSelf>>, <<>>, <<>>, {1}),
     Work(<<>>, <<All>>, <<>>, {})}

\* One CPU broadcasts twice.
RepeatWorkloads == {Work(<<All, AllButSelf>>, <<>>, <<>>, {})}
=============================================================================

--------------------------- MODULE MCJobLifecycle ---------------------------
(* JobLifecycle on small instances: values for its constants, symmetry. *)
EXTENDS JobLifecycle, TLC

CONSTANTS w1, w2, u1, u2, h1

MCJobs == 1..2
MCOneJob == 1..1

\* Two inserts in the same microsecond; one after the other.
MCLevel == [j \in MCJobs |-> 1]
MCCreated == [j \in MCJobs |-> j]
MCOneCreated == [j \in MCOneJob |-> j]

MCWorkers == {w1, w2}
MCOneWorker == {w1}
MCHandlers == {h1}
MCUsers == {u1, u2}
MCOneUser == {u1}

\* Workers are interchangeable; no liveness property is checked with this.
MCSymmetry == Permutations(MCWorkers) \cup Permutations(MCUsers)
=============================================================================

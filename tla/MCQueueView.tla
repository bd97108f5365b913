---------------------------- MODULE MCQueueView -----------------------------
(* QueueView on small instances. *)
EXTENDS QueueView, TLC

CONSTANTS h1, h2, w1, u1

MCJobs == 1..2
MCCreated == [j \in MCJobs |-> j]
MCHandlers == {h1, h2}
MCWorkers == {w1}
MCUsers == {u1}
=============================================================================

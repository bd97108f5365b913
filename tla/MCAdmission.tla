----------------------------- MODULE MCAdmission -----------------------------
(* Admission on small instances: values for its constants, symmetry. *)
EXTENDS Admission, TLC

CONSTANTS h1, h2, u1

MCJobs == 1..2
MCHandlers == {h1, h2}
MCUsers == {u1}
MCSymmetry == Permutations(MCHandlers)
=============================================================================

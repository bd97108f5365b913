----------------------------- MODULE MCServices -----------------------------
(***************************************************************************)
(* Four parts of the bot that share no variable, on small instances: the   *)
(* queue as users see it, the loops that work by the clock, the modes of   *)
(* downloads, the start on a database.  A behaviour is one of the part     *)
(* that "part" names; the others stay in their initial states.  Nothing is *)
(* lost by that, since no action of one reads a variable of another, and   *)
(* the state spaces add up instead of multiplying.  Where a pool that      *)
(* starves ends all, the system stays as it is.                            *)
(***************************************************************************)
EXTENDS QueueView, Housekeeping, LinkModes, SchemaStart

CONSTANTS h1, h2, w1, u1

MCJobs == 1..2
MCCreated == [j \in MCJobs |-> j]
MCHandlers == {h1, h2}
MCWorkers == {w1}
MCUsers == {u1}

VARIABLE part

allVars == <<vars, hkVars, lmVars, ssVars, part>>

ServicesInit ==
    /\ Init /\ HkInit /\ LmInit /\ SsInit
    /\ part \in {"queue", "clock", "modes", "start"}
    /\ part # "start" => table = {} /\ ~recorded

ServicesNext ==
    /\ UNCHANGED part
    /\ \/ part = "queue" /\ Next /\ UNCHANGED <<hkVars, lmVars, ssVars>>
       \/ part = "clock" /\ HkNext /\ UNCHANGED <<vars, lmVars, ssVars>>
       \/ part = "modes" /\ LmNext /\ UNCHANGED <<vars, hkVars, ssVars>>
       \/ part = "start" /\ SsNext /\ UNCHANGED <<vars, hkVars, lmVars>>
       \/ part = "queue" /\ Starved /\ UNCHANGED allVars

\* A step of the part "start", which alone has a liveness property here.
OfStart(A) == part = "start" /\ A /\ UNCHANGED <<vars, hkVars, lmVars, part>>

ServicesSpec ==
    /\ ServicesInit /\ [][ServicesNext]_allVars
    /\ \A p \in Proc : /\ WF_allVars(OfStart(Boot(p)))
                       /\ WF_allVars(OfStart(Statement(p)))
=============================================================================

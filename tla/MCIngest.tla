------------------------------ MODULE MCIngest ------------------------------
(* Small instances of Ingest, with one message of two media items and one    *)
(* without, and of CatchUp, for TLC.  The two share no state: a behaviour    *)
(* takes the steps of one of them.                                           *)
EXTENDS Ingest, CatchUp, TLC

VARIABLE part

CONSTANTS d1, d2, c1, c2, c3, m1, m2, q1, q2

MCMediaCount == (m1 :> 2) @@ (m2 :> 0)

MCInit == Init /\ CatchUpInit /\ part \in {"ingest", "catchup"}

MCNext ==
    \/ part = "ingest" /\ Next /\ UNCHANGED <<part, catchUpVars>>
    \/ part = "catchup" /\ CatchUpNext /\ UNCHANGED <<part, vars>>

\* The fairness of FairSpec.
FairDeliver(d) == part = "ingest" /\ Deliver(d) /\ UNCHANGED part

MCSpec ==
    /\ MCInit /\ [][MCNext]_<<part, vars, catchUpVars>>
    /\ \A d \in Deliveries : WF_<<part, vars>>(FairDeliver(d))
=============================================================================

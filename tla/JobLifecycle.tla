---------------------------- MODULE JobLifecycle ----------------------------
(***************************************************************************)
(* What internal/exports promises its users: an export job is queued, then *)
(* runs, then ends once; its artifact can be had exactly while the job is  *)
(* completed; and it may be removed at any time.                           *)
(***************************************************************************)
CONSTANT Jobs

VARIABLES
    status,   \* of the job, as GET /api/exports/{id} shows it
    served    \* the jobs whose artifact can be downloaded in full

Init == /\ status = [j \in Jobs |-> "none"]
        /\ served = {}

Move(j, from, to) == /\ status[j] \in from
                     /\ status' = [status EXCEPT ![j] = to]

Queue(j) == Move(j, {"none"}, "queued") /\ UNCHANGED served
Start(j) == Move(j, {"queued"}, "running") /\ UNCHANGED served
Complete(j) == Move(j, {"running"}, "completed") /\ served' = served \cup {j}
Fail(j) == Move(j, {"running"}, "failed") /\ UNCHANGED served
Remove(j) == /\ Move(j, {"queued", "running", "completed", "failed"}, "gone")
             /\ served' = served \ {j}

Next == \E j \in Jobs : Queue(j) \/ Start(j) \/ Complete(j) \/ Fail(j) \/ Remove(j)

Spec == Init /\ [][Next]_<<status, served>>
=============================================================================

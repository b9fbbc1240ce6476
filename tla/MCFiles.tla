------------------------------ MODULE MCFiles -------------------------------
(* Small instances of ExportJobs and of Startup, which contains Scripts, for *)
(* TLC.  The two share no state: a behaviour takes the steps of one of them, *)
(* and the other stays as it begins.  Startup runs twice: more requests for  *)
(* scripts while there is an administrator, fewer with administrators that   *)
(* demote each other.                                                        *)
EXTENDS ExportJobs, Startup, TLC

VARIABLE part

CONSTANTS j1, j2, d1, d2, old, new, boot, q1, q2, admin, user, acc

MCInit == Init /\ StartupInit /\ part \in {"exports", "scripts", "admins"}

MCNext ==
    \/ part = "exports" /\ Next /\ UNCHANGED <<part, startupVars>>
    \/ part = "scripts" /\ StartupNext /\ users' # "leaderless" /\ UNCHANGED <<part, vars>>
    \/ part = "admins" /\ StartupNext /\ scriptAsks' <= 1 /\ UNCHANGED <<part, vars>>

\* The fairness of FairSpec and FairStartup, each where it is the one that runs.
FairWorker(j) == part = "exports" /\ Worker(j) /\ UNCHANGED part
FairBoot == part # "exports" /\ BootStep /\ UNCHANGED part
FairEnd == part # "exports" /\ (Shutdown \/ TimeOut) /\ UNCHANGED part
FairWork(q) == part # "exports" /\ Work(q) /\ UNCHANGED part

MCSpec ==
    /\ MCInit /\ [][MCNext]_<<part, vars, startupVars>>
    /\ \A j \in Jobs : WF_<<part, vars>>(FairWorker(j))
    /\ WF_<<part, startupVars>>(FairBoot) /\ WF_<<part, startupVars>>(FairEnd)
    /\ \A q \in ScriptRequests : WF_<<part, startupVars>>(FairWork(q))

(* ServesAgain, of the behaviours that are those of the process.            *)
ProcessServesAgain == part # "exports" => ServesAgain
=============================================================================

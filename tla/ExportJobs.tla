----------------------------- MODULE ExportJobs -----------------------------
(***************************************************************************)
(* internal/exports: the rows of export_jobs, the artifact files, the      *)
(* goroutine of each job (processJob) and the requests that delete jobs.   *)
(* What a document contains is the subject of HistoryPaging.               *)
(*                                                                         *)
(* Nothing ties the goroutine to the row: the updates of a row that is     *)
(* gone succeed without effect, and a process that stops, orderly or not,  *)
(* forgets its goroutines (Shutdown does not wait for them).               *)
(***************************************************************************)
EXTENDS Naturals

CONSTANTS
    Jobs,       \* ids of jobs
    Deleters,   \* DELETE requests
    NoJob,      \* a request without a job
    MaxFaults,  \* bound: statements and file operations that fail
    MaxStops    \* bound: how often the process stops and starts

ASSUME ConstantsAssumption ==
    /\ NoJob \notin Jobs
    /\ MaxFaults \in Nat
    /\ MaxStops \in Nat

VARIABLES
    row,      \* status column of the job, "none" before and "gone" after it exists
    path,     \* artifact_path is set
    file,     \* the artifact on disk
    worker,   \* next step of processJob
    del,      \* what each DELETE request is doing
    faults, stops

vars == <<row, path, file, worker, del, faults, stops>>

Status == {"none", "queued", "running", "completed", "failed", "gone"}
Steps == {"idle", "mark", "load", "build", "write", "writing", "complete", "fail"}
IdleDel == [at |-> "idle", job |-> NoJob, path |-> FALSE]

Init ==
    /\ row = [j \in Jobs |-> "none"]
    /\ path = [j \in Jobs |-> FALSE]
    /\ file = [j \in Jobs |-> "none"]
    /\ worker = [j \in Jobs |-> "idle"]
    /\ del = [d \in Deleters |-> IdleDel]
    /\ faults = 0 /\ stops = 0

-----------------------------------------------------------------------------
\* Mutant of Update: an upsert, which brings a deleted row back.
Upsert(j, st) == row' = [row EXCEPT ![j] = st]

\* UPDATE export_jobs ... WHERE id: no error when the row is gone.
Update(j, st) == row' = [row EXCEPT ![j] = IF @ = "gone" THEN @ ELSE st]

Goto(j, step) == worker' = [worker EXCEPT ![j] = step]

Fault == faults < MaxFaults /\ faults' = faults + 1
NoFault == UNCHANGED faults

(* CreateJob, after its checks, and processJob. *)

Create(j) ==
    /\ row[j] = "none"
    /\ row' = [row EXCEPT ![j] = "queued"]
    /\ Goto(j, "mark")
    /\ UNCHANGED <<path, file, del, faults, stops>>

MarkRunning(j) ==
    /\ worker[j] = "mark"
    /\ \/ Update(j, "running") /\ Goto(j, "load") /\ NoFault
       \/ UNCHANGED row /\ Goto(j, "idle") /\ Fault
    /\ UNCHANGED <<path, file, del, stops>>

Load(j) ==
    /\ worker[j] = "load"
    /\ \/ row[j] # "gone" /\ Goto(j, "build") /\ NoFault
       \/ row[j] = "gone" /\ Goto(j, "idle") /\ NoFault
       \/ Goto(j, "idle") /\ Fault
    /\ UNCHANGED <<row, path, file, del, stops>>

\* Mutant of Build: an error ends processJob without failJob.
BuildSilently(j) ==
    /\ worker[j] = "build"
    /\ Goto(j, "write") \/ Goto(j, "idle")
    /\ UNCHANGED <<row, path, file, del, faults, stops>>

\* buildDocument, render and MkdirAll: any of them may report an error, for
\* one because a chat of the selection was deleted.
Build(j) ==
    /\ worker[j] = "build"
    /\ Goto(j, "write") \/ Goto(j, "fail")
    /\ UNCHANGED <<row, path, file, del, faults, stops>>

\* os.WriteFile creates or truncates the file, then fills it.
StartWrite(j) ==
    /\ worker[j] = "write"
    /\ \/ file' = [file EXCEPT ![j] = "partial"] /\ Goto(j, "writing") /\ NoFault
       \/ UNCHANGED file /\ Goto(j, "fail") /\ Fault
    /\ UNCHANGED <<row, path, del, stops>>

\* Mutant of FinishWrite: the error of a short write is dropped.
FinishWriteUnchecked(j) ==
    /\ worker[j] = "writing"
    /\ \/ file' = [file EXCEPT ![j] = "whole"] /\ NoFault
       \/ UNCHANGED file /\ Fault
    /\ Goto(j, "complete")
    /\ UNCHANGED <<row, path, del, stops>>

FinishWrite(j) ==
    /\ worker[j] = "writing"
    /\ \/ file' = [file EXCEPT ![j] = "whole"] /\ Goto(j, "complete") /\ NoFault
       \/ UNCHANGED file /\ Goto(j, "fail") /\ Fault
    /\ UNCHANGED <<row, path, del, stops>>

MarkCompleted(j) ==
    /\ worker[j] = "complete"
    /\ \/ /\ Update(j, "completed")
          /\ path' = IF row[j] = "gone" THEN path ELSE [path EXCEPT ![j] = TRUE]
          /\ NoFault
       \/ UNCHANGED <<row, path>> /\ Fault
    /\ Goto(j, "idle")
    /\ UNCHANGED <<file, del, stops>>

MarkFailed(j) ==
    /\ worker[j] = "fail"
    /\ \/ Update(j, "failed") /\ NoFault
       \/ UNCHANGED row /\ Fault
    /\ Goto(j, "idle")
    /\ UNCHANGED <<path, file, del, stops>>

Worker(j) == \/ MarkRunning(j) \/ Load(j) \/ Build(j) \/ StartWrite(j)
             \/ FinishWrite(j) \/ MarkCompleted(j) \/ MarkFailed(j)

-----------------------------------------------------------------------------
(* DeleteJob. *)

\* Mutant of Lookup: the path is made up from the id, not read from the row.
LookupById(d, j) ==
    /\ del[d] = IdleDel
    /\ row[j] \notin {"none", "gone"}
    /\ del' = [del EXCEPT ![d] = [at |-> "delete", job |-> j, path |-> TRUE]]
    /\ UNCHANGED <<row, path, file, worker, faults, stops>>

Lookup(d, j) ==
    /\ del[d] = IdleDel
    /\ row[j] \notin {"none", "gone"}
    /\ del' = [del EXCEPT ![d] = [at |-> "delete", job |-> j, path |-> path[j]]]
    /\ UNCHANGED <<row, path, file, worker, faults, stops>>

\* The row goes; without a row, or with an error, the request ends here.
DeleteRow(d) ==
    LET j == del[d].job IN
    /\ del[d].at = "delete"
    /\ \/ /\ row[j] # "gone"
          /\ row' = [row EXCEPT ![j] = "gone"]
          /\ del' = [del EXCEPT ![d] = IF @.path THEN [at |-> "remove", job |-> j, path |-> TRUE]
                                            ELSE IdleDel]
          /\ NoFault
       \/ row[j] = "gone" /\ UNCHANGED row /\ del' = [del EXCEPT ![d] = IdleDel] /\ NoFault
       \/ UNCHANGED row /\ del' = [del EXCEPT ![d] = IdleDel] /\ Fault
    /\ UNCHANGED <<path, file, worker, stops>>

\* os.Remove; its error is only logged.
RemoveFile(d) ==
    LET j == del[d].job IN
    /\ del[d].at = "remove"
    /\ \/ file' = [file EXCEPT ![j] = "none"] /\ NoFault
       \/ UNCHANGED file /\ Fault
    /\ del' = [del EXCEPT ![d] = IdleDel]
    /\ UNCHANGED <<row, path, worker, stops>>

Deleter(d) == (\E j \in Jobs : Lookup(d, j)) \/ DeleteRow(d) \/ RemoveFile(d)

-----------------------------------------------------------------------------
\* The account or the chat of the job is deleted: ON DELETE CASCADE.
Cascade(j) ==
    /\ row[j] \notin {"none", "gone"}
    /\ row' = [row EXCEPT ![j] = "gone"]
    /\ UNCHANGED <<path, file, worker, del, faults, stops>>

\* The process stops and starts; nothing looks at unfinished jobs.
Restart ==
    /\ stops < MaxStops
    /\ stops' = stops + 1
    /\ worker' = [j \in Jobs |-> "idle"]
    /\ del' = [d \in Deleters |-> IdleDel]
    /\ UNCHANGED <<row, path, file, faults>>

Next == \/ \E j \in Jobs : Create(j) \/ Worker(j) \/ Cascade(j)
        \/ \E d \in Deleters : Deleter(d)
        \/ Restart

Spec == Init /\ [][Next]_vars

\* The Go scheduler runs every goroutine; users need not delete anything.
FairSpec == Spec /\ \A j \in Jobs : WF_vars(Worker(j))
-----------------------------------------------------------------------------
(* Properties. *)

TypeOK ==
    /\ row \in [Jobs -> Status]
    /\ path \in [Jobs -> BOOLEAN]
    /\ file \in [Jobs -> {"none", "partial", "whole"}]
    /\ worker \in [Jobs -> Steps]
    /\ del \in [Deleters -> [at : {"idle", "delete", "remove"},
                             job : Jobs \cup {NoJob}, path : BOOLEAN]]
    /\ faults \in 0..MaxFaults /\ stops \in 0..MaxStops

(* A job that is shown as completed can be downloaded in full, whatever    *)
(* deletions, failed writes and restarts happen around it (processJob,     *)
(* DeleteJob).                                                             *)
ArtifactServed == \A j \in Jobs : row[j] = "completed" => path[j] /\ file[j] = "whole"

(* The artifact that DeleteJob is about to remove stays removed: its       *)
(* worker has written it for the last time.                                *)
RemovalIsFinal ==
    \A d \in Deleters : del[d].at = "remove" => worker[del[d].job] = "idle"

(* Of the requests that delete a job at the same time one goes on to       *)
(* remove its file; the others report that there is no such job.           *)
OneRemover ==
    \A d, e \in Deleters :
        del[d].at = "remove" /\ del[e].at = "remove" /\ del[d].job = del[e].job => d = e

(* processJob and DeleteJob implement the life cycle users are shown.      *)
Served == {j \in Jobs : row[j] = "completed" /\ file[j] = "whole"}

Lifecycle == INSTANCE JobLifecycle WITH status <- row, served <- Served
ImplementsLifecycle == Lifecycle!Spec

(* Every job ends unless a statement or a file operation failed on the way *)
(* or the process stopped (processJob, failJob).                           *)
Ended(j) == row[j] \in {"completed", "failed", "gone"}
JobEndsUndisturbed ==
    \A j \in Jobs : row[j] = "queued" ~> Ended(j) \/ faults > 0 \/ stops > 0

(* Every job ends: the acceptance test of the platform.                    *)
JobEnds == \A j \in Jobs : row[j] = "queued" ~> Ended(j)
=============================================================================

---------------------------- MODULE FilesProofs -----------------------------
(***************************************************************************)
(* Proofs about ExportJobs, Scripts and Startup: the files that rows speak *)
(* of.  The rows, files and goroutines of the exports implement            *)
(* JobLifecycle; starts and requests of scripts lose no script.            *)
(***************************************************************************)
EXTENDS ExportJobs, Startup, TLAPS

\* How far the goroutine of a job has come tells what its row and file are.
RowOfWorker ==
    \A j \in Jobs :
        /\ row[j] = "none" => worker[j] = "idle"
        /\ worker[j] = "mark" => row[j] \in {"queued", "gone"}
        /\ worker[j] \in {"load", "build", "write", "writing", "complete", "fail"}
             => row[j] \in {"running", "gone"}
        /\ worker[j] = "complete" => file[j] = "whole"

\* The path is stored last, and by then the goroutine is done.
PathIsLast ==
    \A j \in Jobs : path[j] => row[j] \in {"completed", "gone"} /\ worker[j] = "idle"

CompletedIsServed ==
    \A j \in Jobs : row[j] = "completed" => path[j] /\ file[j] = "whole" /\ worker[j] = "idle"

\* A deleter that read a path outlives the goroutine.
DeleterIsLast ==
    \A d \in Deleters :
        del[d].at # "idle" =>
            /\ del[d].job \in Jobs /\ row[del[d].job] # "none"
            /\ del[d].path => worker[del[d].job] = "idle" /\ row[del[d].job] \in {"completed", "gone"}
            /\ del[d].at = "remove" => del[d].path /\ row[del[d].job] = "gone"

IInv == TypeOK /\ RowOfWorker /\ PathIsLast /\ CompletedIsServed /\ DeleterIsLast /\ OneRemover

-----------------------------------------------------------------------------
LEMMA InitIInv == Init => IInv
<1> SUFFICES ASSUME Init PROVE IInv
    OBVIOUS
<1> USE ConstantsAssumption DEF ConstantsAssumption, Init, IdleDel
<1>1. TypeOK
  BY DEF TypeOK, Status, Steps
<1>2. RowOfWorker /\ PathIsLast /\ CompletedIsServed
  BY DEF RowOfWorker, PathIsLast, CompletedIsServed
<1>3. DeleterIsLast /\ OneRemover
  BY DEF DeleterIsLast, OneRemover
<1>4. QED
  BY <1>1, <1>2, <1>3 DEF IInv

LEMMA StepTypeOK ==
  ASSUME TypeOK, [Next]_vars
  PROVE  TypeOK'
<1> USE ConstantsAssumption
    DEF ConstantsAssumption, TypeOK, Status, Steps, Goto, Fault, NoFault, Update, IdleDel
<1>1. ASSUME NEW j \in Jobs, Create(j) PROVE TypeOK'
  BY <1>1 DEF Create
<1>2. ASSUME NEW j \in Jobs, Worker(j) PROVE TypeOK'
  <2>1. CASE MarkRunning(j)
    BY <2>1 DEF MarkRunning
  <2>2. CASE Load(j)
    BY <2>2 DEF Load
  <2>3. CASE Build(j)
    BY <2>3 DEF Build
  <2>4. CASE StartWrite(j)
    BY <2>4 DEF StartWrite
  <2>5. CASE FinishWrite(j)
    BY <2>5 DEF FinishWrite
  <2>6. CASE MarkCompleted(j)
    <3>1. path' = path \/ path' = [path EXCEPT ![j] = TRUE]
      BY <2>6 DEF MarkCompleted
    <3>2. path' \in [Jobs -> BOOLEAN]
      BY <3>1
    <3>3. row' = row \/ row' = [row EXCEPT ![j] = IF @ = "gone" THEN @ ELSE "completed"]
      BY <2>6 DEF MarkCompleted
    <3>4. row' \in [Jobs -> Status]
      BY <3>3
    <3>5. /\ UNCHANGED <<file, del, stops>> /\ worker' = [worker EXCEPT ![j] = "idle"]
          /\ faults' \in 0..MaxFaults
      BY <2>6 DEF MarkCompleted
    <3>6. QED
      BY <3>2, <3>4, <3>5
  <2>7. CASE MarkFailed(j)
    BY <2>7 DEF MarkFailed
  <2> HIDE DEF TypeOK
  <2>8. QED
    BY <1>2, <2>1, <2>2, <2>3, <2>4, <2>5, <2>6, <2>7 DEF Worker
<1>3. ASSUME NEW j \in Jobs, Cascade(j) PROVE TypeOK'
  BY <1>3 DEF Cascade
<1>4. ASSUME NEW d \in Deleters, Deleter(d) PROVE TypeOK'
  <2>1. ASSUME NEW j \in Jobs, Lookup(d, j) PROVE TypeOK'
    <3>1. del' = [del EXCEPT ![d] = [at |-> "delete", job |-> j, path |-> path[j]]]
      BY <2>1 DEF Lookup
    <3>2. path[j] \in BOOLEAN
      OBVIOUS
    <3>3. [at |-> "delete", job |-> j, path |-> path[j]]
            \in [at : {"idle", "delete", "remove"}, job : Jobs \cup {NoJob}, path : BOOLEAN]
      BY <3>2
    <3>4. QED
      BY <2>1, <3>1, <3>3 DEF Lookup
  <2>2. CASE DeleteRow(d)
    <3> DEFINE j == del[d].job
               T == [at : {"idle", "delete", "remove"}, job : Jobs \cup {NoJob}, path : BOOLEAN]
    <3>1. IdleDel \in T /\ [at |-> "remove", job |-> j, path |-> TRUE] \in T
      OBVIOUS
    <3>2. \/ del' = [del EXCEPT ![d] = IdleDel]
          \/ del' = [del EXCEPT ![d] = [at |-> "remove", job |-> j, path |-> TRUE]]
      BY <2>2 DEF DeleteRow
    <3>3. del' \in [Deleters -> T]
      BY <3>1, <3>2
    <3>4. row' = row \/ row' = [row EXCEPT ![j] = "gone"]
      BY <2>2 DEF DeleteRow
    <3>5. row' \in [Jobs -> Status]
      BY <3>4
    <3>6. QED
      BY <2>2, <3>3, <3>5 DEF DeleteRow
  <2>3. CASE RemoveFile(d)
    BY <2>3 DEF RemoveFile
  <2> HIDE DEF TypeOK
  <2>4. QED
    BY <1>4, <2>1, <2>2, <2>3 DEF Deleter
<1>5. CASE Restart
  BY <1>5 DEF Restart
<1>6. CASE UNCHANGED vars
  BY <1>6 DEF vars
<1> HIDE DEF TypeOK
<1>7. QED
  BY <1>1, <1>2, <1>3, <1>4, <1>5, <1>6 DEF Next

LEMMA StepIInv ==
  ASSUME IInv, [Next]_vars
  PROVE  IInv'
<1> USE ConstantsAssumption DEF ConstantsAssumption
<1> DEFINE Rest == RowOfWorker /\ PathIsLast /\ CompletedIsServed /\ DeleterIsLast /\ OneRemover
<1>0. TypeOK'
  BY StepTypeOK DEF IInv
<1> USE <1>0
    DEF IInv, TypeOK, RowOfWorker, PathIsLast, CompletedIsServed, DeleterIsLast, OneRemover,
        Goto, Update
<1>1. ASSUME NEW j \in Jobs, Create(j) PROVE Rest'
  BY <1>1 DEF Create
<1>2. ASSUME NEW j \in Jobs, Worker(j) PROVE Rest'
  <2>1. CASE MarkRunning(j)
    BY <2>1 DEF MarkRunning
  <2>2. CASE Load(j)
    BY <2>2 DEF Load
  <2>3. CASE Build(j)
    BY <2>3 DEF Build
  <2>4. CASE StartWrite(j)
    BY <2>4 DEF StartWrite
  <2>5. CASE FinishWrite(j)
    BY <2>5 DEF FinishWrite
  <2>6. CASE MarkCompleted(j)
    BY <2>6 DEF MarkCompleted
  <2>7. CASE MarkFailed(j)
    BY <2>7 DEF MarkFailed
  <2> HIDE DEF Rest
  <2>8. QED
    BY <1>2, <2>1, <2>2, <2>3, <2>4, <2>5, <2>6, <2>7 DEF Worker
<1>3. ASSUME NEW j \in Jobs, Cascade(j) PROVE Rest'
  BY <1>3 DEF Cascade
<1>4. ASSUME NEW d \in Deleters, Deleter(d) PROVE Rest'
  <2>1. ASSUME NEW j \in Jobs, Lookup(d, j) PROVE Rest'
    BY <2>1 DEF Lookup
  <2>2. CASE DeleteRow(d)
    <3> DEFINE j == del[d].job
    <3>1. CASE del' = [del EXCEPT ![d] = IdleDel] /\ row' = row
      BY <2>2, <3>1 DEF DeleteRow, IdleDel
    <3>2. CASE row[j] # "gone" /\ row' = [row EXCEPT ![j] = "gone"]
      BY <2>2, <3>2 DEF DeleteRow, IdleDel
    <3>3. QED
      BY <2>2, <3>1, <3>2 DEF DeleteRow
  <2>3. CASE RemoveFile(d)
    BY <2>3 DEF RemoveFile, IdleDel
  <2> HIDE DEF Rest
  <2>4. QED
    BY <1>4, <2>1, <2>2, <2>3 DEF Deleter
<1>5. ASSUME Restart PROVE Rest'
  BY <1>5 DEF Restart, IdleDel
<1>6. ASSUME UNCHANGED vars PROVE Rest'
  BY <1>6 DEF vars
<1> HIDE DEF Rest
<1>7. Rest'
  BY <1>1, <1>2, <1>3, <1>4, <1>5, <1>6 DEF Next
<1>8. QED
  BY <1>0, <1>7 DEF Rest

LEMMA Invariance == Spec => []IInv
  BY InitIInv, StepIInv, PTL DEF Spec

(* For any number of jobs, deletions, faults and restarts: a completed job *)
(* has its whole artifact, and one of several deletions removes it         *)
(* (processJob, DeleteJob).                                                *)
THEOREM ArtifactSafe == Spec => [](ArtifactServed /\ OneRemover)
<1>1. IInv => ArtifactServed /\ OneRemover
  BY DEF IInv, CompletedIsServed, ArtifactServed
<1>2. QED
  BY <1>1, Invariance, PTL

(* The artifact that DeleteJob is about to remove has been written for the *)
(* last time: its goroutine has ended (processJob checks the row again).   *)
THEOREM RemovedForGood == Spec => []RemovalIsFinal
<1>1. IInv => RemovalIsFinal
  BY DEF IInv, DeleterIsLast, RemovalIsFinal
<1>2. QED
  BY <1>1, Invariance, PTL

(* For any number of jobs, deletions, faults and restarts: what users see  *)
(* of the jobs is a behaviour of JobLifecycle (processJob, DeleteJob).     *)
THEOREM Refinement == Spec => ImplementsLifecycle
<1>1. Init => Lifecycle!Init
  BY DEF Init, Lifecycle!Init, Served
<1>2. IInv /\ IInv' /\ [Next]_vars => [Lifecycle!Next]_<<row, Served>>
  <2> SUFFICES ASSUME IInv, IInv', [Next]_vars
               PROVE  [Lifecycle!Next]_<<row, Served>>
    OBVIOUS
  <2> USE DEF Lifecycle!Next, Lifecycle!Move, Lifecycle!Queue, Lifecycle!Start,
              Lifecycle!Complete, Lifecycle!Fail, Lifecycle!Remove
  <2>0. /\ Served = {j \in Jobs : row[j] = "completed"}
        /\ Served' = {j \in Jobs : row'[j] = "completed"}
        /\ row \in [Jobs -> Status]
    BY DEF IInv, TypeOK, CompletedIsServed, Served
  \* A step changes the status of one job, if of any.
  <2>1. ASSUME UNCHANGED row PROVE UNCHANGED <<row, Served>>
    BY <2>0, <2>1
  <2>2. ASSUME NEW j \in Jobs, NEW st \in Status, row' = [row EXCEPT ![j] = st],
               \/ st = "queued" /\ row[j] = "none"
               \/ st = "running" /\ row[j] = "queued"
               \/ st \in {"completed", "failed"} /\ row[j] = "running"
               \/ st = "gone" /\ row[j] \notin {"none", "gone"}
        PROVE  Lifecycle!Next
    <3>1. Served' = IF st = "completed" THEN Served \cup {j} ELSE Served \ {j}
      BY <2>0, <2>2
    <3>2. row[j] # "completed" => Served \ {j} = Served
      BY <2>0
    <3>3. CASE st = "queued"
      <4>1. Lifecycle!Queue(j)
        BY <2>2, <3>1, <3>2, <3>3
      <4>2. QED
        BY <4>1
    <3>4. CASE st = "running"
      <4>1. Lifecycle!Start(j)
        BY <2>2, <3>1, <3>2, <3>4
      <4>2. QED
        BY <4>1
    <3>5. CASE st = "completed"
      <4>1. Lifecycle!Complete(j)
        BY <2>2, <3>1, <3>2, <3>5
      <4>2. QED
        BY <4>1
    <3>6. CASE st = "failed"
      <4>1. Lifecycle!Fail(j)
        BY <2>2, <3>1, <3>2, <3>6
      <4>2. QED
        BY <4>1
    <3>7. CASE st = "gone"
      <4>1. row[j] \in {"queued", "running", "completed", "failed"}
        BY <2>0, <2>2, <3>7 DEF Status
      <4>2. Lifecycle!Remove(j)
        BY <2>2, <3>1, <3>7, <4>1
      <4>3. QED
        BY <4>2
    <3>8. QED
      BY <2>2, <3>3, <3>4, <3>5, <3>6, <3>7
  <2>3. ASSUME NEW j \in Jobs, NEW st \in Status, Update(j, st), row[j] = "gone"
        PROVE  UNCHANGED row
    BY <2>0, <2>3 DEF Update
  <2>4. ASSUME NEW j \in Jobs, NEW st \in Status, Update(j, st), row[j] # "gone"
        PROVE  row' = [row EXCEPT ![j] = st]
    BY <2>4 DEF Update
  <2>5. ASSUME NEW j \in Jobs, Worker(j)
        PROVE  Lifecycle!Next \/ UNCHANGED row
    <3>1. CASE MarkRunning(j)
      BY <2>2, <2>3, <2>4, <3>1 DEF MarkRunning, IInv, RowOfWorker, Status
    <3>2. CASE MarkCompleted(j)
      BY <2>2, <2>3, <2>4, <3>2 DEF MarkCompleted, IInv, RowOfWorker, Status
    <3>3. CASE MarkFailed(j)
      BY <2>2, <2>3, <2>4, <3>3 DEF MarkFailed, IInv, RowOfWorker, Status
    <3>4. CASE Load(j) \/ Build(j) \/ StartWrite(j) \/ FinishWrite(j)
      BY <3>4 DEF Load, Build, StartWrite, FinishWrite
    <3>5. QED
      BY <2>5, <3>1, <3>2, <3>3, <3>4 DEF Worker
  <2>6. ASSUME NEW j \in Jobs, Create(j) \/ Cascade(j) PROVE Lifecycle!Next
    BY <2>2, <2>6 DEF Create, Cascade, Status
  <2>7. ASSUME NEW d \in Deleters, Deleter(d)
        PROVE  Lifecycle!Next \/ UNCHANGED row
    <3>1. CASE DeleteRow(d)
      <4>1. del[d].job \in Jobs /\ row[del[d].job] # "none"
        BY <3>1 DEF DeleteRow, IInv, DeleterIsLast
      <4>2. QED
        BY <2>2, <3>1, <4>1 DEF DeleteRow, Status
    <3>2. CASE RemoveFile(d) \/ \E j \in Jobs : Lookup(d, j)
      BY <3>2 DEF RemoveFile, Lookup
    <3>3. QED
      BY <2>7, <3>1, <3>2 DEF Deleter
  <2>8. CASE Restart \/ UNCHANGED vars
    BY <2>1, <2>8 DEF Restart, vars
  <2>9. QED
    BY <2>1, <2>5, <2>6, <2>7, <2>8 DEF Next
<1>3. QED
  BY <1>1, <1>2, Invariance, PTL DEF Spec, Lifecycle!Spec, ImplementsLifecycle

-----------------------------------------------------------------------------
(* Starts of the process, and the requests for scripts.                    *)

RequestType ==
    [at : {"idle", "lock", "file", "read", "index", "write", "remove", "assigned"},
     op : {"none", "upload", "delete", "assign"},
     doc : Docs \cup {NoDoc}, user : Users \cup {NoOwner}]

\* What a request that was let in is for; only the start assigns.
KnowsItsTask(q) ==
    LET r == scriptReq[q] IN
    /\ r.at = "idle" => r.op = "none" /\ r.doc = NoDoc
    /\ r.at # "idle" => r.op # "none" /\ r.user \in Users
    /\ r.op \in {"upload", "delete"} => r.doc \in Docs
    /\ r.at = "file" => r.op = "upload"
    /\ r.at = "remove" => r.op = "delete"
    /\ r.op = "assign" => r.user \in Admins
    /\ r.op = "assign" <=> (q = Boot /\ r.at # "idle")

\* What it may rely on: the document of an upload is not listed yet, that of a
\* deletion need not be kept.
HasItsDocument(q) ==
    LET r == scriptReq[q] IN
    /\ r.op = "upload" => index[r.doc] = Absent
    /\ r.op = "upload" /\ r.at \in {"read", "index", "write"} => content[r.doc] = "whole"
    /\ r.op = "delete" => (r.user \in Admins => kept[r.doc] = Absent) /\ kept[r.doc] # r.user
    /\ r.op = "delete" /\ r.at \in {"index", "write"} => r.user \in Admins \/ index[r.doc] = r.user
    /\ r.at = "remove" => index[r.doc] = Absent
    /\ r.at = "assigned" => \A d \in Docs : index[d] # NoOwner

\* Nobody else works on the document of an upload; one request holds the mutex.
Apart ==
    /\ \A p, q \in ScriptRequests : scriptReq[q].op = "upload" /\ p # q => scriptReq[p].doc # scriptReq[q].doc
    /\ \A p, q \in ScriptRequests : ~Waiting(p) /\ ~Waiting(q) => p = q

KeptIsListed ==
    \A d \in Docs :
        /\ kept[d] # Absent => index[d] = kept[d]
        /\ index[d] # Absent => content[d] = "whole"

ScriptInv ==
    /\ ScriptTypeOK
    /\ \A q \in ScriptRequests : KnowsItsTask(q) /\ HasItsDocument(q)
    /\ Apart /\ KeptIsListed

-----------------------------------------------------------------------------
LEMMA IdleFacts ==
    /\ IdleRequest \in RequestType
    /\ IdleRequest.at = "idle" /\ IdleRequest.op = "none" /\ IdleRequest.doc = NoDoc
BY DEF IdleRequest, Request, RequestType

LEMMA ScriptInitInv == ScriptInit => ScriptInv
<1> SUFFICES ASSUME ScriptInit PROVE ScriptInv
  OBVIOUS
<1> USE ScriptConstants, IdleFacts DEF ScriptConstants, ScriptInit
<1>1. ScriptTypeOK
  <2>1. index \in [Docs -> Users \cup {NoOwner, Absent}] /\ kept = index
    OBVIOUS
  <2>2. content \in [Docs -> {"none", "part", "whole"}]
    OBVIOUS
  <2>3. scriptReq \in [ScriptRequests -> RequestType]
    OBVIOUS
  <2>4. scriptAsks \in 0..MaxScriptAsks /\ failures \in 0..MaxFailures
    OBVIOUS
  <2>5. torn \in BOOLEAN
    OBVIOUS
  <2>6. QED
    BY <2>1, <2>2, <2>3, <2>4, <2>5 DEF ScriptTypeOK, RequestType
<1>2. \A q \in ScriptRequests : KnowsItsTask(q) /\ HasItsDocument(q)
  BY DEF KnowsItsTask, HasItsDocument
<1>3. Apart /\ KeptIsListed
  BY DEF Apart, Waiting, KeptIsListed
<1>4. QED
  BY <1>1, <1>2, <1>3 DEF ScriptInv

\* A step of a request that leaves the index alone.
LEMMA RequestMoves ==
  ASSUME ScriptInv, NEW q \in ScriptRequests, NEW w \in RequestType,
         scriptReq' = [scriptReq EXCEPT ![q] = w], UNCHANGED <<index, kept>>,
         torn' \in BOOLEAN, content' \in [Docs -> {"none", "part", "whole"}],
         scriptAsks' \in 0..MaxScriptAsks, failures' \in 0..MaxFailures,
         \A d \in Docs : content'[d] = content[d] \/ (index[d] = Absent /\ d = scriptReq[q].doc),
         w.at = "idle" \/ (w.op = scriptReq[q].op /\ w.doc = scriptReq[q].doc),
         w.at \in {"idle", "lock"} \/ ~Waiting(q) \/ ~Locked,
         KnowsItsTask(q)', HasItsDocument(q)'
  PROVE  ScriptInv'
<1>1. /\ scriptReq' \in [ScriptRequests -> RequestType] /\ scriptReq'[q] = w
      /\ \A p \in ScriptRequests \ {q} : scriptReq'[p] = scriptReq[p]
  BY DEF ScriptInv, ScriptTypeOK, RequestType
<1>2. ScriptTypeOK'
  BY <1>1 DEF ScriptInv, ScriptTypeOK, RequestType
<1>3. \A p \in ScriptRequests : scriptReq[p].op = "upload" => scriptReq[p].doc \in Docs
  BY DEF ScriptInv, KnowsItsTask
<1>4. \A p \in ScriptRequests \ {q} : scriptReq[p].op = "upload" => scriptReq[q].doc # scriptReq[p].doc
  BY DEF ScriptInv, Apart
<1>5. ASSUME NEW p \in ScriptRequests, p # q PROVE KnowsItsTask(p)' /\ HasItsDocument(p)'
  <2>1. KnowsItsTask(p) /\ HasItsDocument(p) /\ scriptReq'[p] = scriptReq[p]
    BY <1>1, <1>5 DEF ScriptInv
  <2>2. KnowsItsTask(p)'
    BY <2>1 DEF KnowsItsTask
  <2>3. scriptReq[p].op = "upload" => content'[scriptReq[p].doc] = content[scriptReq[p].doc]
    BY <1>3, <1>4, <1>5
  <2>4. HasItsDocument(p)'
    BY <2>1, <2>3 DEF HasItsDocument
  <2>5. QED
    BY <2>2, <2>4
<1>6. Apart'
  <2>1. w.at = "idle" => w.op = "none" /\ w.doc = NoDoc
    BY <1>1 DEF KnowsItsTask
  <2>2. ASSUME NEW o \in ScriptRequests, NEW p \in ScriptRequests, scriptReq'[p].op = "upload", o # p
        PROVE  scriptReq'[o].doc # scriptReq'[p].doc
    <3>1. CASE p = q
      BY <1>1, <2>1, <2>2, <3>1 DEF ScriptInv, Apart
    <3>2. CASE o = q
      BY <1>1, <1>3, <1>4, <2>1, <2>2, <3>2, ScriptConstants DEF ScriptConstants
    <3>3. CASE p # q /\ o # q
      BY <1>1, <2>2, <3>3 DEF ScriptInv, Apart
    <3>4. QED
      BY <3>1, <3>2, <3>3
  <2>3. \A o, p \in ScriptRequests : ~Waiting(o)' /\ ~Waiting(p)' => o = p
    BY <1>1 DEF ScriptInv, Apart, Waiting, Locked
  <2>4. QED
    BY <2>2, <2>3 DEF Apart
<1>7. KeptIsListed'
  BY DEF ScriptInv, KeptIsListed
<1>8. QED
  BY <1>2, <1>5, <1>6, <1>7 DEF ScriptInv

\* GoTo and Leave are such steps.
LEMMA GoToKeeps ==
  ASSUME ScriptInv, NEW q \in ScriptRequests,
         NEW at \in {"lock", "file", "read", "index", "write", "remove", "assigned"},
         scriptReq[q].at # "idle", GoTo(q, at), UNCHANGED <<index, kept>>,
         torn' \in BOOLEAN, content' \in [Docs -> {"none", "part", "whole"}],
         scriptAsks' \in 0..MaxScriptAsks, failures' \in 0..MaxFailures,
         \A d \in Docs : content'[d] = content[d] \/ (index[d] = Absent /\ d = scriptReq[q].doc),
         at = "lock" \/ ~Waiting(q) \/ ~Locked,
         at = "file" => scriptReq[q].op = "upload", at = "remove" => scriptReq[q].op = "delete",
         scriptReq[q].op = "upload" /\ at \in {"read", "index", "write"} => content'[scriptReq[q].doc] = "whole",
         scriptReq[q].op = "delete" /\ at \in {"index", "write"} =>
            scriptReq[q].user \in Admins \/ index[scriptReq[q].doc] = scriptReq[q].user,
         at = "remove" => index[scriptReq[q].doc] = Absent,
         at = "assigned" => \A d \in Docs : index[d] # NoOwner
  PROVE  ScriptInv'
<1> DEFINE w == [scriptReq[q] EXCEPT !.at = at]
<1>1. scriptReq \in [ScriptRequests -> RequestType] /\ KnowsItsTask(q) /\ HasItsDocument(q)
  BY DEF ScriptInv, ScriptTypeOK, RequestType
<1>2. scriptReq' = [scriptReq EXCEPT ![q] = w]
  BY <1>1 DEF GoTo
<1>3. /\ w \in RequestType /\ w.at = at /\ w.op = scriptReq[q].op
      /\ w.doc = scriptReq[q].doc /\ w.user = scriptReq[q].user
  BY <1>1 DEF RequestType
<1> HIDE DEF w
<1>4. scriptReq'[q] = w
  BY <1>1, <1>2
<1>5. KnowsItsTask(q)'
  BY <1>1, <1>3, <1>4 DEF KnowsItsTask
<1>6. HasItsDocument(q)'
  BY <1>1, <1>3, <1>4 DEF HasItsDocument
<1>7. QED
  BY <1>2, <1>3, <1>5, <1>6, RequestMoves

LEMMA LeaveKeeps ==
  ASSUME ScriptInv, NEW q \in ScriptRequests, Leave(q), UNCHANGED <<index, kept>>,
         torn' \in BOOLEAN, content' \in [Docs -> {"none", "part", "whole"}],
         scriptAsks' \in 0..MaxScriptAsks, failures' \in 0..MaxFailures,
         \A d \in Docs : content'[d] = content[d] \/ (index[d] = Absent /\ d = scriptReq[q].doc)
  PROVE  ScriptInv'
<1>1. scriptReq' = [scriptReq EXCEPT ![q] = IdleRequest] /\ scriptReq'[q] = IdleRequest
  BY DEF Leave, ScriptInv, ScriptTypeOK
<1>2. KnowsItsTask(q)' /\ HasItsDocument(q)'
  BY <1>1, IdleFacts DEF KnowsItsTask, HasItsDocument
<1>3. QED
  BY <1>1, <1>2, IdleFacts, RequestMoves

\* What holds of a request before its step, and what a step may count.
LEMMA BeforeStep ==
  ASSUME ScriptInv, NEW q \in ScriptRequests
  PROVE  /\ KnowsItsTask(q) /\ HasItsDocument(q) /\ scriptReq[q] \in RequestType
         /\ content \in [Docs -> {"none", "part", "whole"}] /\ torn \in BOOLEAN
         /\ scriptAsks \in 0..MaxScriptAsks /\ failures \in 0..MaxFailures
         /\ Fails \/ Works => failures' \in 0..MaxFailures
BY ScriptConstants DEF ScriptInv, ScriptTypeOK, RequestType, Fails, Works, ScriptConstants

LEMMA GiveUpKeeps ==
  ASSUME ScriptInv, NEW q \in ScriptRequests, GiveUp(q), scriptReq[q].at \in {"read", "index", "write"},
         UNCHANGED <<index, scriptAsks, kept>>, torn' \in BOOLEAN, Fails \/ Works
  PROVE  ScriptInv'
<1>1. /\ scriptReq[q].op = "upload" => index[scriptReq[q].doc] = Absent /\ scriptReq[q].doc \in Docs
      /\ content \in [Docs -> {"none", "part", "whole"}]
      /\ scriptAsks \in 0..MaxScriptAsks /\ failures' \in 0..MaxFailures
  BY BeforeStep DEF HasItsDocument, KnowsItsTask
<1>2. CASE UNCHANGED content
  BY <1>1, <1>2, LeaveKeeps DEF GiveUp
<1>3. CASE scriptReq[q].op = "upload" /\ content' = [content EXCEPT ![scriptReq[q].doc] = "none"]
  BY <1>1, <1>3, LeaveKeeps DEF GiveUp
<1>4. QED
  BY <1>2, <1>3 DEF GiveUp

LEMMA LockKeeps ==
  ASSUME ScriptInv, NEW q \in ScriptRequests, LockScripts(q)
  PROVE  ScriptInv'
<1> DEFINE at == IF scriptReq[q].op = "upload" THEN "file" ELSE "read"
<1>1. /\ scriptReq[q].at = "lock" /\ ~Locked /\ GoTo(q, at)
      /\ UNCHANGED <<index, torn, content, scriptAsks, failures, kept>>
  BY DEF LockScripts
<1>2. QED
  BY <1>1, BeforeStep, GoToKeeps

LEMMA WriteScriptKeeps ==
  ASSUME ScriptInv, NEW q \in ScriptRequests, WriteScript(q)
  PROVE  ScriptInv'
<1>1. /\ scriptReq[q].at = "file" /\ scriptReq[q].op = "upload" /\ scriptReq[q].doc \in Docs
      /\ index[scriptReq[q].doc] = Absent /\ ~Waiting(q)
      /\ UNCHANGED <<index, torn, scriptAsks, kept>> /\ failures' \in 0..MaxFailures
  BY BeforeStep DEF WriteScript, KnowsItsTask, HasItsDocument, Waiting
<1>2. CASE content' = [content EXCEPT ![scriptReq[q].doc] = "whole"] /\ GoTo(q, "read")
  BY <1>1, <1>2, BeforeStep, GoToKeeps
<1>3. CASE content' \in {[content EXCEPT ![scriptReq[q].doc] = some] : some \in {"none", "part"}} /\ Leave(q)
  BY <1>1, <1>3, BeforeStep, LeaveKeeps
<1>4. QED
  BY <1>2, <1>3 DEF WriteScript

LEMMA ReadIndexKeeps ==
  ASSUME ScriptInv, NEW q \in ScriptRequests, ReadIndex(q)
  PROVE  ScriptInv'
<1>1. /\ scriptReq[q].at = "read" /\ ~Waiting(q)
      /\ UNCHANGED <<index, torn, scriptAsks, kept>>
      /\ scriptReq[q].op = "upload" => content[scriptReq[q].doc] = "whole"
  BY BeforeStep DEF ReadIndex, HasItsDocument, Waiting
<1>2. CASE GiveUp(q) /\ (Fails \/ Works)
  BY <1>1, <1>2, BeforeStep, GiveUpKeeps
<1>3. CASE /\ Works /\ UNCHANGED content /\ GoTo(q, "index")
           /\ \/ scriptReq[q].op = "upload"
              \/ scriptReq[q].op = "delete" /\ MayDelete(scriptReq[q].user, scriptReq[q].doc)
              \/ scriptReq[q].op = "assign"
  BY <1>1, <1>3, BeforeStep, GoToKeeps DEF MayDelete
<1>4. CASE Works /\ UNCHANGED content /\ Leave(q)
  BY <1>1, <1>4, BeforeStep, LeaveKeeps
<1>5. CASE Works /\ UNCHANGED content /\ GoTo(q, "assigned") /\ scriptReq[q].op = "assign" /\ \A d \in Docs : index[d] # NoOwner
  BY <1>1, <1>5, BeforeStep, GoToKeeps
<1>6. QED
  BY <1>2, <1>3, <1>4, <1>5 DEF ReadIndex

LEMMA TruncateKeeps ==
  ASSUME ScriptInv, NEW q \in ScriptRequests, TruncateIndex(q)
  PROVE  ScriptInv'
<1>1. /\ scriptReq[q].at = "index" /\ ~Waiting(q)
      /\ UNCHANGED <<index, scriptAsks, kept>>
      /\ scriptReq[q].op = "upload" => content[scriptReq[q].doc] = "whole"
      /\ scriptReq[q].op = "delete" => scriptReq[q].user \in Admins \/ index[scriptReq[q].doc] = scriptReq[q].user
  BY BeforeStep DEF TruncateIndex, HasItsDocument, Waiting
<1>2. CASE GiveUp(q) /\ Fails /\ UNCHANGED torn
  BY <1>1, <1>2, BeforeStep, GiveUpKeeps
<1>3. CASE torn' = TRUE /\ GoTo(q, "write") /\ Works /\ UNCHANGED content
  BY <1>1, <1>3, BeforeStep, GoToKeeps
<1>4. QED
  BY <1>2, <1>3 DEF TruncateIndex

LEMMA RemoveKeeps ==
  ASSUME ScriptInv, NEW q \in ScriptRequests, RemoveScript(q)
  PROVE  ScriptInv'
<1>1. /\ scriptReq[q].at = "remove" /\ scriptReq[q].doc \in Docs /\ index[scriptReq[q].doc] = Absent
      /\ Leave(q) /\ UNCHANGED <<index, torn, scriptAsks, kept>> /\ failures' \in 0..MaxFailures
      /\ UNCHANGED content \/ content' = [content EXCEPT ![scriptReq[q].doc] = "none"]
  BY BeforeStep DEF RemoveScript, KnowsItsTask, HasItsDocument
<1>2. QED
  BY <1>1, BeforeStep, LeaveKeeps

\* The index is written: only the holder of the mutex works, and the documents of
\* the others stay as they are.  When the start assigns, there are no others.
LEMMA WriteIndexKeeps ==
  ASSUME ScriptInv, NEW q \in ScriptRequests, WriteIndex(q),
         scriptReq[q].op = "assign" => \A p \in ScriptRequests \ {q} : Idle(p)
  PROVE  ScriptInv'
<1> DEFINE r == scriptReq[q]
<1>1. /\ r.at = "write" /\ ~Waiting(q) /\ UNCHANGED scriptAsks
      /\ r.op \in {"upload", "delete", "assign"} /\ r.user \in Users
      /\ r.op # "assign" => r.doc \in Docs
      /\ r \in RequestType
  BY BeforeStep DEF WriteIndex, KnowsItsTask, RequestType, Waiting
<1>2. CASE GiveUp(q) /\ Fails /\ UNCHANGED <<index, torn, kept>>
  BY <1>1, <1>2, BeforeStep, GiveUpKeeps
<1>3. CASE /\ index' = NewIndex(r) /\ torn' = FALSE
           /\ kept' = [d \in Docs |-> IF r.op = "upload" /\ d = r.doc THEN r.user
                                      ELSE IF kept[d] = NoOwner THEN NewIndex(r)[d] ELSE kept[d]]
           /\ \/ r.op = "upload" /\ Leave(q)
              \/ r.op = "delete" /\ GoTo(q, "remove")
              \/ r.op = "assign" /\ GoTo(q, "assigned")
           /\ Works /\ UNCHANGED content
  <2>1. /\ index \in [Docs -> Users \cup {NoOwner, Absent}] /\ kept \in [Docs -> Users \cup {NoOwner, Absent}]
        /\ content \in [Docs -> {"none", "part", "whole"}]
        /\ scriptReq \in [ScriptRequests -> RequestType]
        /\ KnowsItsTask(q) /\ HasItsDocument(q) /\ KeptIsListed
    BY DEF ScriptInv, ScriptTypeOK, RequestType
  <2>2. index' \in [Docs -> Users \cup {NoOwner, Absent}] /\ kept' \in [Docs -> Users \cup {NoOwner, Absent}]
    BY <1>1, <1>3, <2>1 DEF NewIndex
  <2>3. /\ scriptReq' \in [ScriptRequests -> RequestType]
        /\ \A p \in ScriptRequests \ {q} : scriptReq'[p] = scriptReq[p]
        /\ \/ scriptReq'[q] = IdleRequest
           \/ r.op = "delete" /\ scriptReq'[q] = [r EXCEPT !.at = "remove"]
           \/ r.op = "assign" /\ scriptReq'[q] = [r EXCEPT !.at = "assigned"]
    BY <1>1, <1>3, <2>1, IdleFacts DEF GoTo, Leave, RequestType
  <2>4. ScriptTypeOK'
    BY <1>1, <1>3, <2>2, <2>3, BeforeStep DEF ScriptTypeOK, RequestType
  <2>5. ASSUME NEW d \in Docs, r.op = "assign" \/ d # r.doc
        PROVE  /\ index'[d] = (IF r.op = "assign" /\ index[d] = NoOwner THEN r.user ELSE index[d])
               /\ kept'[d] = (IF kept[d] = NoOwner THEN index'[d] ELSE kept[d])
    BY <1>3, <2>5 DEF NewIndex
  <2>6. /\ r.op = "upload" => index'[r.doc] = r.user /\ kept'[r.doc] = r.user /\ content'[r.doc] = "whole"
        /\ r.op = "delete" => index'[r.doc] = Absent /\ kept'[r.doc] = Absent
    <3>1. r.op = "delete" => kept[r.doc] = Absent
      BY <1>1, <2>1 DEF HasItsDocument, KeptIsListed
    <3>2. QED
      BY <1>1, <1>3, <2>1, <3>1, ScriptConstants DEF NewIndex, HasItsDocument, ScriptConstants
  <2>7. KeptIsListed'
    <3>1. SUFFICES ASSUME NEW d \in Docs
                   PROVE  /\ kept'[d] # Absent => index'[d] = kept'[d]
                          /\ index'[d] # Absent => content'[d] = "whole"
      BY DEF KeptIsListed
    <3>2. CASE r.op = "assign" \/ d # r.doc
      BY <1>3, <2>1, <2>5, <3>2, ScriptConstants DEF KeptIsListed, ScriptConstants
    <3>3. CASE r.op # "assign" /\ d = r.doc
      BY <1>1, <2>6, <3>3
    <3>4. QED
      BY <3>2, <3>3
  <2>8. Apart'
    <3>1. /\ scriptReq'[q].op \in {"none", "delete", "assign"}
          /\ scriptReq'[q].doc \in {NoDoc, r.doc}
      BY <1>1, <2>3, IdleFacts DEF RequestType
    <3>2. \A o, p \in ScriptRequests : scriptReq[p].op = "upload" /\ o # p => scriptReq[o].doc # scriptReq[p].doc
      BY DEF ScriptInv, Apart
    <3>3. \A p \in ScriptRequests : scriptReq[p].op = "upload" => scriptReq[p].doc # NoDoc
      BY ScriptConstants DEF ScriptInv, KnowsItsTask, ScriptConstants
    <3>4. \A p \in ScriptRequests \ {q} : Waiting(p)
      BY <1>1 DEF ScriptInv, Apart
    <3>5. QED
      BY <2>3, <3>1, <3>2, <3>3, <3>4 DEF Apart, Waiting
  <2>9. KnowsItsTask(q)' /\ HasItsDocument(q)'
    <3>1. CASE scriptReq'[q] = IdleRequest
      BY <3>1, IdleFacts DEF KnowsItsTask, HasItsDocument
    <3>2. CASE r.op = "delete" /\ scriptReq'[q] = [r EXCEPT !.at = "remove"]
      BY <1>1, <2>1, <2>6, <3>2, ScriptConstants DEF KnowsItsTask, HasItsDocument, ScriptConstants, RequestType
    <3>3. CASE r.op = "assign" /\ scriptReq'[q] = [r EXCEPT !.at = "assigned"]
      <4>1. \A d \in Docs : index'[d] # NoOwner
        BY <1>1, <2>5, <3>3, ScriptConstants DEF ScriptConstants
      <4>2. QED
        BY <1>1, <2>1, <3>3, <4>1 DEF KnowsItsTask, HasItsDocument, RequestType
    <3>4. QED
      BY <2>3, <3>1, <3>2, <3>3
  <2>10. ASSUME NEW p \in ScriptRequests, p # q PROVE KnowsItsTask(p)' /\ HasItsDocument(p)'
    <3>1. KnowsItsTask(p) /\ HasItsDocument(p) /\ scriptReq'[p] = scriptReq[p] /\ Waiting(p)
      BY <1>1, <2>3, <2>10 DEF ScriptInv, Apart
    <3>2. KnowsItsTask(p)'
      BY <3>1 DEF KnowsItsTask
    <3>3. CASE Idle(p)
      <4>1. scriptReq'[p] = IdleRequest
        BY <3>1, <3>3 DEF Idle
      <4>2. QED
        BY <3>2, <4>1, IdleFacts DEF HasItsDocument
    <3>4. CASE r.op # "assign" /\ ~Idle(p)
      <4>1. scriptReq[p].op = "upload" => scriptReq[p].doc # r.doc /\ scriptReq[p].doc \in Docs
        BY <2>10, <3>1 DEF ScriptInv, Apart, KnowsItsTask
      <4>2. r.op = "upload" => scriptReq[p].doc # r.doc
        BY <2>10 DEF ScriptInv, Apart
      <4>3. scriptReq[p].op = "upload" => index'[scriptReq[p].doc] = index[scriptReq[p].doc]
        BY <2>5, <3>4, <4>1
      <4>4. scriptReq[p].op = "delete" => scriptReq[p].doc \in Docs /\ scriptReq[p].user \in Users
        BY <3>1 DEF KnowsItsTask
      <4>5. scriptReq[p].op = "delete" => kept'[scriptReq[p].doc] \in {Absent, kept[scriptReq[p].doc]}
        <5>1. SUFFICES ASSUME scriptReq[p].op = "delete", scriptReq[p].doc # r.doc
                       PROVE  kept'[scriptReq[p].doc] = kept[scriptReq[p].doc]
          BY <1>1, <2>6, <3>4, <4>2
        <5>2. QED
          BY <2>1, <2>5, <3>4, <4>4, <5>1, ScriptConstants DEF KeptIsListed, ScriptConstants
      <4>6. scriptReq[p].at \in {"idle", "lock"}
        BY <3>1 DEF Waiting
      <4>7. scriptReq[p].op = "upload" => index'[scriptReq[p].doc] = Absent
        BY <3>1, <4>3 DEF HasItsDocument
      <4>8. scriptReq[p].op = "delete" =>
              /\ scriptReq[p].user \in Admins => kept'[scriptReq[p].doc] = Absent
              /\ kept'[scriptReq[p].doc] # scriptReq[p].user
        BY <3>1, <4>4, <4>5, ScriptConstants DEF HasItsDocument, ScriptConstants
      <4>9. QED
        BY <3>1, <3>2, <4>6, <4>7, <4>8 DEF HasItsDocument
    <3>5. QED
      BY <2>10, <3>2, <3>3, <3>4
  <2>11. QED
    BY <2>4, <2>7, <2>8, <2>9, <2>10 DEF ScriptInv
<1>4. QED
  BY <1>2, <1>3 DEF WriteIndex

LEMMA ScriptStepKeeps ==
  ASSUME ScriptInv, NEW q \in ScriptRequests, ScriptStep(q),
         scriptReq[q].op = "assign" => \A p \in ScriptRequests \ {q} : Idle(p)
  PROVE  ScriptInv'
BY LockKeeps, WriteScriptKeeps, ReadIndexKeeps, TruncateKeeps, WriteIndexKeeps, RemoveKeeps DEF ScriptStep

-----------------------------------------------------------------------------
(* Requests come and are cut.                                              *)

LEMMA AskKeeps ==
  ASSUME ScriptInv, NEW q \in ScriptRequests \ {Boot}, AskScript(q)
  PROVE  ScriptInv'
<1>1. PICK u \in Users, d \in Docs :
        \/ /\ content[d] = "none" /\ index[d] = Absent
           /\ \A p \in ScriptRequests : scriptReq[p].doc # d
           /\ scriptReq' = [scriptReq EXCEPT ![q] = Request("lock", "upload", d, u)]
           /\ UNCHANGED kept
        \/ /\ \A p \in ScriptRequests : scriptReq[p].doc = d => scriptReq[p].op # "upload"
           /\ scriptReq' = [scriptReq EXCEPT ![q] = Request("lock", "delete", d, u)]
           /\ kept' = [kept EXCEPT ![d] = IF u \in Admins \/ @ = u THEN Absent ELSE @]
  BY DEF AskScript
<1>2. /\ scriptReq[q].at = "idle" /\ scriptAsks' \in 0..MaxScriptAsks
      /\ UNCHANGED <<index, torn, content, failures>>
  BY BeforeStep, ScriptConstants DEF AskScript, ScriptConstants
<1>3. /\ index \in [Docs -> Users \cup {NoOwner, Absent}] /\ kept \in [Docs -> Users \cup {NoOwner, Absent}]
      /\ scriptReq \in [ScriptRequests -> RequestType] /\ KeptIsListed
  BY DEF ScriptInv, ScriptTypeOK, RequestType
<1>4. PICK w \in RequestType :
        /\ scriptReq' = [scriptReq EXCEPT ![q] = w]
        /\ w.at = "lock" /\ w.op \in {"upload", "delete"} /\ w.doc = d /\ w.user = u
  <2>1. \A op \in {"upload", "delete"} :
            LET w == Request("lock", op, d, u) IN
            w \in RequestType /\ w.at = "lock" /\ w.op = op /\ w.doc = d /\ w.user = u
    BY DEF Request, RequestType
  <2>2. QED
    BY <1>1, <2>1
<1>5. /\ scriptReq'[q] = w /\ scriptReq' \in [ScriptRequests -> RequestType]
      /\ \A p \in ScriptRequests \ {q} : scriptReq'[p] = scriptReq[p]
  BY <1>3, <1>4
<1>6. CASE w.op = "upload"
  <2>1. /\ index[d] = Absent /\ UNCHANGED kept
        /\ \A p \in ScriptRequests : scriptReq[p].doc # d
    BY <1>1, <1>3, <1>4, <1>5, <1>6 DEF Request
  <2>2. ScriptTypeOK' /\ KeptIsListed'
    BY <1>2, <1>3, <1>5, <2>1 DEF ScriptInv, ScriptTypeOK, RequestType, KeptIsListed
  <2>3. Apart'
    BY <1>2, <1>4, <1>5, <2>1 DEF ScriptInv, Apart, Waiting
  <2>4. KnowsItsTask(q)' /\ HasItsDocument(q)'
    BY <1>2, <1>4, <1>5, <1>6, <2>1 DEF KnowsItsTask, HasItsDocument
  <2>5. ASSUME NEW p \in ScriptRequests, p # q PROVE KnowsItsTask(p)' /\ HasItsDocument(p)'
    BY <1>2, <1>5, <2>1, <2>5 DEF ScriptInv, KnowsItsTask, HasItsDocument
  <2>6. QED
    BY <2>2, <2>3, <2>4, <2>5 DEF ScriptInv
<1>7. CASE w.op = "delete"
  <2>1. /\ kept' = [kept EXCEPT ![d] = IF u \in Admins \/ @ = u THEN Absent ELSE @]
        /\ \A p \in ScriptRequests : scriptReq[p].doc = d => scriptReq[p].op # "upload"
    BY <1>1, <1>3, <1>4, <1>5, <1>7 DEF Request
  <2>2. /\ kept' \in [Docs -> Users \cup {NoOwner, Absent}]
        /\ \A e \in Docs : kept'[e] \in {Absent, kept[e]}
        /\ u \in Admins => kept'[d] = Absent
        /\ kept'[d] # u
    BY <1>3, <2>1, ScriptConstants DEF ScriptConstants
  <2>3. ScriptTypeOK' /\ KeptIsListed'
    BY <1>2, <1>3, <1>5, <2>2 DEF ScriptInv, ScriptTypeOK, RequestType, KeptIsListed
  <2>4. Apart'
    BY <1>2, <1>4, <1>5, <1>7, <2>1 DEF ScriptInv, Apart, Waiting
  <2>5. KnowsItsTask(q)' /\ HasItsDocument(q)'
    BY <1>2, <1>4, <1>5, <1>7, <2>2 DEF KnowsItsTask, HasItsDocument
  <2>6. ASSUME NEW p \in ScriptRequests, p # q PROVE KnowsItsTask(p)' /\ HasItsDocument(p)'
    <3>1. KnowsItsTask(p) /\ HasItsDocument(p) /\ scriptReq'[p] = scriptReq[p]
      BY <1>5, <2>6 DEF ScriptInv
    <3>2. KnowsItsTask(p)'
      BY <3>1 DEF KnowsItsTask
    <3>3. scriptReq[p].op = "delete" => scriptReq[p].doc \in Docs /\ scriptReq[p].user \in Users
      BY <3>1 DEF KnowsItsTask
    <3>4. HasItsDocument(p)'
      BY <1>2, <3>1, <3>3, <2>2, ScriptConstants DEF HasItsDocument, ScriptConstants
    <3>5. QED
      BY <3>2, <3>4
  <2>7. QED
    BY <2>3, <2>4, <2>5, <2>6 DEF ScriptInv
<1>8. QED
  BY <1>4, <1>6, <1>7

LEMMA CutKeeps ==
  ASSUME ScriptInv, CutScripts
  PROVE  ScriptInv' /\ \A q \in ScriptRequests : Idle(q)'
<1>1. /\ scriptReq' = [q \in ScriptRequests |-> IdleRequest]
      /\ UNCHANGED <<index, torn, scriptAsks, failures, kept>>
      /\ content' = [d \in Docs |-> IF \E q \in ScriptRequests : scriptReq[q].at = "file" /\ scriptReq[q].doc = d
                                    THEN "part" ELSE content[d]]
  BY DEF CutScripts
<1>2. \A q \in ScriptRequests : scriptReq[q].at = "file" => index[scriptReq[q].doc] = Absent
  BY DEF ScriptInv, KnowsItsTask, HasItsDocument
<1>3. ScriptTypeOK'
  <2>1. content' \in [Docs -> {"none", "part", "whole"}]
    BY <1>1 DEF ScriptInv, ScriptTypeOK
  <2>2. scriptReq' \in [ScriptRequests -> RequestType]
    BY <1>1, IdleFacts
  <2>3. QED
    BY <1>1, <2>1, <2>2 DEF ScriptInv, ScriptTypeOK, RequestType
<1>4. KeptIsListed'
  BY <1>1, <1>2 DEF ScriptInv, KeptIsListed
<1>5. \A q \in ScriptRequests : KnowsItsTask(q)' /\ HasItsDocument(q)'
  BY <1>1, IdleFacts DEF KnowsItsTask, HasItsDocument
<1>6. Apart' /\ \A q \in ScriptRequests : Idle(q)'
  BY <1>1, IdleFacts DEF Apart, Waiting, Idle
<1>7. QED
  BY <1>3, <1>4, <1>5, <1>6 DEF ScriptInv

\* The start makes its own request, or is done with it.
LEMMA AssignBegins ==
  ASSUME ScriptInv, scriptReq' = [scriptReq EXCEPT ![Boot] = Request("lock", "assign", NoDoc, TheAdmin)],
         UNCHANGED <<index, torn, content, scriptAsks, failures, kept>>, Idle(Boot)
  PROVE  ScriptInv'
<1> DEFINE w == Request("lock", "assign", NoDoc, TheAdmin)
<1>1. /\ w \in RequestType /\ w.at = "lock" /\ w.op = "assign" /\ w.doc = NoDoc /\ w.user \in Admins /\ w.user \in Users
      /\ Boot \in ScriptRequests
  BY ScriptConstants, StartupConstants DEF Request, RequestType, ScriptConstants, StartupConstants
<1> HIDE DEF w
<1>2. /\ scriptReq'[Boot] = w /\ scriptReq' \in [ScriptRequests -> RequestType]
      /\ \A p \in ScriptRequests \ {Boot} : scriptReq'[p] = scriptReq[p]
  BY <1>1 DEF ScriptInv, ScriptTypeOK, RequestType, w
<1>3. ScriptTypeOK' /\ KeptIsListed'
  BY <1>2 DEF ScriptInv, ScriptTypeOK, RequestType, KeptIsListed
<1>4. \A p \in ScriptRequests : scriptReq[p].op = "upload" => scriptReq[p].doc # NoDoc
  BY ScriptConstants DEF ScriptInv, KnowsItsTask, ScriptConstants
<1>5. Apart'
  BY <1>1, <1>2, <1>4 DEF ScriptInv, Apart, Waiting
<1>6. KnowsItsTask(Boot)' /\ HasItsDocument(Boot)'
  BY <1>1, <1>2 DEF KnowsItsTask, HasItsDocument
<1>7. \A p \in ScriptRequests \ {Boot} : KnowsItsTask(p)' /\ HasItsDocument(p)'
  BY <1>2 DEF ScriptInv, KnowsItsTask, HasItsDocument
<1>8. QED
  BY <1>3, <1>5, <1>6, <1>7 DEF ScriptInv

-----------------------------------------------------------------------------
(* The process.                                                            *)

Booting == {"down", "versions", "migrate", "count", "admin", "first", "orphans"}

\* How far the process has come is how far the database is.
HasCome ==
    /\ version \in Nat
    /\ applied = schema /\ schema \subseteq 1..version
    /\ phase = "migrate" => todo = (1..version) \ schema
    /\ phase \in {"count", "admin", "first", "orphans", "scripts", "serving"} => schema = 1..version
    /\ phase = "first" => users # "none"
    /\ phase \in {"orphans", "scripts"} => users = "led"
    /\ phase \in {"serving", "stopping"} => users # "none"
    /\ phase \in {"scripts", "serving"} => orphans = {}
    /\ phase = "serving" => \A d \in Docs : index[d] # NoOwner

\* There are requests only when it serves; at the start there is its own.
OnlyWhenServing ==
    /\ phase \in Booting => \A q \in ScriptRequests : Idle(q)
    /\ phase = "scripts" => \A q \in ScriptRequests \ {Boot} : Idle(q)
    /\ phase # "scripts" => Idle(Boot)

StartupIInv ==
    /\ ScriptInv
    /\ phase \in Booting \cup {"scripts", "serving", "stopping"}
    /\ HasCome /\ OnlyWhenServing

LEMMA StartupInitInv == StartupInit => StartupIInv
BY ScriptInitInv, StartupConstants DEF StartupInit, StartupIInv, HasCome, OnlyWhenServing, Booting, Idle,
   ScriptInit, StartupConstants

LEMMA BootKeeps ==
  ASSUME StartupIInv, UNCHANGED scriptVars,
         Start \/ AppliedVersions \/ Migrate \/ CountUsers \/ CreateAdmin \/ FirstAdmin
  PROVE  StartupIInv'
<1>1. ScriptInv'
  BY DEF StartupIInv, scriptVars, ScriptInv, ScriptTypeOK, KnowsItsTask, HasItsDocument, Apart, Waiting, KeptIsListed
<1>2. UNCHANGED index /\ (OnlyWhenServing /\ phase \in Booting /\ phase' \in Booting => OnlyWhenServing')
  BY DEF scriptVars, OnlyWhenServing, Idle, Booting
<1> USE <1>1, <1>2 DEF StartupIInv, HasCome, Booting
<1>3. CASE Start
  BY <1>3 DEF Start, Database
<1>4. CASE AppliedVersions
  BY <1>4 DEF AppliedVersions, Database, Pending
<1>5. CASE Migrate
  BY <1>5 DEF Migrate, ApplyFile
<1>6. CASE CountUsers
  BY <1>6 DEF CountUsers, Database
<1>7. CASE CreateAdmin
  BY <1>7 DEF CreateAdmin
<1>8. CASE FirstAdmin
  BY <1>8 DEF FirstAdmin, Database
<1>9. QED
  BY <1>3, <1>4, <1>5, <1>6, <1>7, <1>8

LEMMA AssignKeeps ==
  ASSUME StartupIInv, AssignOrphanAccounts
  PROVE  StartupIInv'
<1>1. Idle(Boot) /\ ScriptInv
  BY DEF StartupIInv, OnlyWhenServing, AssignOrphanAccounts
<1>2. ScriptInv'
  BY <1>1, AssignBegins DEF AssignOrphanAccounts
<1>3. \A q \in ScriptRequests \ {Boot} : Idle(q)'
  BY DEF StartupIInv, OnlyWhenServing, AssignOrphanAccounts, Booting, Idle, ScriptInv, ScriptTypeOK
<1>4. HasCome' /\ phase' = "scripts"
  BY DEF StartupIInv, AssignOrphanAccounts, HasCome
<1>5. QED
  BY <1>2, <1>3, <1>4 DEF StartupIInv, OnlyWhenServing, Booting

LEMMA ServeKeeps ==
  ASSUME StartupIInv, Serve
  PROVE  StartupIInv'
<1>1. /\ ScriptInv /\ Boot \in ScriptRequests /\ phase = "scripts"
      /\ Leave(Boot) /\ UNCHANGED <<index, torn, content, scriptAsks, failures, kept>>
  BY StartupConstants DEF StartupIInv, Serve, Leave, StartupConstants
<1>2. ScriptInv'
  BY <1>1, BeforeStep, LeaveKeeps
<1>3. \A q \in ScriptRequests : Idle(q)'
  BY <1>1 DEF StartupIInv, OnlyWhenServing, Leave, Idle, ScriptInv, ScriptTypeOK
<1>4. phase' = "serving" => \A d \in Docs : index'[d] # NoOwner
  BY <1>1, BeforeStep DEF Serve, HasItsDocument
<1>5. HasCome' /\ phase' \in {"serving", "down"}
  BY <1>4 DEF StartupIInv, Serve, HasCome, Database
<1>6. QED
  BY <1>2, <1>3, <1>5, StartupConstants DEF StartupIInv, OnlyWhenServing, Booting, StartupConstants

LEMMA WorkKeeps ==
  ASSUME StartupIInv, NEW q \in ScriptRequests, Work(q)
  PROVE  StartupIInv'
<1>1. /\ ScriptInv /\ ScriptStep(q) /\ phase \in {"scripts", "serving", "stopping"}
      /\ UNCHANGED <<phase, version, todo, schema, applied, users, orphans>>
  BY DEF StartupIInv, Work, bootVars
<1>2. ~Idle(q)
  BY <1>1, IdleFacts DEF ScriptStep, LockScripts, WriteScript, ReadIndex, TruncateIndex, WriteIndex, RemoveScript, Idle
<1>3. scriptReq[q].op = "assign" => \A p \in ScriptRequests \ {q} : Idle(p)
  <2>1. scriptReq[q].op = "assign" => q = Boot
    BY <1>1, BeforeStep DEF KnowsItsTask
  <2>2. QED
    BY <1>1, <1>2, <2>1 DEF StartupIInv, OnlyWhenServing
<1>4. ScriptInv'
  BY <1>1, <1>3, ScriptStepKeeps
<1>5. \A p \in ScriptRequests \ {q} : Idle(p) => Idle(p)'
  BY <1>1 DEF ScriptInv, ScriptTypeOK, ScriptStep, LockScripts, WriteScript, ReadIndex, TruncateIndex, WriteIndex,
     RemoveScript, GoTo, Leave, GiveUp, Idle
<1>6. phase = "serving" => \A d \in Docs : index'[d] # NoOwner
  <2>1. SUFFICES ASSUME phase = "serving", WriteIndex(q), index' = NewIndex(scriptReq[q]), NEW d \in Docs
                 PROVE  index'[d] # NoOwner
    BY <1>1 DEF StartupIInv, HasCome, ScriptStep, LockScripts, WriteScript, ReadIndex, TruncateIndex, WriteIndex, RemoveScript
  <2>2. index[d] # NoOwner /\ scriptReq[q].user \in Users
    BY <1>1, <1>2, <2>1, BeforeStep DEF StartupIInv, HasCome, KnowsItsTask, WriteIndex
  <2>3. QED
    BY <2>1, <2>2, ScriptConstants DEF NewIndex, ScriptConstants
<1>7. HasCome'
  BY <1>1, <1>6 DEF StartupIInv, HasCome
<1>8. OnlyWhenServing'
  BY <1>1, <1>2, <1>5, StartupConstants DEF StartupIInv, OnlyWhenServing, Booting, StartupConstants
<1>9. QED
  BY <1>1, <1>4, <1>7, <1>8 DEF StartupIInv

LEMMA VanishKeeps ==
  ASSUME StartupIInv, Vanish
  PROVE  StartupIInv'
<1>1. ScriptInv' /\ \A q \in ScriptRequests : Idle(q)'
  BY CutKeeps DEF StartupIInv, Vanish
<1>2. HasCome' /\ phase' = "down"
  BY DEF StartupIInv, Vanish, HasCome, Database, CutScripts
<1>3. QED
  BY <1>1, <1>2, StartupConstants DEF StartupIInv, OnlyWhenServing, Booting, StartupConstants

\* Steps that have nothing to do with the scripts.
LEMMA BesideScripts ==
  ASSUME StartupIInv, UNCHANGED <<index, torn, content, scriptReq, scriptAsks, kept, schema, applied, orphans>>,
         users' = users \/ (phase = phase' /\ phase \in {"serving", "stopping"} /\ users' # "none"),
         failures' \in 0..MaxFailures,
         \/ phase' = phase /\ UNCHANGED <<version, todo>>
         \/ phase \in Booting /\ phase' = "down" /\ version' \in {version, version + 1}
         \/ phase = "serving" /\ phase' = "stopping" /\ UNCHANGED version
         \/ phase = "stopping" /\ phase' = "down" /\ UNCHANGED version /\ \A q \in ScriptRequests : Idle(q)
  PROVE  StartupIInv'
<1>1. ScriptInv'
  BY DEF StartupIInv, ScriptInv, ScriptTypeOK, KnowsItsTask, HasItsDocument, Apart, Waiting, KeptIsListed
<1>2. HasCome'
  BY DEF StartupIInv, HasCome, Booting
<1>3. OnlyWhenServing'
  BY StartupConstants DEF StartupIInv, OnlyWhenServing, Booting, Idle, StartupConstants
<1>4. QED
  BY <1>1, <1>2, <1>3 DEF StartupIInv, Booting

LEMMA StartupStep == StartupIInv /\ [StartupNext]_startupVars => StartupIInv'
<1> SUFFICES ASSUME StartupIInv, [StartupNext]_startupVars PROVE StartupIInv'
  OBVIOUS
<1>0. failures \in 0..MaxFailures /\ (Fails => failures' \in 0..MaxFailures)
  BY ScriptConstants DEF StartupIInv, ScriptInv, ScriptTypeOK, Fails, ScriptConstants
<1>1. CASE Start \/ AppliedVersions \/ Migrate \/ CountUsers \/ CreateAdmin \/ FirstAdmin
  <2>1. UNCHANGED scriptVars
    BY <1>1 DEF Start, AppliedVersions, Migrate, CountUsers, CreateAdmin, FirstAdmin
  <2>2. QED
    BY <1>1, <2>1, BootKeeps
<1>2. CASE AssignOrphanAccounts
  BY <1>2, AssignKeeps
<1>3. CASE Serve
  BY <1>3, ServeKeeps
<1>4. CASE Deploy
  BY <1>0, <1>4, BesideScripts DEF Deploy, Database, scriptVars, Booting
<1>5. CASE Shutdown
  BY <1>0, <1>5, BesideScripts DEF Shutdown, Busy, Database, scriptVars
<1>6. CASE TimeOut \/ Kill \/ Panic
  BY <1>6, VanishKeeps DEF TimeOut, Kill, Panic
<1>7. CASE Signal
  BY <1>0, <1>7, BesideScripts DEF Signal, Database, scriptVars
<1>8. CASE Stream \/ Fanout
  BY <1>0, <1>8, BesideScripts DEF Stream, Fanout, Database, scriptVars
<1>9. ASSUME NEW from \in {"versions", "migrate", "count", "admin", "first", "orphans"}, Abort(from)
      PROVE  StartupIInv'
  BY <1>0, <1>9, BesideScripts DEF Abort, Database, Booting
<1>10. ASSUME NEW q \in ScriptRequests, Ask(q)
       PROVE  StartupIInv'
  <2>1. ScriptInv' /\ phase = "serving" /\ q # Boot /\ UNCHANGED <<index, bootVars>>
    BY <1>10, AskKeeps DEF StartupIInv, Ask, AskScript
  <2>2. Idle(Boot)'
    BY <1>10, <2>1, StartupConstants DEF StartupIInv, OnlyWhenServing, Ask, AskScript, Idle, ScriptInv, ScriptTypeOK, StartupConstants
  <2>3. QED
    BY <2>1, <2>2 DEF StartupIInv, HasCome, OnlyWhenServing, Booting, bootVars
<1>11. ASSUME NEW q \in ScriptRequests, Work(q)
       PROVE  StartupIInv'
  BY <1>11, WorkKeeps
<1>12. CASE UNCHANGED startupVars
  BY <1>0, <1>12, BesideScripts DEF startupVars, bootVars, scriptVars
<1>13. CASE UpdateUsers
  BY <1>0, <1>13, BesideScripts DEF UpdateUsers, Demote, Promote, scriptVars
<1>14. QED
  BY <1>1, <1>2, <1>3, <1>4, <1>5, <1>6, <1>7, <1>8, <1>9, <1>10, <1>11, <1>12, <1>13 DEF StartupNext, BootStep

(* A process that serves has its migrations, users, and owners for         *)
(* everything, and had an administrator when it came to serve, whatever    *)
(* happened to the starts before and whoever demoted whom: for any number  *)
(* of migrations, of documents and of failures (New, Migrate, Bootstrap).  *)
THEOREM ServesWhenReady == StartupSpec => []ServesReady
<1>1. StartupIInv => ServesReady
  BY DEF StartupIInv, HasCome, ServesReady
<1>2. QED
  BY <1>1, StartupInitInv, StartupStep, PTL DEF StartupSpec

(* No failure and no end of the process loses a document that was stored,  *)
(* or lists one without its file (Upload, Delete, writeIndex).             *)
THEOREM ScriptsSurvive == StartupSpec => []ScriptsAreKept
<1>1. StartupIInv => ScriptsAreKept
  BY DEF StartupIInv, ScriptInv, KeptIsListed, ScriptsAreKept
<1>2. QED
  BY <1>1, StartupInitInv, StartupStep, PTL DEF StartupSpec
=============================================================================

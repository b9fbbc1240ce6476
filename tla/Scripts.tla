------------------------------- MODULE Scripts -------------------------------
(***************************************************************************)
(* internal/scripts/service.go: uploaded documents, each in a file of its  *)
(* own, and index.json, which lists them with their owners.                *)
(*                                                                         *)
(* One mutex is held for the whole of a request, so requests do not meet;  *)
(* what can happen in the middle of one is a failing write or the end of   *)
(* the process.  os.WriteFile truncates first: an index whose write does   *)
(* not come to its end cannot be decoded any more, and every later request *)
(* that reads it fails.  Startup composes this module with the process.    *)
(***************************************************************************)
EXTENDS Naturals

CONSTANTS
    Docs,
    OldDocs,        \* documents from before there were users: listed without owner
    Users, Admins,  \* who asks; administrators among them
    NoOwner,        \* listed, but without a user_id
    Absent,         \* not listed
    NoDoc,
    ScriptRequests, \* requests at the same time
    MaxScriptAsks,  \* bound: requests let in
    MaxFailures     \* bound: writes and statements that fail

ASSUME ScriptConstants ==
    /\ OldDocs \subseteq Docs /\ NoDoc \notin Docs
    /\ Admins \subseteq Users
    /\ NoOwner \notin Users /\ Absent \notin Users /\ NoOwner # Absent
    /\ MaxScriptAsks \in Nat /\ MaxFailures \in Nat

VARIABLES
    index,      \* index.json: the owner of each document
    torn,       \* index.json is truncated or half written
    content,    \* the file of each document
    scriptReq,  \* what each request is doing
    scriptAsks, \* requests let in so far
    failures,   \* failures so far
    kept        \* history: documents that were stored and that nobody who may
                \* asked to delete, with their owners

scriptVars == <<index, torn, content, scriptReq, scriptAsks, failures, kept>>

-----------------------------------------------------------------------------
Request(at, op, d, u) == [at |-> at, op |-> op, doc |-> d, user |-> u]
IdleRequest == Request("idle", "none", NoDoc, NoOwner)

\* s.mu is held from the first step of a request to its last.
Waiting(q) == scriptReq[q].at \in {"idle", "lock"}
Locked == \E q \in ScriptRequests : ~Waiting(q)

Fails == failures < MaxFailures /\ failures' = failures + 1
Works == UNCHANGED failures

GoTo(q, at) == scriptReq' = [scriptReq EXCEPT ![q].at = at]
Leave(q) == scriptReq' = [scriptReq EXCEPT ![q] = IdleRequest]

\* Mutant of MayDelete: any user.
MayDeleteAny(u, d) == TRUE

\* A document of somebody else looks to a user as if it were not there.
MayDelete(u, d) == u \in Admins \/ index[d] = u

ScriptInit ==
    /\ index = [d \in Docs |-> IF d \in OldDocs THEN NoOwner ELSE Absent]
    /\ torn = FALSE
    /\ content = [d \in Docs |-> IF d \in OldDocs THEN "whole" ELSE "none"]
    /\ scriptReq = [q \in ScriptRequests |-> IdleRequest]
    /\ scriptAsks = 0
    /\ failures = 0
    /\ kept = index

-----------------------------------------------------------------------------
\* A request arrives.  Ids of uploads are new, and nobody knows them before the
\* upload has ended.  From here on, a document that the user may delete need not
\* be kept.
AskScript(q) ==
    /\ scriptReq[q].at = "idle"
    /\ scriptAsks < MaxScriptAsks
    /\ scriptAsks' = scriptAsks + 1
    /\ \E u \in Users, d \in Docs :
        \/ /\ content[d] = "none" /\ index[d] = Absent
           /\ \A p \in ScriptRequests : scriptReq[p].doc # d
           /\ scriptReq' = [scriptReq EXCEPT ![q] = Request("lock", "upload", d, u)]
           /\ UNCHANGED kept
        \/ /\ \A p \in ScriptRequests : scriptReq[p].doc = d => scriptReq[p].op # "upload"
           /\ scriptReq' = [scriptReq EXCEPT ![q] = Request("lock", "delete", d, u)]
           /\ kept' = [kept EXCEPT ![d] = IF u \in Admins \/ @ = u THEN Absent ELSE @]
    /\ UNCHANGED <<index, torn, content, failures>>

LockScripts(q) ==
    /\ scriptReq[q].at = "lock"
    /\ ~Locked
    /\ GoTo(q, IF scriptReq[q].op = "upload" THEN "file" ELSE "read")
    /\ UNCHANGED <<index, torn, content, scriptAsks, failures, kept>>

\* Upload writes the file of the document first; a part of it may stay.
WriteScript(q) ==
    /\ scriptReq[q].at = "file"
    /\ \/ /\ content' = [content EXCEPT ![scriptReq[q].doc] = "whole"]
          /\ GoTo(q, "read") /\ Works
       \/ /\ content' \in {[content EXCEPT ![scriptReq[q].doc] = some] : some \in {"none", "part"}}
          /\ Leave(q) /\ Fails
    /\ UNCHANGED <<index, torn, scriptAsks, kept>>

\* The file that an upload wrote is removed again when the index fails; the
\* error of that removal is ignored, it may stay.
GiveUp(q) ==
    /\ Leave(q)
    /\ \/ UNCHANGED content
       \/ scriptReq[q].op = "upload" /\ content' = [content EXCEPT ![scriptReq[q].doc] = "none"]

\* readIndex: an index that is not whole cannot be decoded.
CanRead == ~torn

ReadIndex(q) ==
    LET r == scriptReq[q] IN
    /\ r.at = "read"
    /\ \/ /\ CanRead
          /\ \/ r.op = "upload" /\ GoTo(q, "index")
             \/ r.op = "delete" /\ index[r.doc] # Absent /\ MayDelete(r.user, r.doc) /\ GoTo(q, "index")
             \/ r.op = "delete" /\ ~(index[r.doc] # Absent /\ MayDelete(r.user, r.doc)) /\ Leave(q)
             \/ r.op = "assign" /\ (\E d \in Docs : index[d] = NoOwner) /\ GoTo(q, "index")
             \/ r.op = "assign" /\ (\A d \in Docs : index[d] # NoOwner) /\ GoTo(q, "assigned")
          /\ Works /\ UNCHANGED content
       \/ ~CanRead /\ GiveUp(q) /\ Works
       \/ GiveUp(q) /\ Fails
    /\ UNCHANGED <<index, torn, scriptAsks, kept>>

\* What a request makes of the index that it has read.
NewIndex(r) ==
    [d \in Docs |->
        IF r.op = "assign" /\ index[d] = NoOwner THEN r.user
        ELSE IF r.op = "upload" /\ d = r.doc THEN r.user
        ELSE IF r.op = "delete" /\ d = r.doc THEN Absent
        ELSE index[d]]

\* writeIndex opens the index, which truncates it...
TruncateIndex(q) ==
    /\ scriptReq[q].at = "index"
    /\ \/ torn' = TRUE /\ GoTo(q, "write") /\ Works /\ UNCHANGED content
       \/ GiveUp(q) /\ Fails /\ UNCHANGED torn
    /\ UNCHANGED <<index, scriptAsks, kept>>

\* ... and writes it.  The upload is answered, the deletion goes on.
WriteIndex(q) ==
    LET r == scriptReq[q] IN
    /\ r.at = "write"
    /\ \/ /\ index' = NewIndex(r)
          /\ torn' = FALSE
          /\ kept' = [d \in Docs |-> IF r.op = "upload" /\ d = r.doc THEN r.user
                                     ELSE IF kept[d] = NoOwner THEN NewIndex(r)[d] ELSE kept[d]]
          /\ \/ r.op = "upload" /\ Leave(q)
             \/ r.op = "delete" /\ GoTo(q, "remove")
             \/ r.op = "assign" /\ GoTo(q, "assigned")
          /\ Works /\ UNCHANGED content
       \/ GiveUp(q) /\ Fails /\ UNCHANGED <<index, torn, kept>>
    /\ UNCHANGED scriptAsks

\* The file of a deleted document; a failure is only logged.
RemoveScript(q) ==
    /\ scriptReq[q].at = "remove"
    /\ \/ content' = [content EXCEPT ![scriptReq[q].doc] = "none"] /\ Works
       \/ UNCHANGED content /\ Fails
    /\ Leave(q)
    /\ UNCHANGED <<index, torn, scriptAsks, kept>>

ScriptStep(q) ==
    LockScripts(q) \/ WriteScript(q) \/ ReadIndex(q) \/ TruncateIndex(q) \/ WriteIndex(q) \/ RemoveScript(q)

\* The process ends, with whatever it was writing.
CutScripts ==
    /\ scriptReq' = [q \in ScriptRequests |-> IdleRequest]
    /\ content' = [d \in Docs |->
            IF \E q \in ScriptRequests : scriptReq[q].at = "file" /\ scriptReq[q].doc = d THEN "part" ELSE content[d]]
    /\ UNCHANGED <<index, torn, scriptAsks, failures, kept>>

-----------------------------------------------------------------------------
(* Properties. *)

ScriptTypeOK ==
    /\ index \in [Docs -> Users \cup {NoOwner, Absent}]
    /\ torn \in BOOLEAN
    /\ content \in [Docs -> {"none", "part", "whole"}]
    /\ scriptReq \in [ScriptRequests ->
            [at : {"idle", "lock", "file", "read", "index", "write", "remove", "assigned"},
             op : {"none", "upload", "delete", "assign"},
             doc : Docs \cup {NoDoc}, user : Users \cup {NoOwner}]]
    /\ scriptAsks \in 0..MaxScriptAsks
    /\ failures \in 0..MaxFailures
    /\ kept \in [Docs -> Users \cup {NoOwner, Absent}]

(* A document that was stored stays listed with its owner until somebody   *)
(* who may deletes it, and whatever is listed has its whole file: however  *)
(* uploads, deletions and starts fail or are cut, unless that has left the *)
(* index unreadable.                                                       *)
ScriptsAreKept ==
    ~torn => \A d \in Docs :
        /\ kept[d] # Absent => index[d] = kept[d]
        /\ index[d] # Absent => content[d] = "whole"
=============================================================================

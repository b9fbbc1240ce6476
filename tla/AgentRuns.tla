------------------------------ MODULE AgentRuns ------------------------------
(***************************************************************************)
(* internal/agents/automation.go: a draft that the agent runner generates  *)
(* for a chat (a run), and the requests that send it.                      *)
(*                                                                         *)
(* A run is a row that one request creates and moves along while it waits  *)
(* for the runner.  SendRun reads the row, sends the text and only then    *)
(* notes that it did; nothing reserves the row in between.  The contexts   *)
(* of these requests end when the client goes away: their statements fail  *)
(* from then on, the ones that note a failure included.                    *)
(***************************************************************************)
EXTENDS Naturals

CONSTANTS
    Runs,
    Senders,    \* requests /api/agent-runs/{id}/send that are served at the same time
    NoRun,
    MaxSends    \* bound: such requests that are let in

ASSUME ConstantsAssumption == NoRun \notin Runs /\ MaxSends \in Nat

VARIABLES
    status,     \* agent_runs.status; "none": not there yet, "gone": deleted with its chat
    linked,     \* agent_runs.sent_message_id is set
    gen,        \* how far the request that generates the run has come
    snd,        \* what each sender is doing, with which run
    begun,      \* senders let in so far
    delivered,  \* history: how often WhatsApp got the text of a run
    overlapped, \* history: two senders had a run at the same time
    cut,        \* history: a request stopped before it could note the outcome
    unanswered  \* history: the text was delivered although SendText failed

vars == <<status, linked, gen, snd, begun, delivered, overlapped, cut, unanswered>>
history == <<overlapped, cut, unanswered>>

SenderAt(step, r) == [at |-> step, run |-> r]
IdleSender == SenderAt("idle", NoRun)

Init ==
    /\ status = [r \in Runs |-> "none"]
    /\ linked = [r \in Runs |-> FALSE]
    /\ gen = [r \in Runs |-> "idle"]
    /\ snd = [s \in Senders |-> IdleSender]
    /\ begun = 0
    /\ delivered = [r \in Runs |-> 0]
    /\ overlapped = [r \in Runs |-> FALSE]
    /\ cut = [r \in Runs |-> FALSE]
    /\ unanswered = [r \in Runs |-> FALSE]

-----------------------------------------------------------------------------
(* UpdateRunStatus writes all columns of the outcome at once.  It fails    *)
(* without the row, without the client and without the database.           *)

Stored(r) == status[r] \notin {"none", "gone"}

Update(r, to, link) ==
    /\ Stored(r)
    /\ status' = [status EXCEPT ![r] = to]
    /\ linked' = [linked EXCEPT ![r] = link]
    /\ UNCHANGED cut

NoUpdate(r) == cut' = [cut EXCEPT ![r] = TRUE] /\ UNCHANGED <<status, linked>>

(* GenerateRun and GenerateRunStream. *)

\* prepareManualRun up to CreateRun; whatever fails before leaves nothing.
Create(r) ==
    /\ status[r] = "none"
    /\ status' = [status EXCEPT ![r] = "generating"]
    /\ \E step \in {"start", "prepare"} : gen' = [gen EXCEPT ![r] = step]
    /\ UNCHANGED <<linked, snd, begun, delivered, history>>

\* The stream starts with the run itself; if that cannot be written the
\* request is over.
OnStart(r) ==
    /\ gen[r] = "start"
    /\ \/ gen' = [gen EXCEPT ![r] = "prepare"] /\ UNCHANGED cut
       \/ gen' = [gen EXCEPT ![r] = "idle"] /\ cut' = [cut EXCEPT ![r] = TRUE]
    /\ UNCHANGED <<status, linked, snd, begun, delivered, overlapped, unanswered>>

\* Mutant of AskRunner: an error of the runner ends the request at once.
AskRunnerOnce(r) ==
    /\ gen[r] = "prepare"
    /\ \E step \in {"decide", "idle"} : gen' = [gen EXCEPT ![r] = step]
    /\ UNCHANGED <<status, linked, snd, begun, delivered, history>>

\* Mutant of AskRunner: after an error of the runner the request starts again, without end.
AskRunnerAgain(r) ==
    /\ gen[r] = "prepare"
    /\ \E step \in {"decide", "start"} : gen' = [gen EXCEPT ![r] = step]
    /\ UNCHANGED <<status, linked, snd, begun, delivered, history>>

\* No runner, no provider, an error of the runner or of writing a delta: failRun.
AskRunner(r) ==
    /\ gen[r] = "prepare"
    /\ \E step \in {"decide", "fail"} : gen' = [gen EXCEPT ![r] = step]
    /\ UNCHANGED <<status, linked, snd, begun, delivered, history>>

\* Mutant of Decisions: the word of the runner is stored as it is.
RunnerWords == {"failed", "blocked", "ready_for_review", "dispatch_ready"}

Decisions == {"failed", "blocked", "ready_for_review"}

\* A run that a user asked for is never sent by itself: dispatch_ready is for review, too.
ApplyRunnerDecision(r) ==
    /\ gen[r] = "decide"
    /\ gen' = [gen EXCEPT ![r] = "idle"]
    /\ (\E to \in Decisions : Update(r, to, FALSE)) \/ NoUpdate(r)
    /\ UNCHANGED <<snd, begun, delivered, overlapped, unanswered>>

FailRun(r) ==
    /\ gen[r] = "fail"
    /\ gen' = [gen EXCEPT ![r] = "idle"]
    /\ Update(r, "failed", FALSE) \/ NoUpdate(r)
    /\ UNCHANGED <<snd, begun, delivered, overlapped, unanswered>>

-----------------------------------------------------------------------------
(* SendRun. *)

Sends(s, r) == snd[s].at # "idle" /\ snd[s].run = r

\* Mutant of Sendable: a run that failed may be tried again.
SendableAgain(r) == status[r] \in {"ready_for_review", "failed"}

Sendable(r) == status[r] = "ready_for_review"

ReadRun(s) ==
    \E r \in Runs :
        /\ begun < MaxSends
        /\ snd[s] = IdleSender
        /\ Sendable(r)
        /\ snd' = [snd EXCEPT ![s] = SenderAt("send", r)]
        /\ begun' = begun + 1
        /\ overlapped' = [overlapped EXCEPT ![r] = @ \/ \E t \in Senders : Sends(t, r)]
        /\ UNCHANGED <<status, linked, gen, delivered, cut, unanswered>>

\* Mutant of SendText: the error is not looked at.
SendTextUnchecked(s) ==
    /\ snd[s].at = "send"
    /\ snd' = [snd EXCEPT ![s] = SenderAt("note", snd[s].run)]
    /\ \/ delivered' = [delivered EXCEPT ![snd[s].run] = @ + 1]
       \/ UNCHANGED delivered
    /\ UNCHANGED <<status, linked, gen, begun, overlapped, cut, unanswered>>

\* WhatsApp has the text, has it without an answer reaching us, or never got it.
SendText(s) ==
    LET r == snd[s].run IN
    /\ snd[s].at = "send"
    /\ \/ /\ snd' = [snd EXCEPT ![s] = SenderAt("note", snd[s].run)]
          /\ delivered' = [delivered EXCEPT ![r] = @ + 1]
          /\ UNCHANGED unanswered
       \/ /\ snd' = [snd EXCEPT ![s] = SenderAt("fail", r)]
          /\ delivered' = [delivered EXCEPT ![r] = @ + 1]
          /\ unanswered' = [unanswered EXCEPT ![r] = TRUE]
       \/ /\ snd' = [snd EXCEPT ![s] = SenderAt("fail", r)]
          /\ UNCHANGED <<delivered, unanswered>>
    /\ UNCHANGED <<status, linked, gen, begun, overlapped, cut>>

\* awaitMessageID looks for the stored message for three seconds; then the
\* row is updated with or without it.
NoteSent(s) ==
    /\ snd[s].at = "note"
    /\ (\E found \in BOOLEAN : Update(snd[s].run, "sent", found)) \/ NoUpdate(snd[s].run)
    /\ snd' = [snd EXCEPT ![s] = IdleSender]
    /\ UNCHANGED <<gen, begun, delivered, overlapped, unanswered>>

NoteFailed(s) ==
    /\ snd[s].at = "fail"
    /\ Update(snd[s].run, "failed", FALSE) \/ NoUpdate(snd[s].run)
    /\ snd' = [snd EXCEPT ![s] = IdleSender]
    /\ UNCHANGED <<gen, begun, delivered, overlapped, unanswered>>

-----------------------------------------------------------------------------
\* Deleting the account or the chat deletes the run (ON DELETE CASCADE).
Delete(r) ==
    /\ Stored(r)
    /\ status' = [status EXCEPT ![r] = "gone"]
    /\ linked' = [linked EXCEPT ![r] = FALSE]
    /\ UNCHANGED <<gen, snd, begun, delivered, history>>

\* The process stops; nothing looks at the rows again when it starts.
Stop ==
    /\ gen' = [r \in Runs |-> "idle"]
    /\ snd' = [s \in Senders |-> IdleSender]
    /\ cut' = [r \in Runs |-> cut[r] \/ gen[r] # "idle" \/ \E s \in Senders : Sends(s, r)]
    /\ UNCHANGED <<status, linked, begun, delivered, overlapped, unanswered>>

Generate(r) == OnStart(r) \/ AskRunner(r) \/ ApplyRunnerDecision(r) \/ FailRun(r)
Send(s) == SendText(s) \/ NoteSent(s) \/ NoteFailed(s)

Next ==
    \/ \E r \in Runs : Create(r) \/ Generate(r) \/ Delete(r)
    \/ \E s \in Senders : ReadRun(s) \/ Send(s)
    \/ Stop

Spec == Init /\ [][Next]_vars

\* The handlers' goroutines run, and the runner answers: its providers give
\* up after 25 or 30 seconds, which a stream relies on as its HTTP client has
\* no timeout.
FairSpec == Spec /\ (\A r \in Runs : WF_vars(Generate(r))) /\ (\A s \in Senders : WF_vars(Send(s)))
-----------------------------------------------------------------------------
(* Properties. *)

Statuses == {"none", "generating", "blocked", "ready_for_review", "sent", "failed", "gone"}

TypeOK ==
    /\ status \in [Runs -> Statuses]
    /\ linked \in [Runs -> BOOLEAN]
    /\ gen \in [Runs -> {"idle", "start", "prepare", "decide", "fail"}]
    /\ snd \in [Senders -> [at : {"idle", "send", "note", "fail"}, run : Runs \cup {NoRun}]]
    /\ begun \in 0..MaxSends
    /\ delivered \in [Runs -> Nat]
    /\ overlapped \in [Runs -> BOOLEAN] /\ cut \in [Runs -> BOOLEAN] /\ unanswered \in [Runs -> BOOLEAN]

(* A run shows "generating" only while somebody generates it, unless the   *)
(* client left, the database failed or the process stopped.                *)
GeneratingIsAlive == \A r \in Runs : status[r] = "generating" => gen[r] # "idle" \/ cut[r]

(* The customer gets the text of a run at most once, unless two requests   *)
(* sent it at the same time or one stopped between sending and noting it.  *)
SentOnce == \A r \in Runs : delivered[r] <= 1 \/ overlapped[r] \/ cut[r]

(* What the row says of a run is what happened: "sent" was delivered, and  *)
(* "failed" or "blocked" was not, with the same exceptions and the text    *)
(* that went out without an answer.                                        *)
StatusIsTrue ==
    \A r \in Runs :
        /\ status[r] = "sent" => delivered[r] > 0
        /\ status[r] \in {"failed", "blocked"}
             => delivered[r] = 0 \/ overlapped[r] \/ cut[r] \/ unanswered[r]

(* Only a run that was sent points at the message that was sent, even if   *)
(* two senders of it end differently.                                      *)
LinkedIsSent == \A r \in Runs : linked[r] => status[r] = "sent"

(* Every request that generates a run ends with a run that can be used or  *)
(* shows why not, unless it was cut.                                       *)
RunEnds == \A r \in Runs : status[r] = "generating" ~> status[r] # "generating" \/ cut[r]
=============================================================================

--------------------------- MODULE StatusPipeline ---------------------------
(***************************************************************************)
(* How the status of one account gets from its WhatsApp client to the row  *)
(* in accounts and to the console.                                         *)
(*                                                                         *)
(* Every change of a snapshot is emitted, and Manager.handleEvent starts a *)
(* goroutine for each event: the writes to the row land in any order.  The *)
(* requests that pair or log out write the row as well, after the          *)
(* connector has answered.  A status read compares the snapshot with the   *)
(* client and corrects it, in steps between which the rest goes on.        *)
(*                                                                         *)
(* The connector is the one of SessionConnector with one request at a      *)
(* time, so that the slot of the map is the only session.  What the        *)
(* goroutine of an event does besides (storing, telling the subscribers)   *)
(* is in Ingest, deletions are in SessionConnector.  last_seen_at is left  *)
(* out.                                                                    *)
(***************************************************************************)
EXTENDS Naturals, Sequences, SequencesExt

CONSTANTS
    MaxMoves,  \* bound: what the network causes, requests, timeouts and failures of statements
    MaxWrites  \* bound: requests, reads and the network begin something while no more writes are to come

ASSUME ConstantsAssumption == MaxMoves \in Nat /\ MaxWrites \in Nat

VARIABLES
    live,      \* status of the snapshot of the session, "none": no session
    announced, \* the snapshot has been emitted since the session was made
    device,    \* client.Store.ID: "none", "ok", "deleted" (Store.Deleted is set)
    link,      \* the client: "down", "open" (dialled), "in" (IsConnected and IsLoggedIn)
    bound,     \* the account has a device binding
    heard,     \* client events whose handler has not run
    row,       \* accounts.status
    writes,    \* UpdateStatus calls to come, in the order in which they were caused
    req,       \* the request that changes the session
    con,       \* the console's GET /api/accounts, and whether the row it got says "connected"
    probe,     \* the goroutine of getSessionSnapshotWithTimeout
    page,      \* the console shows the account as connected
    moves,     \* such things so far
    astray     \* history: the row has not got the newest snapshot that was written: the last
               \* write was late or for a message, or one has failed

vars == <<live, announced, device, link, bound, heard, row, writes, req, con, probe,
          page, moves, astray>>
session == <<live, announced, device, link>>
reading == <<con, probe, page>>

Statuses == {"pending", "pairing", "connected", "reconnecting", "disconnected",
             "logged_out", "failed"}
Kinds == {"Connected", "Disconnected", "PairSuccess", "QRSuccess", "QRTimeout",
          "LoggedOut", "StreamReplaced"}

Free == [op |-> "none", at |-> "none"]
NoProbe == [at |-> "idle", saw |-> "none", gone |-> FALSE]

\* The process starts with Restore; the row is what earlier ones have left.
Init ==
    /\ live = "none" /\ announced = FALSE /\ device = "none" /\ link = "down"
    /\ bound \in BOOLEAN
    /\ heard = {}
    /\ row = IF bound THEN "connected" ELSE "pending"
    /\ writes = <<>>
    /\ req = [op |-> "restore", at |-> "ensure"]
    /\ con = [at |-> "idle", row |-> FALSE]
    /\ probe = NoProbe
    /\ page = (row = "connected")
    /\ moves = 0
    /\ astray = FALSE

-----------------------------------------------------------------------------
(* The connector's snapshot and the events it emits. *)

Move == moves < MaxMoves /\ moves' = moves + 1

\* A statement fails.
Fail == astray' = TRUE /\ Move

NoFail == UNCHANGED <<astray, moves>>

\* late: it is not the newest status any more that was to get to the row,
\* or its session was dropped and none could be made.
Write(by, says) == [by |-> by, says |-> says, late |-> FALSE]

\* updateSnapshot: without a session the snapshot it returns is "failed".
Outcome(status) == IF live = "none" THEN "failed" ELSE status

Show(status) ==
    /\ live' = IF live = "none" THEN live ELSE status
    /\ announced' = TRUE

\* Mutant of Announce: the snapshot is changed and not emitted.
ShowOnly(status) == Show(status) /\ UNCHANGED writes

\* updateSnapshot and emitSnapshot.
Announce(status) ==
    /\ Show(status)
    /\ writes' = Append(writes, Write("event", Outcome(status)))

\* The same by a request that then writes what it got to the row.
AnnounceAndWrite(status) ==
    /\ Show(status)
    /\ writes' = writes \o <<Write("event", Outcome(status)), Write("request", Outcome(status))>>

-----------------------------------------------------------------------------
(* The bridge's goroutines and the requests write the row. *)

\* Those caused before the n-th are not the newest status any more.
Overtaken(n) == [j \in 1..Len(writes) |-> [writes[j] EXCEPT !.late = @ \/ j < n]]

Land(i) ==
    /\ \/ /\ row' = writes[i].says
          /\ astray' = (writes[i].late \/ writes[i].by = "message")
          /\ UNCHANGED moves
       \/ Fail /\ UNCHANGED row
    /\ writes' = RemoveAt(Overtaken(i), i)
    /\ req' = IF writes[i].by = "request" THEN Free ELSE req
    /\ UNCHANGED <<session, bound, heard, reading>>

-----------------------------------------------------------------------------
(* Requests, as in SessionConnector. *)

At(step) == req.at = step
Goto(step) == req' = [req EXCEPT !.at = step]
Pairs == req.op = "pair"

Begin(op) ==
    /\ req = Free /\ Len(writes) <= MaxWrites
    /\ req' = [op |-> op, at |-> IF op = "logout" THEN "find" ELSE "ensure"]
    /\ Move
    /\ UNCHANGED <<session, bound, heard, row, writes, reading, astray>>

Request == UNCHANGED <<row, heard, con, page>>

\* What Logout of internal/accounts does when the connector has answered.
Conclude == writes' = Append(writes, Write("request", "logged_out")) /\ Goto("write")

\* With a session.  SendText and SendMedia change it no more.
Proceed ==
    \/ req.op \in {"pair", "restore"} /\ Goto("show")
    \/ req.op = "logout" /\ Goto("hangup")
    \/ req.op = "send" /\ req' = Free

Ensure ==
    /\ At("ensure")
    /\ \/ /\ live # "none" /\ device # "deleted"
          /\ Proceed
          /\ UNCHANGED <<session, bound, astray, moves, writes, probe>>
       \/ /\ live = "none" \/ device = "deleted"
          /\ live' = IF bound THEN "disconnected" ELSE "pending"
          /\ device' = IF bound THEN "ok" ELSE "none"
          /\ link' = "down" /\ announced' = FALSE
          /\ Proceed
          /\ probe' = [probe EXCEPT !.gone = probe.at # "idle"]
          /\ UNCHANGED <<bound, astray, moves, writes>>
       \/ /\ live = "none" \/ device = "deleted"      \* loading the binding fails
          /\ live' = "none" /\ device' = "none" /\ link' = "down"
          /\ Fail
          /\ IF req.op = "logout"
             THEN bound' = FALSE /\ Conclude
             ELSE req' = Free /\ writes' = Overtaken(Len(writes) + 1) /\ UNCHANGED bound
          /\ probe' = [probe EXCEPT !.gone = probe.at # "idle"]
          /\ UNCHANGED announced
    /\ Request

\* StartPairing and Restore look at the client.
Look ==
    /\ At("show")
    /\ \/ /\ link = "in"
          /\ IF Pairs THEN AnnounceAndWrite("connected") /\ Goto("write")
                      ELSE req' = Free /\ UNCHANGED <<live, announced, writes>>
          /\ UNCHANGED link
       \/ /\ link # "in" /\ device = "ok"
          /\ IF Pairs \/ link = "down" THEN Goto("recheck") ELSE req' = Free
          /\ UNCHANGED <<live, announced, link, writes>>
       \/ /\ link # "in" /\ device # "ok"
          /\ IF Pairs /\ link = "down"
             THEN link' = "open" /\ Goto("await")
             ELSE req' = Free /\ UNCHANGED link
          /\ UNCHANGED <<live, announced, writes>>
    /\ UNCHANGED <<device, bound, astray, moves, probe>>
    /\ Request

\* connectExistingSession looks again; it returns what the snapshot says now, ...
Recheck ==
    /\ At("recheck")
    /\ \/ /\ link = "in"
          /\ IF Pairs
             THEN writes' = Append(writes, Write("request", live)) /\ Goto("write")
             ELSE req' = Free /\ UNCHANGED writes
          /\ UNCHANGED <<live, announced>>
       \/ link # "in" /\ Announce("reconnecting") /\ Goto("dial")
    /\ UNCHANGED <<device, link, bound, astray, moves, probe>>
    /\ Request

\* ... or what it said before the client dialled.
Dial ==
    /\ At("dial")
    /\ \/ /\ link' = IF link = "down" THEN "open" ELSE link
          /\ IF Pairs
             THEN /\ writes' = Append(writes, [Write("request", "reconnecting")
                                                  EXCEPT !.late = live # "reconnecting"])
                  /\ Goto("write")
             ELSE req' = Free /\ UNCHANGED writes
          /\ UNCHANGED <<live, announced>>
       \/ Announce("failed") /\ req' = Free /\ UNCHANGED link
    /\ UNCHANGED <<device, bound, astray, moves, probe>>
    /\ Request

\* awaitQRItem and the flows of both pairing methods.
AwaitItem ==
    /\ At("await")
    /\ \/ AnnounceAndWrite("pairing") /\ Goto("write")
       \/ Announce("failed") /\ req' = Free
    /\ UNCHANGED <<device, link, bound, astray, moves, probe>>
    /\ Request

Find ==
    /\ At("find")
    /\ \/ live # "none" /\ Goto("hangup") /\ UNCHANGED <<writes, astray, moves>>
       \/ live = "none" /\ bound /\ Goto("ensure") /\ UNCHANGED <<writes, astray, moves>>
       \/ live = "none" /\ ~bound /\ Conclude /\ NoFail
       \/ /\ live = "none" /\ Fail      \* loading the binding fails
          /\ req' = Free
          /\ UNCHANGED writes
    /\ UNCHANGED <<session, bound, probe>>
    /\ Request

\* When the remote logout gets through, the client disconnects and deletes its device.
RemoteLogout ==
    /\ At("hangup")
    /\ \/ link = "in" /\ device = "ok" /\ link' = "down" /\ device' = "deleted"
       \/ UNCHANGED <<link, device>>
    /\ Goto("disconnect")
    /\ UNCHANGED <<live, announced, bound, astray, moves, writes, probe>>
    /\ Request

Disconnect ==
    /\ At("disconnect")
    /\ link' = "down"
    /\ Goto("wipe")
    /\ UNCHANGED <<live, announced, device, bound, astray, moves, writes, probe>>
    /\ Request

\* Store.Delete fails and leaves a device; Logout only logs it.
Wipe ==
    /\ At("wipe")
    /\ device' \in IF device = "none" THEN {"none"} ELSE {device, "deleted"}
    /\ Goto("unbind")
    /\ UNCHANGED <<live, announced, link, bound, astray, moves, writes, probe>>
    /\ Request

Unbind ==
    /\ At("unbind")
    /\ \/ bound' = FALSE /\ NoFail
       \/ UNCHANGED bound /\ Fail
    /\ Goto("mark")
    /\ UNCHANGED <<session, writes, probe>>
    /\ Request

Mark ==
    /\ At("mark")
    /\ Announce("logged_out")
    /\ Goto("drop")
    /\ UNCHANGED <<device, link, bound, astray, moves, probe>>
    /\ Request

Drop ==
    /\ At("drop")
    /\ live' = "none" /\ device' = "none" /\ link' = "down"
    /\ Conclude
    /\ probe' = [probe EXCEPT !.gone = probe.at # "idle"]
    /\ UNCHANGED <<announced, bound, astray, moves>>
    /\ Request

RequestStep ==
    \/ Ensure \/ Look \/ Recheck \/ Dial \/ AwaitItem
    \/ Find \/ RemoteLogout \/ Disconnect \/ Wipe \/ Unbind \/ Mark \/ Drop

-----------------------------------------------------------------------------
(* The client (external), and handleWhatsmeowEvent and handleQRChannelItem *)
(* with what it delivers.  Kinds has one event for each effect: QR codes   *)
(* and hints work like PairSuccess, QR errors like StreamReplaced.         *)

Network(kinds) ==
    /\ Move /\ Len(writes) <= MaxWrites
    /\ heard' = heard \cup kinds
    /\ UNCHANGED <<live, announced, bound, row, writes, req, reading, astray>>

Authenticate == link = "open" /\ device = "ok" /\ link' = "in" /\ Network({"Connected"}) /\ UNCHANGED device
ScanCode == link = "open" /\ device = "none" /\ device' = "ok" /\ Network({"PairSuccess", "QRSuccess"}) /\ UNCHANGED link
CodeExpires == link = "open" /\ device = "none" /\ link' = "down" /\ Network({"QRTimeout"}) /\ UNCHANGED device

\* A paired client dials again by itself.
Lose ==
    /\ link # "down"
    /\ link' = IF device = "ok" THEN "open" ELSE "down"
    /\ Network({"Disconnected"})
    /\ UNCHANGED device

Evict ==
    /\ link = "in"
    /\ link' = "down"
    /\ \/ device' = "deleted" /\ Network({"LoggedOut"})
       \/ Network({"StreamReplaced"}) /\ UNCHANGED device

Snapshot(kind) ==
    CASE kind = "Connected" -> "connected"
      [] kind \in {"PairSuccess", "QRSuccess"} -> "pairing"
      [] kind = "Disconnected" -> IF device = "ok" THEN "reconnecting" ELSE "disconnected"
      [] kind = "QRTimeout" -> "disconnected"
      [] kind = "LoggedOut" -> "logged_out"
      [] kind = "StreamReplaced" -> "failed"

Handle(kind) ==
    /\ kind \in heard
    /\ heard' = heard \ {kind}
    /\ Announce(Snapshot(kind))
    /\ bound' \in CASE kind \in {"Connected", "PairSuccess"} /\ device = "ok" -> {TRUE, bound}
                   [] kind = "LoggedOut" -> {FALSE, bound}
                   [] OTHER -> {bound}
    /\ UNCHANGED <<device, link, row, req, reading, moves, astray>>

\* A message for the session or sent from it; its goroutine stores it and says "connected".
Receive ==
    /\ live # "none" /\ link = "in"
    /\ Move /\ Len(writes) <= MaxWrites
    /\ writes' = Append(writes, Write("message", "connected"))
    /\ UNCHANGED <<session, bound, heard, row, req, reading, astray>>

-----------------------------------------------------------------------------
(* ListAccounts and GetAccountStatus for the console, which asks again and *)
(* again.  Status runs in a goroutine that a timeout does not stop.        *)

\* Bound: no more than one such goroutine at a time.
Load ==
    /\ con.at = "idle" /\ probe = NoProbe /\ Len(writes) <= MaxWrites
    /\ con' = [at |-> "asked", row |-> row = "connected"]
    /\ probe' = [NoProbe EXCEPT !.at = "state"]
    /\ UNCHANGED page
    /\ UNCHANGED <<session, bound, heard, row, writes, req, moves, astray>>

TimeOut ==
    /\ con.at = "asked"
    /\ page' = con.row
    /\ con' = [con EXCEPT !.at = "idle"]
    /\ Move
    /\ UNCHANGED <<session, bound, heard, row, writes, req, probe, astray>>

Answer(connected) ==
    /\ page' = IF con.at = "asked" THEN connected ELSE page
    /\ con' = [con EXCEPT !.at = "idle"]
    /\ probe' = NoProbe

Probing(step) ==
    /\ probe.at = step
    /\ UNCHANGED <<device, link, bound, heard, row, req, moves, astray>>

GetSessionState ==
    /\ Probing("state")
    /\ probe' = [probe EXCEPT !.saw = live, !.at = IF live = "none" THEN "binding" ELSE "client"]
    /\ UNCHANGED <<live, announced, writes, con, page>>

\* Without a session and a binding, or with an error, the row is shown.
LoadDeviceBinding ==
    /\ Probing("binding")
    /\ (bound /\ Answer(FALSE)) \/ Answer(con.row)
    /\ UNCHANGED <<live, announced, writes>>

\* Mutant of Corrected: a client that is in is not looked for.
NeverUp(saw, up, paired) ==
    IF saw = "connected" THEN IF paired THEN "reconnecting" ELSE "disconnected"
    ELSE IF saw = "reconnecting" /\ ~paired THEN "disconnected" ELSE saw

\* Mutant of Corrected: what the handlers said is believed when the client is down.
OnlyUp(saw, up, paired) == IF up THEN "connected" ELSE saw

\* reconcileSessionSnapshot: what the snapshot should say.
Corrected(saw, up, paired) ==
    IF up THEN "connected"
    ELSE IF saw = "connected" /\ paired THEN "reconnecting"
    ELSE IF saw \in {"connected", "reconnecting"} /\ ~paired THEN "disconnected"
    ELSE saw

Compare ==
    LET to == Corrected(probe.saw, link = "in" /\ ~probe.gone, device = "ok" /\ ~probe.gone) IN
    /\ Probing("client")
    /\ IF to = probe.saw
       THEN Answer(to = "connected")
       ELSE probe' = [probe EXCEPT !.at = "update", !.saw = to] /\ UNCHANGED <<con, page>>
    /\ UNCHANGED <<live, announced, writes>>

\* By now the snapshot may be another one, or that of another session.
Correct ==
    /\ Probing("update")
    /\ Announce(probe.saw)
    /\ Answer(Outcome(probe.saw) = "connected")

Probe == GetSessionState \/ LoadDeviceBinding \/ Compare \/ Correct

Next ==
    \/ \E i \in 1..Len(writes) : Land(i)
    \/ \E op \in {"pair", "send", "logout"} : Begin(op)
    \/ RequestStep
    \/ Authenticate \/ ScanCode \/ CodeExpires \/ Lose \/ Evict
    \/ \E kind \in Kinds : Handle(kind)
    \/ Receive \/ Load \/ TimeOut \/ Probe

Spec == Init /\ [][Next]_vars

\* Goroutines run, statements and calls of the client end, and the console
\* asks every few seconds (setInterval).  The network does what it likes.
FairSpec ==
    /\ Spec
    /\ WF_vars(\E i \in 1..Len(writes) : Land(i))
    /\ WF_vars(RequestStep)
    /\ \A kind \in Kinds : WF_vars(Handle(kind))
    /\ WF_vars(Load) /\ WF_vars(Probe)
-----------------------------------------------------------------------------
(* Properties. *)

Quiet == writes = <<>> /\ req = Free

(* When nothing is under way the row says what the snapshot of the session *)
(* says, however requests, handlers and corrections went past one another; *)
(* after a logout it says so, or "failed" when a status read or a handler  *)
(* came after the session was gone (handleSessionSnapshot, StartPairing,   *)
(* Logout of internal/accounts).                                           *)
RowFollowsSession ==
    Quiet /\ ~astray =>
        /\ live # "none" /\ announced => row = live
        /\ live = "none" => row \in {"logged_out", "failed"}

(* An account whose client stays logged in ends up shown as connected, in  *)
(* whatever order its events were handled and whatever the row says:       *)
(* status reads correct the snapshot (reconcileSessionSnapshot).           *)
PageShowsConnected == <>[](link = "in") => <>[]page

(* An account whose client stays away does not stay shown as connected,    *)
(* unless it has no session and the row was left wrong.                    *)
PageShowsLoss == <>[](link # "in") => <>[](~page \/ (live = "none" /\ astray))
=============================================================================

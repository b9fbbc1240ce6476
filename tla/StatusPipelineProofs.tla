------------------------ MODULE StatusPipelineProofs ------------------------
(* The row of an account and the snapshot of its session: the proof.  Only *)
(* the last of the writes to come matters.  If nothing that was caused     *)
(* after it has landed it says what the snapshot says, and so does the row *)
(* once no writes are left, unless it is known to be astray.               *)
EXTENDS StatusPipeline, TLAPS

\* A status that is right for the account now.
Fits(status) ==
    /\ live # "none" /\ announced => status = live
    /\ live = "none" => status \in {"logged_out", "failed"}

\* It lands as the newest status, unless a later one lands first.
Newest(w) == ~w.late /\ w.by # "message"

\* The process has started and its session for the account is not made yet.
Starting == live = "none" /\ req.op = "restore" /\ req.at = "ensure"

LastWriteFits == writes # <<>> /\ Newest(writes[Len(writes)]) => Fits(writes[Len(writes)].says)

RowFits == writes = <<>> /\ ~astray /\ ~Starting => Fits(row)

\* A request that looks at the client has a session; nobody else drops one.
Places == {"none", "ensure", "show", "recheck", "dial", "await", "write", "find", "hangup",
           "disconnect", "wipe", "unbind", "mark", "drop"}
RequestRecord == [op : {"none", "restore", "pair", "send", "logout"}, at : Places]
Held == req \in RequestRecord /\ (req.at \in {"show", "recheck"} => live # "none")

Said == Statuses \cup {"none"}
WriteRecord == [by : {"event", "request", "message"}, says : Said, late : BOOLEAN]
Writes == Seq(WriteRecord)
ProbeRecord == [at : {"idle", "state", "binding", "client", "update"}, saw : Said, gone : BOOLEAN]

Typed ==
    /\ writes \in Writes /\ live \in Said
    /\ probe \in ProbeRecord
    /\ probe.at \in {"client", "update"} => probe.saw \in Statuses

IInv == Typed /\ Held /\ LastWriteFits /\ RowFits
-----------------------------------------------------------------------------
LEMMA InitIInv == Init => IInv
<1> SUFFICES ASSUME Init PROVE IInv
  OBVIOUS
<1>1. writes = <<>> /\ Starting
  BY DEF Init, Starting
<1>2. writes \in Writes
  BY <1>1 DEF Writes
<1>3. Typed
  BY <1>2 DEF Init, Typed, NoProbe, Said, ProbeRecord
<1>4. QED
  BY <1>1, <1>3 DEF Init, IInv, Held, RequestRecord, Places, Starting, LastWriteFits, RowFits

\* What is written next is the last of the writes to come.
LEMMA Appended ==
  ASSUME Typed, NEW w \in WriteRecord, writes' = Append(writes, w),
         Newest(w) => Fits(w.says)'
  PROVE  writes' \in Writes /\ LastWriteFits' /\ RowFits'
<1>1. /\ writes' \in Writes /\ writes' # <<>> /\ writes'[Len(writes')] = w
  BY DEF Typed, Writes
<1>2. QED
  BY <1>1 DEF LastWriteFits, RowFits, Newest

\* Writes that the newest status has overtaken are late.
LEMMA OvertakenWrites ==
  ASSUME Typed, NEW n \in Nat
  PROVE  /\ Overtaken(n) \in Writes /\ Len(Overtaken(n)) = Len(writes)
         /\ \A j \in 1..Len(writes) :
              IF j < n THEN Overtaken(n)[j].late ELSE Overtaken(n)[j] = writes[j]
<1> DEFINE T(j) == [writes[j] EXCEPT !.late = @ \/ j < n]
<1>1. Len(writes) \in Nat /\ \A j \in 1..Len(writes) : writes[j] \in WriteRecord
  BY DEF Typed, Writes
<1>2. ASSUME NEW j \in 1..Len(writes)
      PROVE  T(j) \in WriteRecord /\ (IF j < n THEN T(j).late ELSE T(j) = writes[j])
  <2>1. writes[j] \in WriteRecord /\ writes[j].late \in BOOLEAN
    BY <1>1 DEF WriteRecord
  <2>2. CASE j < n
    BY <2>1, <2>2 DEF WriteRecord
  <2>3. CASE ~(j < n)
    BY <2>1, <2>3 DEF WriteRecord
  <2>4. QED
    BY <2>2, <2>3
<1>3. Overtaken(n) = [j \in 1..Len(writes) |-> T(j)]
  BY DEF Overtaken
<1> HIDE DEF T
<1>4. Overtaken(n) \in Writes /\ Len(Overtaken(n)) = Len(writes)
  BY <1>1, <1>2, <1>3 DEF Writes
<1>5. QED
  BY <1>2, <1>3, <1>4

\* The last write lands, or it stays the last and as new as it was.
LEMMA Landed ==
  ASSUME IInv, NEW i \in 1..Len(writes), Land(i)
  PROVE  writes' \in Writes /\ LastWriteFits' /\ RowFits'
<1> DEFINE o == Overtaken(i)
           n == Len(writes)
<1>1. /\ n \in Nat /\ i \in Nat /\ 1 <= i /\ i <= n /\ o \in Writes /\ Len(o) = n
      /\ \A j \in 1..n : IF j < i THEN o[j].late ELSE o[j] = writes[j]
  BY OvertakenWrites DEF IInv, Typed, Writes
<1>2. UNCHANGED session /\ writes' = SubSeq(o, 1, i - 1) \o SubSeq(o, i + 1, Len(o))
  BY DEF Land, RemoveAt
<1>3. \A status : Fits(status)' = Fits(status)
  BY <1>2 DEF Fits, session
<1>4. \/ astray'
      \/ row' = writes[i].says /\ (Newest(writes[i]) \/ astray')
  BY DEF Land, Fail, Newest
<1> DEFINE a == SubSeq(o, 1, i - 1)
           b == SubSeq(o, i + 1, n)
<1>5. /\ a \in Writes /\ Len(a) = i - 1 /\ \A j \in 1..(i - 1) : a[j] = o[j]
      /\ b \in Writes /\ Len(b) = n - i /\ \A j \in 1..(n - i) : b[j] = o[i + j]
  BY <1>1 DEF Writes
<1>6. /\ writes' \in Writes /\ Len(writes') = n - 1
      /\ \A j \in 1..(n - 1) : writes'[j] = IF j < i THEN o[j] ELSE o[j + 1]
  <2>1. writes' = a \o b
    BY <1>1, <1>2
  <2> HIDE DEF a, b
  <2>2. writes' \in Writes /\ Len(writes') = n - 1
    BY <1>1, <1>5, <2>1 DEF Writes
  <2>3. ASSUME NEW j \in 1..(n - 1) PROVE writes'[j] = IF j < i THEN o[j] ELSE o[j + 1]
    <3>1. writes'[j] = IF j <= i - 1 THEN a[j] ELSE b[j - (i - 1)]
      BY <1>1, <1>5, <2>1 DEF Writes
    <3>2. CASE j < i
      BY <1>1, <1>5, <3>1, <3>2
    <3>3. CASE ~(j < i)
      <4>1. j - (i - 1) \in 1..(n - i) /\ i + (j - (i - 1)) = j + 1
        BY <1>1, <3>3
      <4>2. QED
        BY <1>1, <1>5, <3>1, <3>3, <4>1
    <3>4. QED
      BY <3>2, <3>3
  <2>4. QED
    BY <2>2, <2>3
<1> HIDE DEF a, b
<1>7. CASE i = n
  <2>1. n > 1 => writes'[n - 1] = o[n - 1] /\ o[n - 1].late
    BY <1>1, <1>6, <1>7
  <2>2. LastWriteFits'
    <3>1. CASE n = 1
      BY <1>6, <3>1 DEF LastWriteFits, Writes
    <3>2. CASE n > 1
      BY <1>6, <2>1, <3>2 DEF LastWriteFits, Newest
    <3>3. QED
      BY <1>1, <3>1, <3>2
  <2>3. RowFits'
    BY <1>1, <1>3, <1>4, <1>6, <1>7 DEF RowFits, IInv, LastWriteFits, Writes
  <2>4. QED
    BY <1>6, <2>2, <2>3
<1>8. CASE i < n
  <2>1. writes'[n - 1] = o[n] /\ o[n] = writes[n]
    BY <1>1, <1>6, <1>8
  <2>2. writes # <<>> /\ writes' # <<>>
    BY <1>1, <1>6, <1>8 DEF Writes
  <2>3. QED
    BY <1>3, <1>6, <2>1, <2>2 DEF LastWriteFits, RowFits, IInv
<1>9. QED
  BY <1>1, <1>7, <1>8

\* What the changes of a snapshot add to the writes.
LEMMA Announced ==
  ASSUME IInv, NEW status \in Statuses, Announce(status) \/ AnnounceAndWrite(status)
  PROVE  /\ writes' \in Writes /\ live' \in Said /\ LastWriteFits' /\ RowFits'
<1>1. PICK o \in Said :
        /\ o = Outcome(status)
        /\ live' = (IF live = "none" THEN live ELSE status) /\ live' \in Said
        /\ Fits(o)'
  <2>1. live' = (IF live = "none" THEN live ELSE status) /\ live' \in Said
    BY DEF Announce, AnnounceAndWrite, Show, IInv, Typed, Said
  <2>2. PICK o \in Said : o = Outcome(status)
    BY DEF Outcome, Said, Statuses
  <2>3. Fits(o)'
    BY <2>1, <2>2 DEF Fits, Outcome, Statuses
  <2>4. QED
    BY <2>1, <2>2, <2>3
<1>2. PICK e, q \in WriteRecord :
        e = Write("event", o) /\ q = Write("request", o) /\ e.says = o /\ q.says = o
  <2>1. \A by \in {"event", "request"} : Write(by, o) \in WriteRecord /\ Write(by, o).says = o
    BY DEF Write, WriteRecord
  <2>2. QED
    BY <2>1
<1>3. CASE Announce(status)
  <2>1. writes' = Append(writes, e)
    BY <1>1, <1>2, <1>3 DEF Announce
  <2>2. QED
    BY <1>1, <1>2, <2>1, Appended DEF IInv
<1>4. CASE AnnounceAndWrite(status)
  <2>1. writes' = writes \o <<e, q>>
    BY <1>1, <1>2, <1>4 DEF AnnounceAndWrite
  <2>2. writes' \in Writes /\ writes' # <<>> /\ writes'[Len(writes')] = q
    BY <2>1 DEF IInv, Typed, Writes
  <2>3. QED
    BY <1>1, <1>2, <2>2 DEF LastWriteFits, RowFits, Newest
<1>5. QED
  BY <1>3, <1>4

\* The last write of a logout fits once the session is gone.
LEMMA Concluded ==
  ASSUME Typed, Conclude, live' = "none"
  PROVE  writes' \in Writes /\ LastWriteFits' /\ RowFits'
<1>1. Write("request", "logged_out") \in WriteRecord
  BY DEF Write, WriteRecord, Said, Statuses
<1>2. Fits("logged_out")'
  BY DEF Fits
<1>3. QED
  BY <1>1, <1>2, Appended DEF Conclude, Write

\* Nothing that matters here changes.
LEMMA Stays ==
  ASSUME IInv, UNCHANGED <<live, announced, row, writes, astray>>, Starting => Starting'
  PROVE  writes' \in Writes /\ live' \in Said /\ LastWriteFits' /\ RowFits'
BY DEF IInv, Typed, LastWriteFits, RowFits, Fits
-----------------------------------------------------------------------------
LEMMA EnsureFits ==
  ASSUME IInv, Ensure
  PROVE  writes' \in Writes /\ live' \in Said /\ LastWriteFits' /\ RowFits'
<1>1. CASE live # "none" /\ UNCHANGED <<session, astray, writes>>
  BY <1>1, Stays DEF Ensure, Request, session, Starting
<1>2. CASE /\ live' = IF bound THEN "disconnected" ELSE "pending"
           /\ announced' = FALSE /\ UNCHANGED writes
  <2>1. live' # "none" /\ live' \in Said /\ ~announced'
    BY <1>2 DEF Said, Statuses
  <2>2. \A status : Fits(status)'
    BY <2>1 DEF Fits
  <2>3. QED
    BY <1>2, <2>1, <2>2 DEF LastWriteFits, RowFits, IInv, Typed
<1>3. CASE live' = "none" /\ Conclude
  BY <1>3, Concluded DEF IInv, Said
<1>4. CASE live' = "none" /\ astray' = TRUE /\ writes' = Overtaken(Len(writes) + 1)
  <2>1. Len(writes) \in Nat
    BY DEF IInv, Typed, Writes
  <2>2. /\ writes' \in Writes /\ Len(writes') = Len(writes)
        /\ \A j \in 1..Len(writes) : writes'[j].late
    BY <1>4, <2>1, OvertakenWrites DEF IInv
  <2>3. LastWriteFits'
    BY <2>1, <2>2 DEF LastWriteFits, Newest, Writes
  <2>4. QED
    BY <1>4, <2>2, <2>3 DEF RowFits, Said
<1>5. QED
  BY <1>1, <1>2, <1>3, <1>4 DEF Ensure, Fail

LEMMA LookFits ==
  ASSUME IInv, Look
  PROVE  writes' \in Writes /\ live' \in Said /\ LastWriteFits' /\ RowFits'
<1>1. CASE AnnounceAndWrite("connected")
  BY <1>1, Announced DEF Statuses
<1>2. CASE UNCHANGED <<live, announced, writes>>
  BY <1>2, Stays DEF Look, At, Request, Starting
<1>3. QED
  BY <1>1, <1>2 DEF Look

LEMMA RecheckFits ==
  ASSUME IInv, Recheck
  PROVE  writes' \in Writes /\ live' \in Said /\ LastWriteFits' /\ RowFits'
<1>1. CASE Announce("reconnecting")
  BY <1>1, Announced DEF Statuses
<1>2. CASE UNCHANGED <<live, announced>> /\ writes' = Append(writes, Write("request", live))
  <2>1. live # "none" /\ live \in Said
    BY DEF Recheck, At, IInv, Held, Typed
  <2>2. Write("request", live) \in WriteRecord /\ Write("request", live).says = live
    BY <2>1 DEF Write, WriteRecord
  <2>3. Fits(live)'
    BY <1>2, <2>1 DEF Fits
  <2>4. QED
    BY <1>2, <2>1, <2>2, <2>3, Appended DEF IInv
<1>3. CASE UNCHANGED <<live, announced, writes>>
  BY <1>3, Stays DEF Recheck, At, Request, Starting
<1>4. QED
  BY <1>1, <1>2, <1>3 DEF Recheck

LEMMA DialFits ==
  ASSUME IInv, Dial
  PROVE  writes' \in Writes /\ live' \in Said /\ LastWriteFits' /\ RowFits'
<1>1. CASE Announce("failed")
  BY <1>1, Announced DEF Statuses
<1>2. CASE /\ UNCHANGED <<live, announced>>
           /\ writes' = Append(writes, [Write("request", "reconnecting")
                                          EXCEPT !.late = live # "reconnecting"])
  <2>1. PICK w \in WriteRecord :
          /\ w = [Write("request", "reconnecting") EXCEPT !.late = live # "reconnecting"]
          /\ w.says = "reconnecting" /\ (Newest(w) => live = "reconnecting")
    <3> DEFINE x == [Write("request", "reconnecting") EXCEPT !.late = live # "reconnecting"]
    <3>1. x = [by |-> "request", says |-> "reconnecting", late |-> live # "reconnecting"]
      BY DEF Write
    <3>2. x \in WriteRecord /\ x.says = "reconnecting" /\ (Newest(x) => live = "reconnecting")
      BY <3>1 DEF WriteRecord, Said, Statuses, Newest
    <3>3. QED
      BY <3>2
  <2>2. Newest(w) => Fits(w.says)'
    BY <1>2, <2>1 DEF Fits
  <2>3. writes' = Append(writes, w)
    BY <1>2, <2>1
  <2>4. QED
    BY <1>2, <2>2, <2>3, Appended DEF IInv, Typed
<1>3. CASE UNCHANGED <<live, announced, writes>>
  BY <1>3, Stays DEF Dial, At, Request, Starting
<1>4. QED
  BY <1>1, <1>2, <1>3 DEF Dial

LEMMA OtherRequestsFit ==
  ASSUME IInv, AwaitItem \/ Find \/ RemoteLogout \/ Disconnect \/ Wipe \/ Unbind \/ Mark \/ Drop
  PROVE  writes' \in Writes /\ live' \in Said /\ LastWriteFits' /\ RowFits'
<1>1. CASE AwaitItem \/ Mark
  BY <1>1, Announced DEF AwaitItem, Mark, Statuses
<1>2. CASE Drop
  BY <1>2, Concluded DEF Drop, IInv, Said
<1>3. CASE Find
  <2>1. UNCHANGED <<live, announced, row>> /\ ~Starting
    BY <1>3 DEF Find, At, session, Request, Starting
  <2>2. CASE live = "none" /\ Conclude
    BY <2>1, <2>2, Concluded DEF IInv, Typed
  <2>3. CASE UNCHANGED writes /\ (astray' \/ UNCHANGED astray)
    BY <2>1, <2>3 DEF IInv, Typed, LastWriteFits, RowFits, Fits
  <2>4. QED
    BY <1>3, <2>2, <2>3 DEF Find, Fail
<1>4. CASE RemoteLogout \/ Disconnect \/ Wipe \/ Unbind
  <2>1. UNCHANGED <<live, announced, row, writes>> /\ (astray' \/ UNCHANGED astray) /\ ~Starting
    BY <1>4 DEF RemoteLogout, Disconnect, Wipe, Unbind, session, At, NoFail, Fail, Request, Starting
  <2>2. QED
    BY <2>1 DEF IInv, Typed, LastWriteFits, RowFits, Fits
<1>5. QED
  BY <1>1, <1>2, <1>3, <1>4
-----------------------------------------------------------------------------
LEMMA NetworkFits ==
  ASSUME IInv, Authenticate \/ ScanCode \/ CodeExpires \/ Lose \/ Evict
  PROVE  writes' \in Writes /\ live' \in Said /\ LastWriteFits' /\ RowFits'
<1>1. \E kinds : Network(kinds)
  BY DEF Authenticate, ScanCode, CodeExpires, Lose, Evict
<1>2. QED
  BY <1>1, Stays DEF Network, Starting

LEMMA HandleFits ==
  ASSUME IInv, NEW kind \in Kinds, Handle(kind)
  PROVE  writes' \in Writes /\ live' \in Said /\ LastWriteFits' /\ RowFits'
<1>1. Snapshot(kind) \in Statuses
  BY DEF Snapshot, Kinds, Statuses
<1>2. QED
  BY <1>1, Announced DEF Handle

LEMMA ReceiveFits ==
  ASSUME IInv, Receive
  PROVE  writes' \in Writes /\ live' \in Said /\ LastWriteFits' /\ RowFits'
<1>1. Write("message", "connected") \in WriteRecord /\ ~Newest(Write("message", "connected"))
  BY DEF Write, WriteRecord, Said, Statuses, Newest
<1>2. QED
  BY <1>1, Appended DEF Receive, session, IInv, Typed

LEMMA ProbeFits ==
  ASSUME IInv, Load \/ TimeOut \/ Probe
  PROVE  writes' \in Writes /\ live' \in Said /\ LastWriteFits' /\ RowFits'
<1>1. CASE Correct
  BY <1>1, Announced DEF Correct, Probing, IInv, Typed
<1>2. CASE Load \/ TimeOut \/ GetSessionState \/ LoadDeviceBinding \/ Compare
  BY <1>2, Stays DEF Load, TimeOut, GetSessionState, LoadDeviceBinding, Compare, Probing, session, Starting
<1>3. QED
  BY <1>1, <1>2 DEF Probe
-----------------------------------------------------------------------------
LEMMA ProbeTyped ==
  ASSUME IInv, [Next]_vars
  PROVE  (probe \in ProbeRecord /\ (probe.at \in {"client", "update"} => probe.saw \in Statuses))'
<1> DEFINE Good(p) == p \in ProbeRecord /\ (p.at \in {"client", "update"} => p.saw \in Statuses)
<1>1. Good(probe)
  BY DEF IInv, Typed
<1> SUFFICES Good(probe')
  OBVIOUS
<1>2. CASE \E gone \in BOOLEAN : probe' = [probe EXCEPT !.gone = gone]
  <2>1. PICK gone \in BOOLEAN : probe' = [probe EXCEPT !.gone = gone]
    BY <1>2
  <2>2. probe' = [at |-> probe.at, saw |-> probe.saw, gone |-> gone]
    BY <1>1, <2>1 DEF ProbeRecord
  <2>3. QED
    BY <1>1, <2>2 DEF ProbeRecord
<1>3. CASE probe' = NoProbe \/ probe' = [NoProbe EXCEPT !.at = "state"]
  <2>1. \E at \in {"idle", "state"} : probe' = [at |-> at, saw |-> "none", gone |-> FALSE]
    BY <1>3 DEF NoProbe
  <2>2. QED
    BY <2>1 DEF ProbeRecord, Said
<1>4. CASE GetSessionState
  <2>1. probe' = [at |-> IF live = "none" THEN "binding" ELSE "client", saw |-> live, gone |-> probe.gone]
    BY <1>1, <1>4 DEF GetSessionState, ProbeRecord
  <2>2. live \in Said
    BY DEF IInv, Typed
  <2>3. QED
    BY <1>1, <2>1, <2>2 DEF ProbeRecord, Said
<1>5. CASE Compare
  <2>1. ASSUME NEW up \in BOOLEAN, NEW paired \in BOOLEAN
        PROVE  Corrected(probe.saw, up, paired) \in Statuses
    BY <1>1, <1>5 DEF Compare, Probing, Corrected, Statuses
  <2>2. CASE probe' = NoProbe
    BY <1>3, <2>2
  <2>3. CASE \E to \in Statuses : probe' = [probe EXCEPT !.at = "update", !.saw = to]
    <3>1. PICK to \in Statuses : probe' = [probe EXCEPT !.at = "update", !.saw = to]
      BY <2>3
    <3>2. probe' = [at |-> "update", saw |-> to, gone |-> probe.gone]
      BY <1>1, <3>1 DEF ProbeRecord
    <3>3. QED
      BY <1>1, <3>2 DEF ProbeRecord, Said
  <2>4. QED
    BY <1>5, <2>1, <2>2, <2>3 DEF Compare, Answer
<1>6. CASE UNCHANGED probe
  BY <1>1, <1>6
<1>7. ASSUME RequestStep PROVE UNCHANGED probe \/ \E gone \in BOOLEAN : probe' = [probe EXCEPT !.gone = gone]
  BY <1>7 DEF RequestStep, Ensure, Look, Recheck, Dial, AwaitItem, Find,
               RemoteLogout, Disconnect, Wipe, Unbind, Mark, Drop
<1>8. ASSUME Probe PROVE GetSessionState \/ Compare \/ probe' = NoProbe
  BY <1>8 DEF Probe, LoadDeviceBinding, Correct, Answer
<1>9. ASSUME Load PROVE probe' = [NoProbe EXCEPT !.at = "state"]
  BY <1>9 DEF Load
<1>10. ASSUME ~(RequestStep \/ Probe \/ Load) PROVE UNCHANGED probe
  BY <1>10 DEF Next, vars, Land, Begin, Authenticate, ScanCode, CodeExpires, Lose, Evict, Network,
               Handle, Receive, TimeOut, reading
<1>11. QED
  BY <1>2, <1>3, <1>4, <1>5, <1>6, <1>7, <1>8, <1>9, <1>10

\* Who may change the session of a request that looks at the client.
LEMMA SessionHeld ==
  ASSUME IInv, [Next]_vars
  PROVE  Held'
<1>1. req \in RequestRecord /\ (req.at \in {"show", "recheck"} => live # "none")
  BY DEF IInv, Held
<1>2. ASSUME req' = Free PROVE Held'
  BY <1>2 DEF Held, Free, RequestRecord, Places
<1>3. ASSUME NEW step \in Places, Goto(step), step \in {"show", "recheck"} => live' # "none"
      PROVE  Held'
  <2>1. req' = [op |-> req.op, at |-> step]
    BY <1>1, <1>3 DEF Goto, RequestRecord
  <2>2. QED
    BY <1>1, <1>3, <2>1 DEF Held, RequestRecord
<1>4. ASSUME UNCHANGED req, live # "none" => live' # "none"
      PROVE  Held'
  BY <1>1, <1>4 DEF Held
<1>5. ASSUME NEW status \in Statuses, Show(status)
      PROVE  live # "none" => live' # "none"
  BY <1>5 DEF Show, Statuses
<1>6. CASE Ensure
  <2>1. live' # "none" => \/ req' = Free
                          \/ \E step \in Places : Goto(step)
    BY <1>1, <1>6 DEF Ensure, Proceed, Conclude, RequestRecord, Places
  <2>2. live' = "none" => \/ req' = Free
                          \/ \E step \in Places : Goto(step) /\ step \notin {"show", "recheck"}
    BY <1>1, <1>6 DEF Ensure, Proceed, Conclude, RequestRecord, Places, session
  <2>3. QED
    BY <1>2, <1>3, <2>1, <2>2
<1>7. CASE Look
  <2>1. CASE req' = Free
    BY <1>2, <2>1
  <2>2. CASE Goto("recheck") /\ UNCHANGED live
    BY <1>1, <1>3, <1>7, <2>2 DEF Look, At, Places
  <2>3. CASE Goto("write") \/ Goto("await")
    BY <1>3, <2>3 DEF Places
  <2>4. QED
    BY <1>7, <2>1, <2>2, <2>3 DEF Look
<1>8. CASE Recheck \/ Dial \/ AwaitItem
  <2>1. req' = Free \/ Goto("write") \/ Goto("dial")
    BY <1>8 DEF Recheck, Dial, AwaitItem
  <2>2. QED
    BY <1>2, <1>3, <2>1 DEF Places
<1>9. CASE Find \/ RemoteLogout \/ Disconnect \/ Wipe \/ Unbind \/ Mark \/ Drop
  <2>1. \/ req' = Free
        \/ \E step \in {"hangup", "ensure", "write", "disconnect", "wipe", "unbind", "mark", "drop"} : Goto(step)
    BY <1>9 DEF Find, RemoteLogout, Disconnect, Wipe, Unbind, Mark, Drop, Conclude
  <2>2. QED
    BY <1>2, <1>3, <2>1 DEF Places
<1>10. ASSUME NEW kind \in Kinds, Handle(kind) PROVE Held'
  <2>1. Snapshot(kind) \in Statuses
    BY DEF Snapshot, Kinds, Statuses
  <2>2. QED
    BY <1>4, <1>5, <1>10, <2>1 DEF Handle, Announce
<1>11. CASE Correct
  BY <1>4, <1>5, <1>11 DEF Correct, Announce, Probing, IInv, Typed
<1>12. CASE \E i \in 1..Len(writes) : Land(i)
  BY <1>2, <1>4, <1>12 DEF Land, session
<1>13. CASE \E op \in {"pair", "send", "logout"} : Begin(op)
  <2>1. \E op \in {"pair", "send", "logout"}, at \in {"find", "ensure"} : req' = [op |-> op, at |-> at]
    BY <1>13 DEF Begin
  <2>2. QED
    BY <2>1 DEF Held, RequestRecord, Places
<1>14. CASE UNCHANGED <<live, req>>
  BY <1>4, <1>14
<1>15. CASE Authenticate \/ ScanCode \/ CodeExpires \/ Lose \/ Evict
  BY <1>14, <1>15 DEF Authenticate, ScanCode, CodeExpires, Lose, Evict, Network
<1>16. CASE Receive \/ Load \/ TimeOut \/ GetSessionState \/ LoadDeviceBinding \/ Compare \/ UNCHANGED vars
  BY <1>14, <1>16 DEF Receive, Load, TimeOut, GetSessionState, LoadDeviceBinding, Compare, Probing, session, vars
<1>17. QED
  BY <1>6, <1>7, <1>8, <1>9, <1>10, <1>11, <1>12, <1>13, <1>15, <1>16 DEF Next, RequestStep, Probe

LEMMA StepIInv ==
  ASSUME IInv, [Next]_vars
  PROVE  IInv'
<1>1. CASE \E i \in 1..Len(writes) : Land(i)
  <2>1. live' = live
    BY <1>1 DEF Land, session
  <2>2. QED
    BY <1>1, <2>1, Landed, ProbeTyped, SessionHeld DEF IInv, Typed
<1>2. CASE \E op \in {"pair", "send", "logout"} : Begin(op)
  BY <1>2, Stays, ProbeTyped, SessionHeld DEF Begin, session, Free, Starting, IInv, Typed
<1>3. CASE RequestStep
  BY <1>3, EnsureFits, LookFits, RecheckFits, DialFits, OtherRequestsFit, ProbeTyped, SessionHeld DEF RequestStep, IInv, Typed
<1>4. CASE Authenticate \/ ScanCode \/ CodeExpires \/ Lose \/ Evict
  BY <1>4, NetworkFits, ProbeTyped, SessionHeld DEF IInv, Typed
<1>5. CASE \E kind \in Kinds : Handle(kind)
  BY <1>5, HandleFits, ProbeTyped, SessionHeld DEF IInv, Typed
<1>6. CASE Receive \/ Load \/ TimeOut \/ Probe
  BY <1>6, ReceiveFits, ProbeFits, ProbeTyped, SessionHeld DEF IInv, Typed
<1>7. CASE UNCHANGED vars
  BY <1>7, Stays, ProbeTyped, SessionHeld DEF vars, Starting, IInv, Typed
<1>8. QED
  BY <1>1, <1>2, <1>3, <1>4, <1>5, <1>6, <1>7 DEF Next

(* When nothing is under way the row says what the snapshot of the session *)
(* says, in whatever order the goroutines of the events, the requests and  *)
(* the corrections of status reads have written it: for any number of      *)
(* events, requests and failures (handleSessionSnapshot, StartPairing).    *)
THEOREM RowCatchesUp == Spec => []RowFollowsSession
<1>1. IInv => RowFollowsSession
  BY DEF IInv, RowFits, Fits, RowFollowsSession, Quiet, Starting, Free
<1>2. QED
  BY <1>1, InitIInv, StepIInv, PTL DEF Spec
=============================================================================

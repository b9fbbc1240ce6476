---------------------------- MODULE AgentsProofs ----------------------------
(***************************************************************************)
(* Proofs about the agents.  AgentRuns: what the row of a run says is what *)
(* happened, and its text goes out once, except where a request was cut or *)
(* two of them had the run at the same time.  SystemAgents with the status *)
(* cards, and AgentRules: what administrators configure is what is used.   *)
(***************************************************************************)
EXTENDS MCAgents, FiniteSetTheorems, WellFoundedInduction, TLAPS

Steps == {"idle", "start", "prepare", "decide", "fail"}
Sender == [at : {"idle", "send", "note", "fail"}, run : Runs \cup {NoRun}]

\* A run is generated first and sent afterwards.
Generated == \A r \in Runs : gen[r] # "idle" => status[r] \in {"generating", "gone"}

SentAfterwards ==
    \A s \in Senders :
        snd[s].at # "idle" => /\ snd[s].run \in Runs
                              /\ gen[snd[s].run] = "idle"
                              /\ status[snd[s].run] \notin {"none", "generating"}

\* "sent" is noted only by a sender whose text was delivered.
NotedIsDelivered == \A s \in Senders : snd[s].at = "note" => delivered[snd[s].run] > 0
SentIsDelivered == \A r \in Runs : status[r] = "sent" => delivered[r] > 0

Undisturbed(r) == ~overlapped[r] /\ ~cut[r]
Handed(s, r) == Sends(s, r) /\ snd[s].at \in {"note", "fail"}

\* One sender at a time has a run that nothing disturbed.
OneSender ==
    \A r \in Runs : Undisturbed(r) =>
        /\ \A s, t \in Senders : Sends(s, r) /\ Sends(t, r) => s = t
        /\ status[r] \notin {"ready_for_review", "gone"} => \A s \in Senders : ~Sends(s, r)

\* What was delivered of it is known to its sender or to its row.
Accounted ==
    \A r \in Runs : Undisturbed(r) =>
        /\ delivered[r] <= 1
        /\ status[r] \in {"none", "generating", "blocked"} => delivered[r] = 0
        /\ status[r] = "failed" => delivered[r] = 0 \/ unanswered[r]
        /\ status[r] = "ready_for_review" => delivered[r] = 0 \/ \E s \in Senders : Handed(s, r)
        /\ \A s \in Senders : Sends(s, r) /\ snd[s].at = "send" => delivered[r] = 0
        /\ \A s \in Senders : Sends(s, r) /\ snd[s].at = "fail" => delivered[r] = 0 \/ unanswered[r]

Order == Generated /\ SentAfterwards
Truth == NotedIsDelivered /\ SentIsDelivered
IInv == /\ TypeOK /\ Order /\ Truth /\ OneSender /\ Accounted
        /\ GeneratingIsAlive /\ LinkedIsSent

-----------------------------------------------------------------------------
LEMMA IdleTyped == IdleSender \in Sender /\ IdleSender.at = "idle" /\ IdleSender.run = NoRun
BY DEF IdleSender, SenderAt, Sender

LEMMA InitIInv == Init => IInv
<1> SUFFICES ASSUME Init PROVE IInv
    OBVIOUS
<1>1. \A s \in Senders : snd[s].at = "idle"
  BY IdleTyped DEF Init
<1>2. TypeOK
  <2>1. snd \in [Senders -> Sender]
    BY IdleTyped DEF Init
  <2>2. /\ status \in [Runs -> Statuses] /\ gen \in [Runs -> Steps] /\ delivered \in [Runs -> Nat]
        /\ begun \in 0..MaxSends
    BY ConstantsAssumption DEF Init, Statuses, Steps, ConstantsAssumption
  <2>3. /\ linked \in [Runs -> BOOLEAN] /\ overlapped \in [Runs -> BOOLEAN]
        /\ cut \in [Runs -> BOOLEAN] /\ unanswered \in [Runs -> BOOLEAN]
    BY Zenon DEF Init
  <2>4. QED
    BY <2>1, <2>2, <2>3 DEF TypeOK, Sender, Steps
<1>3. Order /\ Truth /\ OneSender /\ Accounted
  BY <1>1 DEF Init, Order, Truth, Generated, SentAfterwards, NotedIsDelivered, SentIsDelivered,
              OneSender, Accounted, Sends
<1>4. GeneratingIsAlive /\ LinkedIsSent
  BY DEF Init, GeneratingIsAlive, LinkedIsSent
<1>5. QED
  BY <1>2, <1>3, <1>4 DEF IInv

-----------------------------------------------------------------------------
(* The outcome of a run is written or lost.                                *)

Outcomes(r, to) ==
    /\ \A q \in Runs : q # r => status'[q] = status[q] /\ linked'[q] = linked[q] /\ cut'[q] = cut[q]
    /\ \/ /\ Stored(r) /\ status'[r] = to /\ cut'[r] = cut[r]
          /\ linked'[r] => to = "sent"
       \/ cut'[r] /\ status'[r] = status[r] /\ linked'[r] = linked[r]

LEMMA WriteStep ==
  ASSUME TypeOK, NEW r \in Runs, NEW to \in Statuses, NEW link \in BOOLEAN,
         link => to = "sent", Update(r, to, link) \/ NoUpdate(r)
  PROVE  /\ status' \in [Runs -> Statuses] /\ linked' \in [Runs -> BOOLEAN] /\ cut' \in [Runs -> BOOLEAN]
         /\ Outcomes(r, to)
<1>1. CASE Update(r, to, link)
  BY <1>1 DEF Update, TypeOK, Outcomes
<1>2. CASE NoUpdate(r)
  <2>1. cut' \in [Runs -> BOOLEAN] /\ cut'[r] /\ \A q \in Runs : q # r => cut'[q] = cut[q]
    BY <1>2 DEF NoUpdate, TypeOK
  <2>2. QED
    BY <1>2, <2>1 DEF NoUpdate, TypeOK, Outcomes
<1>3. QED
  BY <1>1, <1>2
-----------------------------------------------------------------------------
(* One lemma per action of a request that generates a run.                 *)

\* Nothing but the request that generates r moves.
LEMMA GenerateMoves ==
  ASSUME IInv, NEW r \in Runs, NEW step \in Steps, gen[r] # "idle", gen' = [gen EXCEPT ![r] = step],
         UNCHANGED <<status, linked, snd, begun, delivered, overlapped, unanswered>>,
         cut' \in [Runs -> BOOLEAN],
         \A q \in Runs : cut[q] => cut'[q],
         step = "idle" => cut'[r]
  PROVE  IInv'
<1>1. gen' \in [Runs -> Steps] /\ gen'[r] = step /\ \A q \in Runs : q # r => gen'[q] = gen[q]
  BY DEF IInv, TypeOK, Steps
<1>2. TypeOK'
  BY <1>1 DEF IInv, TypeOK, Steps
<1>3. Order'
  BY <1>1 DEF IInv, Order, Generated, SentAfterwards
<1>4. Truth' /\ LinkedIsSent'
  BY DEF IInv, Truth, NotedIsDelivered, SentIsDelivered, LinkedIsSent
<1>5. GeneratingIsAlive'
  BY <1>1 DEF IInv, GeneratingIsAlive
<1>6. OneSender'
  BY DEF IInv, OneSender, Undisturbed, Sends
<1>7. Accounted'
  BY DEF IInv, Accounted, Undisturbed, Handed, Sends
<1>8. QED
  BY <1>2, <1>3, <1>4, <1>5, <1>6, <1>7 DEF IInv

LEMMA CreateKeeps ==
  ASSUME IInv, NEW r \in Runs, Create(r)
  PROVE  IInv'
<1>1. /\ status[r] = "none" /\ UNCHANGED <<linked, snd, begun, delivered, overlapped, cut, unanswered>>
      /\ status' = [status EXCEPT ![r] = "generating"]
  BY DEF Create, history
<1>2. PICK step \in {"start", "prepare"} : gen' = [gen EXCEPT ![r] = step]
  BY DEF Create
<1>3. /\ gen' \in [Runs -> Steps] /\ gen'[r] # "idle" /\ \A q \in Runs : q # r => gen'[q] = gen[q]
      /\ status' \in [Runs -> Statuses] /\ status'[r] = "generating"
      /\ \A q \in Runs : q # r => status'[q] = status[q]
  BY <1>1, <1>2 DEF IInv, TypeOK, Steps, Statuses
<1>4. \A s \in Senders : ~Sends(s, r)
  BY <1>1 DEF IInv, Order, SentAfterwards, Sends
<1>5. TypeOK'
  BY <1>1, <1>3 DEF IInv, TypeOK, Steps
<1>6. Order'
  BY <1>1, <1>3, <1>4 DEF IInv, Order, Generated, SentAfterwards, Sends
<1>7. Truth' /\ LinkedIsSent'
  BY <1>1, <1>3 DEF IInv, Truth, NotedIsDelivered, SentIsDelivered, LinkedIsSent
<1>8. GeneratingIsAlive'
  BY <1>1, <1>3 DEF IInv, GeneratingIsAlive
<1>9. OneSender'
  BY <1>1, <1>3, <1>4 DEF IInv, OneSender, Undisturbed, Sends
<1>10. Accounted'
  BY <1>1, <1>3, <1>4 DEF IInv, Accounted, Undisturbed, Handed, Sends
<1>11. QED
  BY <1>5, <1>6, <1>7, <1>8, <1>9, <1>10 DEF IInv

LEMMA OnStartKeeps ==
  ASSUME IInv, NEW r \in Runs, OnStart(r)
  PROVE  IInv'
<1>1. gen[r] = "start" /\ UNCHANGED <<status, linked, snd, begun, delivered, overlapped, unanswered>>
  BY DEF OnStart
<1>2. CASE gen' = [gen EXCEPT ![r] = "prepare"] /\ UNCHANGED cut
  BY <1>1, <1>2, GenerateMoves DEF IInv, TypeOK, Steps
<1>3. CASE gen' = [gen EXCEPT ![r] = "idle"] /\ cut' = [cut EXCEPT ![r] = TRUE]
  <2>1. cut' \in [Runs -> BOOLEAN] /\ cut'[r] /\ \A q \in Runs : cut[q] => cut'[q]
    BY <1>3 DEF IInv, TypeOK
  <2>2. QED
    BY <1>1, <1>3, <2>1, GenerateMoves DEF Steps
<1>4. QED
  BY <1>2, <1>3 DEF OnStart

LEMMA AskRunnerKeeps ==
  ASSUME IInv, NEW r \in Runs, AskRunner(r)
  PROVE  IInv'
<1>1. gen[r] = "prepare" /\ UNCHANGED <<status, linked, snd, begun, delivered, overlapped, cut, unanswered>>
  BY DEF AskRunner, history
<1>2. PICK step \in {"decide", "fail"} : gen' = [gen EXCEPT ![r] = step]
  BY DEF AskRunner
<1>3. cut' \in [Runs -> BOOLEAN] /\ (\A q \in Runs : cut[q] => cut'[q]) /\ step \in Steps /\ step # "idle"
  BY <1>1 DEF IInv, TypeOK, Steps
<1>4. QED
  BY <1>1, <1>2, <1>3, GenerateMoves

\* The request that generates r ends with its outcome, noted or lost.
LEMMA GenerateEnds ==
  ASSUME IInv, NEW r \in Runs, NEW to \in {"failed", "blocked", "ready_for_review"},
         gen[r] # "idle", gen' = [gen EXCEPT ![r] = "idle"],
         Update(r, to, FALSE) \/ NoUpdate(r),
         UNCHANGED <<snd, begun, delivered, overlapped, unanswered>>
  PROVE  IInv'
<1>1. /\ status' \in [Runs -> Statuses] /\ linked' \in [Runs -> BOOLEAN] /\ cut' \in [Runs -> BOOLEAN]
      /\ Outcomes(r, to)
  BY WriteStep DEF IInv, Statuses
<1>2. gen' \in [Runs -> Steps] /\ gen'[r] = "idle" /\ \A q \in Runs : q # r => gen'[q] = gen[q]
  BY DEF IInv, TypeOK, Steps
<1>3. \A s \in Senders : ~Sends(s, r)
  BY DEF IInv, Order, SentAfterwards, Sends
<1>4. status[r] \in {"generating", "gone"}
  BY DEF IInv, Order, Generated
<1>5. TypeOK'
  BY <1>1, <1>2 DEF IInv, TypeOK, Steps
<1>6. Order'
  BY <1>1, <1>2, <1>3 DEF IInv, Order, Generated, SentAfterwards, Sends, Outcomes
<1>7. Truth'
  BY <1>1, <1>4 DEF IInv, Truth, NotedIsDelivered, SentIsDelivered, Outcomes
<1>8. GeneratingIsAlive' /\ LinkedIsSent'
  BY <1>1, <1>2 DEF IInv, GeneratingIsAlive, LinkedIsSent, Outcomes
<1>9. OneSender'
  BY <1>1, <1>3 DEF IInv, OneSender, Undisturbed, Sends, Outcomes
<1>10. Accounted'
  <2>1. ~Undisturbed(r)' \/ (status[r] = "generating" /\ Undisturbed(r) /\ status'[r] = to)
    BY <1>1, <1>4 DEF Outcomes, Undisturbed, Stored
  <2>2. \A q \in Runs : q # r => Undisturbed(q)' = Undisturbed(q) /\ status'[q] = status[q]
    BY <1>1 DEF Outcomes, Undisturbed
  <2>3. QED
    BY <1>3, <2>1, <2>2 DEF IInv, Accounted, Handed, Sends
<1>11. QED
  BY <1>5, <1>6, <1>7, <1>8, <1>9, <1>10 DEF IInv

-----------------------------------------------------------------------------
(* One lemma per action of a request that sends.                           *)

LEMMA ReadRunKeeps ==
  ASSUME IInv, NEW s \in Senders, ReadRun(s)
  PROVE  IInv'
<1>1. PICK r \in Runs :
        /\ begun < MaxSends /\ snd[s] = IdleSender /\ status[r] = "ready_for_review"
        /\ snd' = [snd EXCEPT ![s] = SenderAt("send", r)] /\ begun' = begun + 1
        /\ overlapped' = [overlapped EXCEPT ![r] = @ \/ \E t \in Senders : Sends(t, r)]
        /\ UNCHANGED <<status, linked, gen, delivered, cut, unanswered>>
  BY DEF ReadRun, Sendable
<1>2. /\ snd' \in [Senders -> Sender] /\ snd'[s].at = "send" /\ snd'[s].run = r
      /\ \A t \in Senders : t # s => snd'[t] = snd[t]
  <2>1. SenderAt("send", r) \in Sender /\ SenderAt("send", r).at = "send" /\ SenderAt("send", r).run = r
    BY DEF Sender, SenderAt
  <2>2. QED
    BY <1>1, <2>1 DEF IInv, TypeOK, Sender
<1>3. snd[s].at = "idle"
  BY <1>1, IdleTyped
<1>4. /\ overlapped' \in [Runs -> BOOLEAN]
      /\ overlapped'[r] = (overlapped[r] \/ \E t \in Senders : Sends(t, r))
      /\ \A q \in Runs : q # r => overlapped'[q] = overlapped[q]
  BY <1>1, Zenon DEF IInv, TypeOK
<1>5. ~overlapped'[r] => ~overlapped[r] /\ \A t \in Senders : ~Sends(t, r)
  BY <1>4
<1>6. TypeOK'
  <2>1. begun' \in 0..MaxSends
    BY <1>1, ConstantsAssumption DEF IInv, TypeOK, ConstantsAssumption
  <2>2. QED
    BY <1>1, <1>2, <1>4, <2>1 DEF IInv, TypeOK, Sender
<1>7. gen[r] = "idle"
  BY <1>1 DEF IInv, Order, Generated
<1>8. Order'
  BY <1>1, <1>2, <1>7 DEF IInv, Order, Generated, SentAfterwards
<1>9. Truth' /\ GeneratingIsAlive' /\ LinkedIsSent'
  BY <1>1, <1>2 DEF IInv, Truth, NotedIsDelivered, SentIsDelivered, GeneratingIsAlive, LinkedIsSent
<1>10. \A t \in Senders, q \in Runs : Sends(t, q)' <=> (IF t = s THEN q = r ELSE Sends(t, q))
  BY <1>2 DEF Sends
<1>11. OneSender'
  BY <1>1, <1>3, <1>4, <1>5, <1>10 DEF IInv, OneSender, Undisturbed, Sends
<1>12. Accounted'
  BY <1>1, <1>2, <1>3, <1>4, <1>5, <1>10 DEF IInv, Accounted, Undisturbed, Handed, Sends
<1>13. QED
  BY <1>6, <1>8, <1>9, <1>11, <1>12 DEF IInv

LEMMA SendTextKeeps ==
  ASSUME IInv, NEW s \in Senders, SendText(s)
  PROVE  IInv'
<1> DEFINE r == snd[s].run
<1>1. /\ snd[s].at = "send" /\ r \in Runs
      /\ UNCHANGED <<status, linked, gen, begun, overlapped, cut>>
  BY DEF SendText, IInv, Order, SentAfterwards
<1>2. /\ snd' \in [Senders -> Sender] /\ snd'[s].run = r /\ snd'[s].at \in {"note", "fail"}
      /\ \A t \in Senders : t # s => snd'[t] = snd[t]
      /\ delivered' \in [Runs -> Nat] /\ unanswered' \in [Runs -> BOOLEAN]
      /\ \A q \in Runs : q # r => delivered'[q] = delivered[q] /\ unanswered'[q] = unanswered[q]
      /\ \/ delivered'[r] = delivered[r] + 1 /\ snd'[s].at = "note"
         \/ delivered'[r] = delivered[r] + 1 /\ unanswered'[r]
         \/ delivered'[r] = delivered[r] /\ unanswered'[r] = unanswered[r] /\ snd'[s].at = "fail"
  <2>1. \A step \in {"note", "fail"} :
          SenderAt(step, r) \in Sender /\ SenderAt(step, r).at = step /\ SenderAt(step, r).run = r
    BY <1>1 DEF Sender, SenderAt
  <2>2. /\ snd \in [Senders -> Sender] /\ delivered \in [Runs -> Nat] /\ unanswered \in [Runs -> BOOLEAN]
    BY DEF IInv, TypeOK, Sender
  <2>3. CASE /\ snd' = [snd EXCEPT ![s] = SenderAt("note", r)]
             /\ delivered' = [delivered EXCEPT ![r] = @ + 1] /\ UNCHANGED unanswered
    BY <1>1, <2>1, <2>2, <2>3
  <2>4. CASE /\ snd' = [snd EXCEPT ![s] = SenderAt("fail", r)]
             /\ delivered' = [delivered EXCEPT ![r] = @ + 1]
             /\ unanswered' = [unanswered EXCEPT ![r] = TRUE]
    <3>1. /\ unanswered' \in [Runs -> BOOLEAN] /\ unanswered'[r]
          /\ \A q \in Runs : q # r => unanswered'[q] = unanswered[q]
      BY <1>1, <2>2, <2>4
    <3>2. /\ snd' \in [Senders -> Sender] /\ snd'[s].run = r /\ snd'[s].at = "fail"
          /\ \A t \in Senders : t # s => snd'[t] = snd[t]
      BY <1>1, <2>1, <2>2, <2>4
    <3>3. /\ delivered' \in [Runs -> Nat] /\ delivered'[r] = delivered[r] + 1
          /\ \A q \in Runs : q # r => delivered'[q] = delivered[q]
      BY <1>1, <2>2, <2>4
    <3>4. QED
      BY <3>1, <3>2, <3>3
  <2>5. CASE snd' = [snd EXCEPT ![s] = SenderAt("fail", r)] /\ UNCHANGED <<delivered, unanswered>>
    BY <1>1, <2>1, <2>2, <2>5
  <2>6. QED
    BY <2>3, <2>4, <2>5 DEF SendText
<1>3. TypeOK'
  BY <1>1, <1>2 DEF IInv, TypeOK, Sender
<1>4. Order'
  BY <1>1, <1>2 DEF IInv, Order, Generated, SentAfterwards
<1>5. \A q \in Runs : delivered'[q] >= delivered[q]
  BY <1>1, <1>2 DEF IInv, TypeOK
<1>6. Truth'
  BY <1>1, <1>2, <1>5 DEF IInv, TypeOK, Truth, NotedIsDelivered, SentIsDelivered, SentAfterwards, Order
<1>7. GeneratingIsAlive' /\ LinkedIsSent'
  BY <1>1 DEF IInv, GeneratingIsAlive, LinkedIsSent
<1>8. \A t \in Senders, q \in Runs : Sends(t, q)' <=> Sends(t, q)
  BY <1>1, <1>2 DEF Sends
<1>9. OneSender'
  BY <1>1, <1>8 DEF IInv, OneSender, Undisturbed
<1>10. Accounted'
  <2> SUFFICES ASSUME NEW q \in Runs, Undisturbed(q)'
      PROVE /\ delivered'[q] <= 1
            /\ status'[q] \in {"none", "generating", "blocked"} => delivered'[q] = 0
            /\ status'[q] = "failed" => delivered'[q] = 0 \/ unanswered'[q]
            /\ status'[q] = "ready_for_review" => delivered'[q] = 0 \/ \E t \in Senders : Handed(t, q)'
            /\ \A t \in Senders : Sends(t, q)' /\ snd'[t].at = "send" => delivered'[q] = 0
            /\ \A t \in Senders : Sends(t, q)' /\ snd'[t].at = "fail" => delivered'[q] = 0 \/ unanswered'[q]
    BY DEF Accounted
  <2>1. Undisturbed(q)
    BY <1>1 DEF Undisturbed
  <2>2. CASE q # r
    BY <1>1, <1>2, <1>8, <2>1, <2>2 DEF IInv, Accounted, Handed, Sends
  <2>3. CASE q = r
    <3>1. Sends(s, r) /\ Handed(s, r)' /\ delivered[r] = 0
      BY <1>1, <1>2, <1>8, <2>1, <2>3 DEF IInv, Accounted, Sends, Handed
    <3>2. \A t \in Senders : Sends(t, q) => t = s
      BY <2>1, <2>3, <3>1 DEF IInv, OneSender
    <3>3. status[q] \in {"ready_for_review", "gone"}
      BY <2>1, <2>3, <3>1 DEF IInv, OneSender
    <3>4. QED
      BY <1>1, <1>2, <1>8, <2>3, <3>1, <3>2, <3>3
  <2>4. QED
    BY <2>2, <2>3
<1>11. QED
  BY <1>3, <1>4, <1>6, <1>7, <1>9, <1>10 DEF IInv

\* A sender ends with its outcome, noted or lost.
LEMMA NoteKeeps ==
  ASSUME IInv, NEW s \in Senders, NEW to \in {"sent", "failed"}, NEW link \in BOOLEAN,
         snd[s].at = IF to = "sent" THEN "note" ELSE "fail",
         link => to = "sent",
         Update(snd[s].run, to, link) \/ NoUpdate(snd[s].run),
         snd' = [snd EXCEPT ![s] = IdleSender],
         UNCHANGED <<gen, begun, delivered, overlapped, unanswered>>
  PROVE  IInv'
<1> DEFINE r == snd[s].run
<1>1. r \in Runs /\ snd[s].at # "idle" /\ gen[r] = "idle" /\ status[r] \notin {"none", "generating"}
  BY DEF IInv, Order, SentAfterwards
<1>2. /\ status' \in [Runs -> Statuses] /\ linked' \in [Runs -> BOOLEAN] /\ cut' \in [Runs -> BOOLEAN]
      /\ Outcomes(r, to)
  BY <1>1, WriteStep DEF IInv, Statuses
<1>3. /\ snd' \in [Senders -> Sender] /\ snd'[s].at = "idle"
      /\ \A t \in Senders : t # s => snd'[t] = snd[t]
  BY IdleTyped DEF IInv, TypeOK, Sender
<1>4. TypeOK'
  BY <1>2, <1>3 DEF IInv, TypeOK, Sender
<1>5. Order'
  BY <1>1, <1>2, <1>3 DEF IInv, Order, Generated, SentAfterwards, Outcomes
<1>6. Truth'
  BY <1>1, <1>2, <1>3 DEF IInv, Truth, NotedIsDelivered, SentIsDelivered, Outcomes
<1>7. GeneratingIsAlive' /\ LinkedIsSent'
  BY <1>1, <1>2 DEF IInv, GeneratingIsAlive, LinkedIsSent, Outcomes
<1>8. \A t \in Senders, q \in Runs : Sends(t, q)' <=> t # s /\ Sends(t, q)
  BY <1>3 DEF Sends
<1>9. \A q \in Runs : Undisturbed(q)' => Undisturbed(q) /\ status'[q] = IF q = r THEN to ELSE status[q]
  BY <1>1, <1>2 DEF Undisturbed, Outcomes
<1>10. Undisturbed(r) => \A t \in Senders : Sends(t, r) => t = s
  BY <1>1 DEF IInv, OneSender, Sends
<1>11. OneSender'
  BY <1>8, <1>9, <1>10 DEF IInv, OneSender
<1>12. Undisturbed(r) /\ to = "failed" => delivered[r] = 0 \/ unanswered[r]
  BY <1>1 DEF IInv, Accounted, Sends
<1>13. Accounted'
  <2> SUFFICES ASSUME NEW q \in Runs, Undisturbed(q)'
      PROVE /\ delivered'[q] <= 1
            /\ status'[q] \in {"none", "generating", "blocked"} => delivered'[q] = 0
            /\ status'[q] = "failed" => delivered'[q] = 0 \/ unanswered'[q]
            /\ status'[q] = "ready_for_review" => delivered'[q] = 0 \/ \E t \in Senders : Handed(t, q)'
            /\ \A t \in Senders : Sends(t, q)' /\ snd'[t].at = "send" => delivered'[q] = 0
            /\ \A t \in Senders : Sends(t, q)' /\ snd'[t].at = "fail" => delivered'[q] = 0 \/ unanswered'[q]
    BY DEF Accounted
  <2>1. Undisturbed(q) /\ delivered'[q] = delivered[q] /\ unanswered'[q] = unanswered[q]
    BY <1>9
  <2>2. CASE q # r
    <3>1. \A t \in Senders : Sends(t, q) => t # s /\ snd'[t] = snd[t] /\ Sends(t, q)'
      BY <1>3, <1>8, <2>2 DEF Sends
    <3>2. \A t \in Senders : Sends(t, q)' => Sends(t, q) /\ snd'[t] = snd[t]
      BY <1>3, <1>8
    <3>3. \A t \in Senders : Handed(t, q) => Handed(t, q)'
      BY <3>1 DEF Handed
    <3>4. QED
      BY <1>9, <2>1, <2>2, <3>2, <3>3 DEF IInv, Accounted
  <2>3. CASE q = r
    <3>1. \A t \in Senders : ~Sends(t, q)'
      BY <1>8, <1>10, <2>1, <2>3
    <3>2. delivered[q] <= 1
      BY <2>1 DEF IInv, Accounted
    <3>3. QED
      BY <1>9, <1>12, <2>1, <2>3, <3>1, <3>2
  <2>4. QED
    BY <2>2, <2>3
<1>14. QED
  BY <1>4, <1>5, <1>6, <1>7, <1>11, <1>13 DEF IInv

-----------------------------------------------------------------------------
LEMMA DeleteKeeps ==
  ASSUME IInv, NEW r \in Runs, Delete(r)
  PROVE  IInv'
<1>1. UNCHANGED <<gen, snd, begun, delivered, overlapped, cut, unanswered>>
  BY DEF Delete, history
<1>2. /\ status' \in [Runs -> Statuses] /\ status'[r] = "gone"
      /\ linked' \in [Runs -> BOOLEAN] /\ linked'[r] = FALSE
      /\ \A q \in Runs : q # r => status'[q] = status[q] /\ linked'[q] = linked[q]
  BY DEF Delete, IInv, TypeOK, Statuses
<1>3. TypeOK'
  BY <1>1, <1>2 DEF IInv, TypeOK
<1>4. Order' /\ Truth'
  BY <1>1, <1>2 DEF IInv, Order, Generated, SentAfterwards, Truth, NotedIsDelivered, SentIsDelivered
<1>5. GeneratingIsAlive' /\ LinkedIsSent'
  BY <1>1, <1>2 DEF IInv, GeneratingIsAlive, LinkedIsSent
<1>6. OneSender'
  BY <1>1, <1>2 DEF IInv, OneSender, Undisturbed, Sends
<1>7. Accounted'
  BY <1>1, <1>2 DEF IInv, Accounted, Undisturbed, Handed, Sends
<1>8. QED
  BY <1>3, <1>4, <1>5, <1>6, <1>7 DEF IInv

LEMMA StopKeeps ==
  ASSUME IInv, Stop
  PROVE  IInv'
<1>1. /\ UNCHANGED <<status, linked, begun, delivered, overlapped, unanswered>>
      /\ gen' = [r \in Runs |-> "idle"] /\ snd' = [s \in Senders |-> IdleSender]
      /\ cut' = [r \in Runs |-> cut[r] \/ gen[r] # "idle" \/ \E s \in Senders : Sends(s, r)]
  BY DEF Stop
<1>2. cut' \in [Runs -> BOOLEAN]
  <2>1. \A r \in Runs : (cut[r] \/ gen[r] # "idle" \/ \E s \in Senders : Sends(s, r)) \in BOOLEAN
    OBVIOUS
  <2>2. QED
    BY <1>1, <2>1, Zenon
<1>3. \A r \in Runs : ~cut'[r] => ~cut[r] /\ gen[r] = "idle" /\ \A s \in Senders : ~Sends(s, r)
  BY <1>1
<1>4. gen' \in [Runs -> Steps] /\ \A r \in Runs : gen'[r] = "idle"
  BY <1>1 DEF Steps
<1>5. snd' \in [Senders -> Sender] /\ \A s \in Senders : snd'[s].at = "idle"
  BY <1>1, IdleTyped
<1>6. TypeOK'
  BY <1>1, <1>2, <1>4, <1>5 DEF IInv, TypeOK, Steps, Sender
<1>7. Order' /\ Truth'
  BY <1>1, <1>4, <1>5 DEF IInv, Order, Generated, SentAfterwards, Truth, NotedIsDelivered, SentIsDelivered
<1>8. GeneratingIsAlive' /\ LinkedIsSent'
  BY <1>1, <1>3 DEF IInv, GeneratingIsAlive, LinkedIsSent
<1>9. \A s \in Senders, r \in Runs : ~Sends(s, r)'
  BY <1>5 DEF Sends
<1>10. OneSender'
  BY <1>9 DEF OneSender
<1>11. Accounted'
  BY <1>1, <1>3, <1>9 DEF IInv, Accounted, Undisturbed, Handed
<1>12. QED
  BY <1>6, <1>7, <1>8, <1>10, <1>11 DEF IInv

LEMMA StutterKeeps ==
  ASSUME IInv, UNCHANGED vars
  PROVE  IInv'
<1>1. UNCHANGED <<status, linked, gen, snd, begun, delivered, overlapped, cut, unanswered>>
  BY DEF vars
<1>2. (TypeOK /\ Order /\ Truth /\ GeneratingIsAlive /\ LinkedIsSent)'
  BY <1>1 DEF IInv, TypeOK, Order, Generated, SentAfterwards, Truth, NotedIsDelivered, SentIsDelivered,
              GeneratingIsAlive, LinkedIsSent
<1>3. (OneSender /\ Accounted)'
  BY <1>1 DEF IInv, OneSender, Accounted, Undisturbed, Handed, Sends
<1>4. QED
  BY <1>2, <1>3 DEF IInv

LEMMA StepIInv == IInv /\ [Next]_vars => IInv'
<1> SUFFICES ASSUME IInv, [Next]_vars PROVE IInv'
    OBVIOUS
<1>1. ASSUME NEW r \in Runs, Generate(r) PROVE IInv'
  <2>1. CASE ApplyRunnerDecision(r)
    <3>1. PICK to \in Decisions : Update(r, to, FALSE) \/ NoUpdate(r)
      BY <2>1 DEF ApplyRunnerDecision, Decisions
    <3>2. QED
      BY <2>1, <3>1, GenerateEnds DEF ApplyRunnerDecision, Decisions
  <2>2. CASE FailRun(r)
    BY <2>2, GenerateEnds DEF FailRun
  <2>3. QED
    BY <1>1, <2>1, <2>2, OnStartKeeps, AskRunnerKeeps DEF Generate
<1>2. ASSUME NEW s \in Senders, Send(s) PROVE IInv'
  <2>1. CASE NoteSent(s)
    <3>1. PICK found \in BOOLEAN : Update(snd[s].run, "sent", found) \/ NoUpdate(snd[s].run)
      BY <2>1 DEF NoteSent
    <3>2. QED
      BY <2>1, <3>1, NoteKeeps DEF NoteSent
  <2>2. CASE NoteFailed(s)
    BY <2>2, NoteKeeps DEF NoteFailed
  <2>3. QED
    BY <1>2, <2>1, <2>2, SendTextKeeps DEF Send
<1>3. QED
  BY <1>1, <1>2, CreateKeeps, DeleteKeeps, ReadRunKeeps, StopKeeps, StutterKeeps DEF Next

-----------------------------------------------------------------------------
LEMMA Always == Spec => []IInv
BY InitIInv, StepIInv, PTL DEF Spec

(* The requests on agent_runs keep to the statuses of the table.           *)
THEOREM TypeCorrect == Spec => []TypeOK
<1>1. IInv => TypeOK
  BY DEF IInv
<1>2. QED
  BY <1>1, Always, PTL

(* A run is left in "generating" without a request that generates it only  *)
(* where the statement that ends it was lost (GenerateRun, failRun).       *)
THEOREM NoneIsStuck == Spec => []GeneratingIsAlive
<1>1. IInv => GeneratingIsAlive
  BY DEF IInv
<1>2. QED
  BY <1>1, Always, PTL

(* SendRun sends the text of a run at most once unless two requests had    *)
(* the run at the same time or one was cut before it noted the outcome.    *)
THEOREM SendsOnce == Spec => []SentOnce
<1>1. IInv => SentOnce
  BY DEF IInv, Accounted, SentOnce, Undisturbed
<1>2. QED
  BY <1>1, Always, PTL

(* UpdateRunStatus: the status of a run says what happened to its text.    *)
THEOREM StatusTellsTheTruth == Spec => []StatusIsTrue
<1>1. IInv => StatusIsTrue
  BY DEF IInv, Truth, SentIsDelivered, Accounted, StatusIsTrue, Undisturbed
<1>2. QED
  BY <1>1, Always, PTL

(* Only a run that was sent points at a message.                           *)
THEOREM LinksAreSent == Spec => []LinkedIsSent
<1>1. IInv => LinkedIsSent
  BY DEF IInv
<1>2. QED
  BY <1>1, Always, PTL

-----------------------------------------------------------------------------
(* System agents, status cards and rules.                                  *)

UsesType == [at : {"idle", "read", "runner", "store"}, purpose : Purposes \cup {"none"},
             agent : Agents \cup {NoAgent}, limit : 0..MaxHistory,
             basis : SUBSET (1..MaxMessages), since : 0..MaxMessages]

\* A request that disables the others knows its agent and its purpose.
AdminKnows ==
    \A q \in Admins :
        /\ adminReq[q].at = "others" =>
              adminReq[q].agent \in Agents /\ adminReq[q].purpose \in Purposes /\ SingleActive(adminReq[q].purpose)

\* The agent that was enabled undisturbed is the only one of its purpose.
ActiveIsAlone == \A p \in Purposes : active[p] # NoAgent => EnabledConfigs(p) = {active[p]}

ConfigIInv == ConfigTypeOK /\ AdminKnows /\ OneActive /\ ActiveIsAlone

configTable == <<config, adminReq, configAsks, broken, active>>
useTable == <<use, uses, messages, card>>

-----------------------------------------------------------------------------
LEMMA ConfigInitIInv == ConfigInit => ConfigIInv
<1> SUFFICES ASSUME ConfigInit PROVE ConfigIInv
  OBVIOUS
<1>1. /\ config \in [Agents -> Configs \cup {NoConfig}]
      /\ adminReq \in [Admins -> [at : {"idle", "others"}, agent : Agents \cup {NoAgent}, purpose : Purposes \cup {"none"}]]
      /\ broken \subseteq Purposes
      /\ active \in [Purposes -> Agents \cup {NoAgent}]
  BY DEF ConfigInit, IdleAdmin, AdminAsk
<1>2. configAsks \in 0..MaxConfigAsks /\ uses \in 0..MaxUses
  BY AgentConstants DEF ConfigInit, AgentConstants
<1>3. IdleUse \in UsesType
  BY AgentConstants DEF IdleUse, Using, UsesType, AgentConstants
<1>4. use \in [Users -> UsesType]
  BY <1>3 DEF ConfigInit
<1>5. messages \in 0..MaxMessages /\ card \subseteq 1..MaxMessages
  BY AgentConstants DEF ConfigInit, AgentConstants
<1>6. AdminKnows /\ ActiveIsAlone /\ \A p \in Purposes : EnabledConfigs(p) = {}
  BY DEF ConfigInit, AdminKnows, ActiveIsAlone, EnabledConfigs, Has, IdleAdmin, AdminAsk
<1>7. OneActive
  BY <1>6 DEF OneActive
<1>8. QED
  BY <1>1, <1>2, <1>4, <1>5, <1>6, <1>7 DEF ConfigIInv, ConfigTypeOK, UsesType

-----------------------------------------------------------------------------
\* Storing or deleting one agent.
LEMMA StoreFacts ==
  ASSUME ConfigTypeOK, NEW a \in Agents, NEW c \in Configs \cup {NoConfig}, StoreConfig(a, c)
  PROVE  /\ config' \in [Agents -> Configs \cup {NoConfig}]
         /\ \A p \in Purposes : p \notin Touched(a, c) => EnabledConfigs(p)' = EnabledConfigs(p)
         /\ \A p \in Purposes : ~(c # NoConfig /\ c.purpose = p /\ c.enabled)
              => EnabledConfigs(p)' \subseteq EnabledConfigs(p)
<1>1. config' \in [Agents -> Configs \cup {NoConfig}] /\ config'[a] = c
      /\ \A b \in Agents : b # a => config'[b] = config[b]
  BY DEF ConfigTypeOK, StoreConfig
<1>2. ASSUME NEW p \in Purposes, p \notin Touched(a, c) PROVE EnabledConfigs(p)' = EnabledConfigs(p)
  BY <1>1, <1>2 DEF EnabledConfigs, Has, Touched
<1>3. ASSUME NEW p \in Purposes, ~(c # NoConfig /\ c.purpose = p /\ c.enabled)
      PROVE  EnabledConfigs(p)' \subseteq EnabledConfigs(p)
  BY <1>1, <1>3 DEF EnabledConfigs, Has
<1>4. QED
  BY <1>1, <1>2, <1>3

LEMMA UpsertKept ==
  ASSUME ConfigIInv, NEW q \in Admins, NEW a \in Agents, NEW c \in Configs, UpsertSystemConfig(q, a, c)
  PROVE  ConfigIInv'
<1> USE DEF ConfigIInv
<1> DEFINE next == IF NeedsOthers(a, c) THEN AdminAsk("others", a, c.purpose) ELSE IdleAdmin
<1>1. /\ StoreConfig(a, c)
      /\ adminReq[q].at = "idle"
      /\ adminReq' = [adminReq EXCEPT ![q] = next]
      /\ active' = [p \in Purposes |-> IF p \in Touched(a, c) THEN NoAgent ELSE active[p]]
      /\ UNCHANGED <<useTable, broken>>
  BY DEF UpsertSystemConfig, IdleAdmin, AdminAsk, useTable
<1>2. c.purpose \in Purposes /\ c.enabled \in BOOLEAN
  BY DEF Configs
<1>3. /\ next \in [at : {"idle", "others"}, agent : Agents \cup {NoAgent}, purpose : Purposes \cup {"none"}]
      /\ next.at = "others" <=> NeedsOthers(a, c)
      /\ next.at = "others" => next.agent = a /\ next.purpose = c.purpose /\ SingleActive(c.purpose)
  BY <1>2 DEF IdleAdmin, AdminAsk, NeedsOthers
<1>4. /\ adminReq' \in [Admins -> [at : {"idle", "others"}, agent : Agents \cup {NoAgent}, purpose : Purposes \cup {"none"}]]
      /\ adminReq'[q] = next /\ \A o \in Admins : o # q => adminReq'[o] = adminReq[o]
  BY <1>1, <1>3 DEF ConfigTypeOK
<1>5. configAsks' \in 0..MaxConfigAsks
  BY AgentConstants DEF UpsertSystemConfig, ConfigTypeOK, AgentConstants
<1>6. active' \in [Purposes -> Agents \cup {NoAgent}]
  BY <1>1 DEF ConfigTypeOK
<1>7. ConfigTypeOK'
  BY <1>1, <1>4, <1>5, <1>6, StoreFacts DEF ConfigTypeOK, useTable
<1>8. AdminKnows'
  BY <1>2, <1>3, <1>4 DEF AdminKnows
<1>9. \A p \in Purposes : Disabling(p) => Disabling(p)'
  BY <1>1, <1>4 DEF Disabling
<1>10. NeedsOthers(a, c) => Disabling(c.purpose)'
  BY <1>3, <1>4 DEF Disabling
<1>11. OneActive'
  BY <1>1, <1>9, <1>10, StoreFacts DEF OneActive, NeedsOthers
<1>12. ActiveIsAlone'
  BY <1>1, StoreFacts DEF ActiveIsAlone
<1>13. QED
  BY <1>7, <1>8, <1>11, <1>12

LEMMA DeleteKept ==
  ASSUME ConfigIInv, NEW q \in Admins, NEW a \in Agents, DeleteSystemConfig(q, a)
  PROVE  ConfigIInv'
<1> USE DEF ConfigIInv
<1>1. /\ StoreConfig(a, NoConfig)
      /\ active' = [p \in Purposes |-> IF p \in Touched(a, NoConfig) THEN NoAgent ELSE active[p]]
      /\ UNCHANGED <<useTable, adminReq, broken>>
  BY DEF DeleteSystemConfig, useTable
<1>2. configAsks' \in 0..MaxConfigAsks
  BY AgentConstants DEF DeleteSystemConfig, ConfigTypeOK, AgentConstants
<1>3. active' \in [Purposes -> Agents \cup {NoAgent}]
  BY <1>1 DEF ConfigTypeOK
<1>4. ConfigTypeOK'
  BY <1>1, <1>2, <1>3, StoreFacts DEF ConfigTypeOK, useTable
<1>5. AdminKnows'
  BY <1>1 DEF AdminKnows
<1>6. OneActive'
  BY <1>1, StoreFacts DEF OneActive, Disabling
<1>7. ActiveIsAlone'
  BY <1>1, StoreFacts DEF ActiveIsAlone
<1>8. QED
  BY <1>4, <1>5, <1>6, <1>7

\* The second statement leaves the stored agent, or none, of its purpose.
LEMMA OthersKept ==
  ASSUME ConfigIInv, NEW q \in Admins, DisableOtherSystemConfigs(q)
  PROVE  ConfigIInv'
<1> USE DEF ConfigIInv
<1>0. PICK a \in Agents, p \in Purposes : a = adminReq[q].agent /\ p = adminReq[q].purpose
  BY DEF DisableOtherSystemConfigs, AdminKnows
<1>1. /\ a \in Agents /\ p \in Purposes /\ SingleActive(p)
      /\ config' = [b \in Agents |-> IF b \in Others(a, p) THEN [config[b] EXCEPT !.enabled = FALSE] ELSE config[b]]
      /\ adminReq' = [adminReq EXCEPT ![q] = IdleAdmin]
      /\ broken' = broken \ {p}
      /\ UNCHANGED <<useTable, configAsks>>
      /\ active' = [active EXCEPT ![p] =
            IF a \in EnabledConfigs(p) /\ \A o \in Admins \ {q} : adminReq[o].purpose # p THEN a ELSE NoAgent]
  BY <1>0 DEF DisableOtherSystemConfigs, AdminKnows, useTable
<1>2. \A b \in Others(a, p) : b \in Agents /\ config[b] \in Configs /\ config[b].purpose = p /\ b # a
  BY <1>1 DEF Others, EnabledConfigs, Has, ConfigTypeOK
<1>3. \A b \in Others(a, p) : /\ config'[b] \in Configs /\ config'[b].purpose = p
                             /\ config'[b].enabled = FALSE
  BY <1>1, <1>2 DEF Configs
<1>4. \A b \in Agents : b \notin Others(a, p) => config'[b] = config[b]
  BY <1>1
<1>5. config' \in [Agents -> Configs \cup {NoConfig}]
  BY <1>1, <1>2, <1>3, <1>4 DEF ConfigTypeOK
<1>6. EnabledConfigs(p)' = EnabledConfigs(p) \cap {a}
  BY <1>3, <1>4 DEF EnabledConfigs, Has, Others
<1>7. \A r \in Purposes : r # p => EnabledConfigs(r)' = EnabledConfigs(r)
  BY <1>2, <1>3, <1>4 DEF EnabledConfigs, Has
<1>8. IdleAdmin \in [at : {"idle", "others"}, agent : Agents \cup {NoAgent}, purpose : Purposes \cup {"none"}]
      /\ IdleAdmin.at = "idle"
  BY DEF IdleAdmin, AdminAsk
<1>9. /\ adminReq' \in [Admins -> [at : {"idle", "others"}, agent : Agents \cup {NoAgent}, purpose : Purposes \cup {"none"}]]
      /\ adminReq'[q] = IdleAdmin /\ \A o \in Admins : o # q => adminReq'[o] = adminReq[o]
  BY <1>1, <1>8 DEF ConfigTypeOK
<1>10. active' \in [Purposes -> Agents \cup {NoAgent}]
  BY <1>1 DEF ConfigTypeOK
<1>11. ConfigTypeOK'
  BY <1>1, <1>5, <1>9, <1>10 DEF ConfigTypeOK, useTable
<1>12. AdminKnows'
  BY <1>8, <1>9 DEF AdminKnows
<1>13. \A r \in Purposes : r # p /\ Disabling(r) => Disabling(r)'
  BY <1>0, <1>9 DEF Disabling
<1>14. OneActive'
  BY <1>1, <1>6, <1>7, <1>13 DEF OneActive
<1>15. ActiveIsAlone'
  <2>1. ASSUME NEW r \in Purposes, active'[r] # NoAgent, r # p PROVE EnabledConfigs(r)' = {active'[r]}
    BY <1>1, <1>7, <2>1 DEF ActiveIsAlone, ConfigTypeOK
  <2>2. ASSUME active'[p] # NoAgent PROVE EnabledConfigs(p)' = {active'[p]}
    BY <1>1, <1>6, <2>2 DEF ConfigTypeOK
  <2>3. QED
    BY <2>1, <2>2 DEF ActiveIsAlone
<1>16. QED
  BY <1>11, <1>12, <1>14, <1>15

LEMMA LeaveOthersKept ==
  ASSUME ConfigIInv, NEW q \in Admins, LeaveOthers(q)
  PROVE  ConfigIInv'
<1> USE DEF ConfigIInv
<1>1. /\ adminReq' = [adminReq EXCEPT ![q] = IdleAdmin]
      /\ broken' = broken \cup {adminReq[q].purpose} /\ adminReq[q].purpose \in Purposes
      /\ UNCHANGED <<useTable, config, configAsks, active>>
  BY DEF LeaveOthers, AdminKnows, useTable
<1>2. IdleAdmin \in [at : {"idle", "others"}, agent : Agents \cup {NoAgent}, purpose : Purposes \cup {"none"}]
      /\ IdleAdmin.at = "idle"
  BY DEF IdleAdmin, AdminAsk
<1>3. /\ adminReq' \in [Admins -> [at : {"idle", "others"}, agent : Agents \cup {NoAgent}, purpose : Purposes \cup {"none"}]]
      /\ adminReq'[q] = IdleAdmin /\ \A o \in Admins : o # q => adminReq'[o] = adminReq[o]
  BY <1>1, <1>2 DEF ConfigTypeOK
<1>4. ConfigTypeOK'
  BY <1>1, <1>3 DEF ConfigTypeOK, useTable
<1>5. AdminKnows'
  BY <1>2, <1>3 DEF AdminKnows
<1>6. \A r \in Purposes : r # adminReq[q].purpose /\ Disabling(r) => Disabling(r)'
  BY <1>3 DEF Disabling
<1>7. \A r \in Purposes : EnabledConfigs(r)' = EnabledConfigs(r)
  BY <1>1 DEF EnabledConfigs, Has
<1>8. OneActive'
  BY <1>1, <1>6, <1>7 DEF OneActive
<1>9. ActiveIsAlone'
  BY <1>1, <1>7 DEF ActiveIsAlone
<1>10. QED
  BY <1>4, <1>5, <1>8, <1>9

-----------------------------------------------------------------------------
(* The requests that use agents. *)

\* An analysis reads a chat that is as long as it was when it was asked for, or
\* gone; from then on it holds what the property asks of a card.
Careful(w) ==
    /\ w.at = "read" =>
         /\ w.purpose = "status_card" /\ w.limit \in 1..MaxHistory
         /\ messages = 0 \/ messages >= w.since
    /\ w.at \in {"runner", "store"} /\ w.purpose = "status_card" =>
         (\E i \in w.basis : i >= w.since) /\ Cardinality(w.basis) <= w.limit
    /\ w.at = "store" => w.purpose = "status_card"

UseIInv == ConfigIInv /\ \A u \in Users : Careful(use[u])

\* The newest messages of a chat: the newest is among them, and the limit holds.
LEMMA NewestMessages ==
  ASSUME NEW n \in Nat \ {0}, NEW limit \in Nat \ {0}, NEW S, S = {i \in 1..n : i > n - limit}
  PROVE  n \in S /\ Cardinality(S) <= limit
<1>1. n \in S /\ S \in SUBSET ((n - limit + 1)..n)
  OBVIOUS
<1>2. /\ IsFiniteSet((n - limit + 1)..n)
      /\ Cardinality((n - limit + 1)..n) = IF n - limit + 1 > n THEN 0 ELSE n - (n - limit + 1) + 1
  BY FS_Interval
<1>3. Cardinality(S) <= Cardinality((n - limit + 1)..n)
  BY <1>1, <1>2, FS_Subset
<1>4. IsFiniteSet(S)
  BY <1>1, <1>2, FS_Subset
<1>5. Cardinality(S) \in Nat
  BY <1>4, FS_CardinalityType
<1>6. QED
  BY <1>1, <1>2, <1>3, <1>5

\* What users do leaves the agents alone.
LEMMA TableKept ==
  ASSUME ConfigIInv, UNCHANGED configTable, use' \in [Users -> UsesType], uses' \in 0..MaxUses,
         messages' \in 0..MaxMessages, card' \subseteq 1..MaxMessages
  PROVE  ConfigIInv'
<1> USE DEF ConfigIInv, configTable
<1>1. ConfigTypeOK'
  BY DEF ConfigTypeOK, UsesType
<1>2. AdminKnows'
  BY DEF AdminKnows
<1>3. OneActive' /\ ActiveIsAlone'
  BY DEF OneActive, ActiveIsAlone, EnabledConfigs, Has, Disabling
<1>4. QED
  BY <1>1, <1>2, <1>3

\* One request moves.
LEMMA UseMoves ==
  ASSUME UseIInv, NEW u \in Users, NEW w \in UsesType, use' = [use EXCEPT ![u] = w], Careful(w),
         UNCHANGED <<configTable, messages>>, uses' \in 0..MaxUses, card' \subseteq 1..MaxMessages
  PROVE  UseIInv'
<1>1. use \in [Users -> UsesType] /\ messages \in 0..MaxMessages
  BY DEF UseIInv, ConfigIInv, ConfigTypeOK, UsesType
<1>2. use' \in [Users -> UsesType]
  BY <1>1
<1>3. ConfigIInv'
  BY <1>1, <1>2, TableKept DEF UseIInv
<1>4. \A v \in Users : use'[v] = IF v = u THEN w ELSE use[v]
  BY <1>1
<1>5. \A v \in Users : Careful(use[v])'
  BY <1>4 DEF Careful, UseIInv
<1>6. QED
  BY <1>3, <1>5 DEF UseIInv

LEMMA IdleUseFacts == IdleUse \in UsesType /\ Careful(IdleUse)
<1>1. IdleUse \in UsesType
  BY AgentConstants DEF IdleUse, Using, UsesType, AgentConstants
<1>2. QED
  BY <1>1 DEF IdleUse, Using, Careful

LEMMA BeginKept ==
  ASSUME UseIInv, NEW u \in Users, NEW a, NEW w \in UsesType, Careful(w), Begin(u, a, w)
  PROVE  UseIInv'
<1>1. use' = [use EXCEPT ![u] = w] /\ UNCHANGED <<configTable, messages, card>>
  BY DEF Begin, configTable
<1>2. uses' \in 0..MaxUses
  BY AgentConstants DEF Begin, UseIInv, ConfigIInv, ConfigTypeOK, AgentConstants
<1>3. card' \subseteq 1..MaxMessages
  BY <1>1 DEF UseIInv, ConfigIInv, ConfigTypeOK
<1>4. QED
  BY <1>1, <1>2, <1>3, UseMoves

\* Of agents by their numbers there is a first one.
LEMMA FirstByName ==
  ASSUME NEW T, T \subseteq Nat, T # {}
  PROVE  \E x \in T : \A y \in T : x <= y
<1> DEFINE R == OpToRel(<, Nat)
<1>1. IsWellFoundedOn(R, Nat)
  BY NatLessThanWellFounded, Zenon
<1>2. PICK x \in T : \A y \in T : ~ (<<y, x>> \in R)
  <2> HIDE DEF R
  <2>1. QED
    BY <1>1, WFMin
<1>3. ASSUME NEW y \in T, y < x PROVE FALSE
  BY <1>2, <1>3, Zenon DEF OpToRel
<1>4. QED
  BY <1>3

\* The agent that a request uses is an enabled one of the purpose.
LEMMA ResolvedIsEnabled ==
  ASSUME NEW p, NEW q \in Agents \cup {NoAgent}, ResolveSystemAgentConfig(q, p) # NoAgent
  PROVE  ResolveSystemAgentConfig(q, p) \in EnabledConfigs(p)
<1>1. CASE q = NoAgent
  <2>1. EnabledConfigs(p) # {} /\ EnabledConfigs(p) \subseteq Agents
    BY <1>1 DEF ResolveSystemAgentConfig, GetSystemConfig, EnabledConfigs
  <2>2. \E x \in EnabledConfigs(p) : \A y \in EnabledConfigs(p) : x <= y
    BY <2>1, AgentConstants, FirstByName DEF AgentConstants
  <2>3. GetSystemConfig(p) \in EnabledConfigs(p)
    BY <2>1, <2>2, Zenon DEF GetSystemConfig
  <2>4. QED
    BY <1>1, <2>3 DEF ResolveSystemAgentConfig
<1>2. CASE q # NoAgent
  BY <1>2 DEF ResolveSystemAgentConfig, EnabledConfigs, Has
<1>3. QED
  BY <1>1, <1>2

LEMMA EnabledFacts ==
  ASSUME ConfigTypeOK, NEW p, NEW a \in EnabledConfigs(p)
  PROVE  a \in Agents /\ p \in Purposes
BY DEF EnabledConfigs, Has, ConfigTypeOK, Configs

LEMMA ShortUseKept ==
  ASSUME UseIInv, NEW u \in Users, NEW p, p # "status_card", NEW q \in Agents \cup {NoAgent},
         Begin(u, ResolveSystemAgentConfig(q, p), Using("runner", p, NoAgent, 0, 0))
  PROVE  UseIInv'
<1> DEFINE w == Using("runner", p, NoAgent, 0, 0)
<1>1. ResolveSystemAgentConfig(q, p) # NoAgent
  BY DEF Begin
<1>2. p \in Purposes
  BY <1>1, ResolvedIsEnabled, EnabledFacts DEF UseIInv, ConfigIInv
<1>3. w \in UsesType
  BY <1>2, AgentConstants DEF Using, UsesType, AgentConstants
<1>4. Careful(w)
  BY DEF Using, Careful
<1>5. QED
  BY <1>3, <1>4, BeginKept

LEMMA AnalyzeKept ==
  ASSUME UseIInv, NEW u \in Users, NEW q \in Agents \cup {NoAgent}, NEW limit \in Limits,
         AnalyzeStatusCard(u, q, limit)
  PROVE  UseIInv'
<1> DEFINE a == ResolveSystemAgentConfig(q, "status_card")
           w == Using("read", "status_card", a, HistoryLimit(limit), messages)
<1>1. messages > 0 /\ Begin(u, a, w) /\ a # NoAgent
  BY DEF AnalyzeStatusCard, Begin
<1>2. a \in Agents /\ "status_card" \in Purposes
  BY <1>1, ResolvedIsEnabled, EnabledFacts DEF UseIInv, ConfigIInv
<1>3. HistoryLimit(limit) \in 1..MaxHistory
  BY AgentConstants DEF HistoryLimit, AgentConstants
<1>4. messages \in 0..MaxMessages
  BY DEF UseIInv, ConfigIInv, ConfigTypeOK
<1>5. w \in UsesType
  BY <1>2, <1>3, <1>4, AgentConstants DEF Using, UsesType, AgentConstants
<1>6. Careful(w)
  BY <1>3, <1>4 DEF Using, Careful
<1>7. QED
  BY <1>1, <1>5, <1>6, BeginKept

LEMMA EndUseKept ==
  ASSUME UseIInv, NEW u \in Users, use' = [use EXCEPT ![u] = IdleUse],
         UNCHANGED <<configTable, messages, uses>>, card' \subseteq 1..MaxMessages
  PROVE  UseIInv'
<1>1. uses' \in 0..MaxUses
  BY DEF UseIInv, ConfigIInv, ConfigTypeOK
<1>2. QED
  BY <1>1, IdleUseFacts, UseMoves

LEMMA ReadKept ==
  ASSUME UseIInv, NEW u \in Users, ReadMessages(u)
  PROVE  UseIInv'
<1> DEFINE w == [use[u] EXCEPT !.at = "runner", !.basis = ListMessages(use[u].limit)]
<1>1. /\ use[u].at = "read" /\ use[u] \in UsesType /\ Careful(use[u])
      /\ UNCHANGED <<configTable, messages, uses, card>>
      /\ use' = [use EXCEPT ![u] = IF messages = 0 THEN IdleUse ELSE w]
  BY DEF ReadMessages, configTable, UseIInv, ConfigIInv, ConfigTypeOK, UsesType
<1>2. messages \in 0..MaxMessages /\ card' \subseteq 1..MaxMessages /\ uses' \in 0..MaxUses
  BY <1>1 DEF UseIInv, ConfigIInv, ConfigTypeOK
<1>3. CASE messages = 0
  BY <1>1, <1>2, <1>3, EndUseKept
<1>4. CASE messages # 0
  <2>1. use[u].limit \in 1..MaxHistory /\ messages >= use[u].since /\ messages \in Nat \ {0}
    BY <1>1, <1>2, <1>4 DEF Careful
  <2>2. use[u].limit \in Nat \ {0}
    BY <2>1, AgentConstants DEF AgentConstants
  <2>3. /\ messages \in ListMessages(use[u].limit)
        /\ Cardinality(ListMessages(use[u].limit)) <= use[u].limit
    <3>1. \A n, l \in Nat \ {0} : \A S : S = {i \in 1..n : i > n - l} => n \in S /\ Cardinality(S) <= l
      BY NewestMessages
    <3>2. ListMessages(use[u].limit) = {i \in 1..messages : i > messages - use[u].limit}
      BY DEF ListMessages
    <3>3. QED
      BY <2>1, <2>2, <3>1, <3>2
  <2>4. ListMessages(use[u].limit) \subseteq 1..MaxMessages
    BY <1>2, AgentConstants DEF ListMessages, AgentConstants
  <2>5. w \in UsesType
    BY <1>1, <2>4 DEF UsesType
  <2>6. /\ w.at = "runner" /\ w.basis = ListMessages(use[u].limit)
        /\ w.limit = use[u].limit /\ w.since = use[u].since
    BY <1>1 DEF UsesType
  <2>7. Careful(w)
    BY <2>1, <2>3, <2>6 DEF Careful
  <2>8. QED
    BY <1>1, <1>2, <1>4, <2>5, <2>7, UseMoves
<1>5. QED
  BY <1>3, <1>4

LEMMA AskKept ==
  ASSUME UseIInv, NEW u \in Users, AskAgent(u)
  PROVE  UseIInv'
<1>1. /\ use[u].at = "runner" /\ use[u] \in UsesType /\ Careful(use[u])
      /\ UNCHANGED <<configTable, messages, uses, card>>
  BY DEF AskAgent, configTable, UseIInv, ConfigIInv, ConfigTypeOK, UsesType
<1>2. card' \subseteq 1..MaxMessages /\ uses' \in 0..MaxUses
  BY <1>1 DEF UseIInv, ConfigIInv, ConfigTypeOK
<1>3. CASE use[u].purpose = "status_card" /\ use' = [use EXCEPT ![u] = [use[u] EXCEPT !.at = "store"]]
  <2> DEFINE w == [use[u] EXCEPT !.at = "store"]
  <2>1. w \in UsesType /\ w.at = "store" /\ w.purpose = use[u].purpose
        /\ w.basis = use[u].basis /\ w.limit = use[u].limit /\ w.since = use[u].since
    BY <1>1 DEF UsesType
  <2>2. Careful(w)
    BY <1>1, <1>3, <2>1 DEF Careful
  <2>3. QED
    BY <1>1, <1>2, <1>3, <2>1, <2>2, UseMoves
<1>4. CASE use' = [use EXCEPT ![u] = IdleUse]
  BY <1>1, <1>2, <1>4, EndUseKept
<1>5. QED
  BY <1>3, <1>4 DEF AskAgent

LEMMA StoreCardKept ==
  ASSUME UseIInv, NEW u \in Users, UpsertStatusCard(u) \/ LeaveUse(u)
  PROVE  UseIInv'
<1>1. use' = [use EXCEPT ![u] = IdleUse] /\ UNCHANGED <<configTable, messages, uses>>
  BY DEF UpsertStatusCard, LeaveUse, configTable
<1>2. card' \subseteq 1..MaxMessages
  BY DEF UpsertStatusCard, LeaveUse, UseIInv, ConfigIInv, ConfigTypeOK
<1>3. QED
  BY <1>1, <1>2, EndUseKept

\* The chat grows or goes: an analysis that was asked for stays careful.
LEMMA ChatKept ==
  ASSUME UseIInv, Receive \/ DropChat
  PROVE  UseIInv'
<1>1. UNCHANGED <<configTable, use, uses>>
  BY DEF Receive, DropChat, configTable
<1>2. /\ messages \in 0..MaxMessages /\ messages' \in 0..MaxMessages
      /\ messages' = 0 \/ (messages > 0 /\ messages' = messages + 1)
  BY AgentConstants DEF Receive, DropChat, UseIInv, ConfigIInv, ConfigTypeOK, AgentConstants
<1>3. card' \subseteq 1..MaxMessages /\ use' \in [Users -> UsesType] /\ uses' \in 0..MaxUses
  BY DEF Receive, DropChat, UseIInv, ConfigIInv, ConfigTypeOK, UsesType
<1>4. ConfigIInv'
  BY <1>1, <1>2, <1>3, TableKept DEF UseIInv
<1>5. ASSUME NEW u \in Users PROVE Careful(use[u])'
  <2>1. use[u].since \in 0..MaxMessages /\ use'[u] = use[u] /\ Careful(use[u])
    BY <1>1 DEF UseIInv, ConfigIInv, ConfigTypeOK
  <2>2. messages = 0 \/ messages >= use[u].since => messages' = 0 \/ messages' >= use[u].since
    BY <1>2, <2>1
  <2>3. QED
    BY <2>1, <2>2 DEF Careful
<1>6. QED
  BY <1>4, <1>5 DEF UseIInv

LEMMA AdministerKept ==
  ASSUME UseIInv, NEW q \in Admins, Administer(q)
  PROVE  UseIInv'
<1>1. UNCHANGED useTable
  BY DEF Administer, DeleteSystemConfig, UpsertSystemConfig, DisableOtherSystemConfigs, LeaveOthers, useTable
<1>2. ConfigIInv'
  BY UpsertKept, DeleteKept, OthersKept, LeaveOthersKept DEF Administer, UseIInv
<1>3. \A u \in Users : Careful(use[u])'
  BY <1>1 DEF UseIInv, Careful, useTable
<1>4. QED
  BY <1>2, <1>3 DEF UseIInv

LEMMA UseInitIInv == ConfigInit => UseIInv
<1> SUFFICES ASSUME ConfigInit PROVE UseIInv
  OBVIOUS
<1>1. \A u \in Users : use[u] = IdleUse
  BY DEF ConfigInit
<1>2. QED
  BY <1>1, ConfigInitIInv, IdleUseFacts DEF UseIInv

LEMMA UseStepIInv ==
  ASSUME UseIInv, [ConfigNext]_configVars
  PROVE  UseIInv'
<1>1. ASSUME NEW u \in Users, UseAgent(u) PROVE UseIInv'
  <2>1. ASSUME NEW q \in Agents \cup {NoAgent}, TranslateText(u, q) PROVE UseIInv'
    BY <2>1, ShortUseKept DEF TranslateText
  <2>2. ASSUME NEW q \in Agents \cup {NoAgent}, ResolveManualRule(u, q) PROVE UseIInv'
    BY <2>2, ShortUseKept DEF ResolveManualRule
  <2>3. QED
    BY <1>1, <2>1, <2>2, AnalyzeKept, ReadKept, AskKept, StoreCardKept DEF UseAgent
<1>2. CASE UNCHANGED configVars
  BY <1>2 DEF configVars, UseIInv, ConfigIInv, ConfigTypeOK, AdminKnows, OneActive, ActiveIsAlone,
              EnabledConfigs, Has, Disabling, Careful
<1>3. QED
  BY <1>1, <1>2, AdministerKept, ChatKept DEF ConfigNext

-----------------------------------------------------------------------------
(* When the requests that enable agents are through, however many ran at   *)
(* once, at most one agent of a purpose is enabled, unless the last one to *)
(* disable the others failed (UpsertSystemConfig).                         *)
THEOREM OneIsActive == ConfigSpec => [](ConfigTypeOK /\ OneActive)
<1>1. UseIInv => ConfigTypeOK /\ OneActive
  BY DEF UseIInv, ConfigIInv
<1>2. QED
  BY <1>1, UseInitIInv, UseStepIInv, PTL DEF ConfigSpec

(* The agent that was enabled undisturbed is what users see and requests   *)
(* use (GetSystemConfig, ListAvailableSystemConfigs).                      *)
THEOREM ActiveIsUsed == ConfigSpec => []EnabledIsUsed
<1>1. UseIInv => EnabledIsUsed
  <2> SUFFICES ASSUME UseIInv, NEW p \in Purposes, active[p] # NoAgent
               PROVE  /\ ResolveSystemAgentConfig(NoAgent, p) = active[p]
                      /\ ListAvailableSystemConfigs(p) = {active[p]}
    BY DEF EnabledIsUsed
  <2>1. EnabledConfigs(p) = {active[p]} /\ active[p] \in Nat
    BY AgentConstants DEF UseIInv, ConfigIInv, ConfigTypeOK, ActiveIsAlone, AgentConstants
  <2>2. GetSystemConfig(p) = active[p]
    BY <2>1 DEF GetSystemConfig
  <2>3. QED
    BY <2>1, <2>2 DEF ResolveSystemAgentConfig, ListAvailableSystemConfigs
<1>2. QED
  BY <1>1, UseInitIInv, UseStepIInv, PTL DEF ConfigSpec

(* A card that replaces another knows the chat at least as it was when its *)
(* analysis was asked for (AnalyzeStatusCard).                             *)
THEOREM CardsKnowTheChat == ConfigSpec => CardsAreCurrent
<1> DEFINE Current == \A u \in Users : UpsertStatusCard(u) /\ card' # card
                        => /\ \E i \in card' : i >= use[u].since
                           /\ Cardinality(card') <= use[u].limit
<1>1. UseIInv => Current
  BY DEF UseIInv, Careful, UpsertStatusCard
<1>2. UseIInv /\ [ConfigNext]_configVars => [Current]_configVars
  BY <1>1
<1>3. QED
  BY <1>2, UseInitIInv, UseStepIInv, PTL DEF ConfigSpec, CardsAreCurrent

-----------------------------------------------------------------------------
(* The rules of accounts. *)

Limited(row) == row.mode = "auto_send" => row.replies > 0

\* A request knows its rule, brings a row that it may write, and has read the
\* mode of a row that nobody wrote since.
AskSound(q) ==
    LET ask == ruleReq[q] IN
    /\ ask.at \notin {"idle", "insert"} => ask.rule \in Rules /\ ruleRow[ask.rule] # Unborn
    /\ ask.at \in {"idle", "insert"} => ask.rule = NoRule
    /\ (ask.at = "insert" \/ (ask.op = "update" /\ ask.at \in {"load", "update"})) =>
         ask.in.row \in RuleRows /\ ask.in.row.primary \in ask.in.accounts /\ Limited(ask.in.row)
    /\ ask.at = "update" => ask.op = "update" /\
         ~(ask.saw # "auto_send" /\ ask.in.row.mode = "auto_send" /\ ask.in.row.enabled)
    /\ ask.at = "switch" /\ ask.fresh /\ HasRule(ask.rule) => ruleRow[ask.rule].mode = ask.saw

\* A request that is alone writes what was asked for last, and has written it
\* but for what it still has to do.
AloneSound(q) ==
    LET ask == ruleReq[q] IN
    ask.at \in {"clear", "bind"} /\ ask.alone =>
        /\ ask.in.accounts = asked[ask.rule]
        /\ \A o \in RuleRequests \ {q} : ~Writes(o, ask.rule)
        /\ ask.at = "bind" => ask.todo \subseteq asked[ask.rule]
        /\ ask.at = "bind" /\ HasRule(ask.rule) =>
             ruleAccounts[ask.rule] = (asked[ask.rule] \ ask.todo) \cap accountRows

\* A stored rule has its primary account, which is one that was asked for; what
\* is settled is served, and nobody is writing it.
RuleSound(r) ==
    /\ HasRule(r) => ruleRow[r].primary \in accountRows \cap asked[r] /\ Limited(ruleRow[r])
    /\ ~blind[r]
    /\ settled[r] => \A q \in RuleRequests : ~Writes(q, r)
    /\ settled[r] /\ HasRule(r) => ruleAccounts[r] = asked[r] \cap accountRows

RuleIInv ==
    /\ RuleTypeOK
    /\ \A q \in RuleRequests : AskSound(q) /\ AloneSound(q)
    /\ \A r \in Rules : RuleSound(r)

ruleTables == <<accountRows, ruleRow, ruleAccounts, ruleHistory>>

LEMMA RuleInitIInv == RuleInit => RuleIInv
<1> SUFFICES ASSUME RuleInit PROVE RuleIInv
  OBVIOUS
<1>1. /\ IdleRuleAsk \in RuleAsks /\ IdleRuleAsk.at = "idle" /\ IdleRuleAsk.rule = NoRule
  BY DEF IdleRuleAsk, RuleAsk, RuleAsks, NoInput, ToServe, ToWrite
<1>2. RuleTypeOK
  BY <1>1, RuleConstants DEF RuleInit, RuleTypeOK, RuleConstants
<1>3. \A q \in RuleRequests : AskSound(q) /\ AloneSound(q)
  BY <1>1 DEF RuleInit, AskSound, AloneSound
<1>4. \A r \in Rules : RuleSound(r)
  BY <1>1, RuleConstants DEF RuleInit, RuleSound, HasRule, Writes, RuleConstants
<1>5. QED
  BY <1>2, <1>3, <1>4 DEF RuleIInv

\* What a request writes of a rule is of its type.
LEMMA RowTyped ==
  ASSUME NEW row \in RuleRows, NEW was
  PROVE  /\ Switched(row, was) \in RuleRows
         /\ Switched(row, was).primary = row.primary /\ Switched(row, was).mode = row.mode
         /\ Switched(row, was).replies = row.replies
         /\ row.mode = "auto_send" /\ was # "auto_send" => ~Switched(row, was).enabled
<1> DEFINE on == row.enabled /\ ~(row.mode = "auto_send" /\ was # "auto_send")
<1>1. on \in BOOLEAN
  BY DEF RuleRows
<1>2. row.mode = "auto_send" /\ was # "auto_send" => ~on
  OBVIOUS
<1> HIDE DEF on
<1>3. /\ Row(row.primary, row.mode, on, row.replies) \in RuleRows
      /\ Row(row.primary, row.mode, on, row.replies).primary = row.primary
      /\ Row(row.primary, row.mode, on, row.replies).mode = row.mode
      /\ Row(row.primary, row.mode, on, row.replies).replies = row.replies
      /\ Row(row.primary, row.mode, on, row.replies).enabled = on
  BY <1>1 DEF Row, RuleRows
<1>4. Switched(row, was) = Row(row.primary, row.mode, on, row.replies)
  BY DEF Switched, on
<1>5. QED
  BY <1>2, <1>3, <1>4

LEMMA InputTyped ==
  ASSUME NEW in \in RuleInputs
  PROVE  /\ in \in [accounts : SUBSET Accounts, row : RuleRows \cup {NoRule}]
         /\ in.row \in RuleRows /\ in.row.primary \in in.accounts /\ Limited(in.row)
<1>1. PICK p \in Accounts, also \in SUBSET Accounts, mode \in Modes, enabled \in BOOLEAN, replies \in Replies :
          in = RuleInput(p, also, mode, enabled, replies)
  BY DEF RuleInputs
<1> DEFINE n == IF mode = "auto_send" /\ replies = 0 THEN 1 ELSE replies
<1>2. n \in Replies \cup {1} /\ (mode = "auto_send" => n > 0)
  BY RuleConstants DEF RuleConstants
<1> HIDE DEF n
<1>3. in = ToWrite({p} \cup also, Row(p, mode, enabled, n))
  BY <1>1 DEF RuleInput, n
<1>4. QED
  BY <1>2, <1>3 DEF ToWrite, Row, RuleRows, Limited

-----------------------------------------------------------------------------
\* A request that moves without writing a rule or its accounts.
LEMMA RuleMoves ==
  ASSUME RuleIInv, NEW q \in RuleRequests, NEW w \in RuleAsks, Proceed(q, w), UNCHANGED ruleTables,
         ruleAsks' \in 0..MaxRuleAsks, w.at \notin {"clear", "bind"}, AskSound(q)'
  PROVE  RuleIInv'
<1> USE DEF ruleTables, ruleHistory
<1>1. /\ ruleReq' \in [RuleRequests -> RuleAsks] /\ ruleReq'[q] = w
      /\ \A o \in RuleRequests \ {q} : ruleReq'[o] = ruleReq[o]
  BY DEF Proceed, RuleIInv, RuleTypeOK
<1>2. RuleTypeOK'
  BY <1>1 DEF RuleIInv, RuleTypeOK
<1>3. \A o \in RuleRequests, r \in Rules : Writes(o, r)' => Writes(o, r)
  BY <1>1 DEF Writes
<1>4. ASSUME NEW o \in RuleRequests \ {q} PROVE AskSound(o)' /\ AloneSound(o)'
  <2>1. ruleReq'[o] = ruleReq[o] /\ AskSound(o) /\ AloneSound(o)
    BY <1>1 DEF RuleIInv
  <2>2. AskSound(o)'
    BY <2>1 DEF AskSound, HasRule
  <2>3. ruleReq[o].at \in {"clear", "bind"} => ruleReq[o].rule \in Rules
    BY <2>1 DEF AskSound
  <2>4. AloneSound(o)'
    BY <1>3, <2>1, <2>3 DEF AloneSound, HasRule
  <2>5. QED
    BY <2>2, <2>4
<1>5. AloneSound(q)'
  BY <1>1 DEF AloneSound
<1>6. \A r \in Rules : RuleSound(r)'
  BY <1>3 DEF RuleIInv, RuleSound, HasRule
<1>7. QED
  BY <1>2, <1>4, <1>5, <1>6 DEF RuleIInv

LEMMA RuleEndKept ==
  ASSUME RuleIInv, NEW q \in RuleRequests, Proceed(q, IdleRuleAsk), UNCHANGED <<ruleTables, ruleAsks>>
  PROVE  RuleIInv'
<1>1. IdleRuleAsk \in RuleAsks /\ IdleRuleAsk.at = "idle" /\ IdleRuleAsk.rule = NoRule
  BY DEF IdleRuleAsk, RuleAsk, RuleAsks, NoInput, ToServe, ToWrite
<1>2. ruleReq'[q] = IdleRuleAsk /\ ruleAsks' \in 0..MaxRuleAsks
  BY DEF Proceed, RuleIInv, RuleTypeOK
<1>3. AskSound(q)'
  BY <1>1, <1>2 DEF AskSound
<1>4. QED
  BY <1>1, <1>2, <1>3, RuleMoves

LEMMA ServeTyped ==
  ASSUME NEW A \in SUBSET Accounts
  PROVE  /\ ToServe(A) \in [accounts : SUBSET Accounts, row : RuleRows \cup {NoRule}]
         /\ ToServe(A).accounts = A
BY DEF ToServe, ToWrite

LEMMA NoInputTyped == NoInput \in [accounts : SUBSET Accounts, row : RuleRows \cup {NoRule}]
BY ServeTyped DEF NoInput

LEMMA AskRuleKept ==
  ASSUME RuleIInv, NEW q \in RuleRequests, AskRule(q)
  PROVE  RuleIInv'
<1>1. UNCHANGED ruleTables
  BY DEF AskRule, ruleTables, ruleHistory
<1>2. ruleAsks' \in 0..MaxRuleAsks /\ ruleReq \in [RuleRequests -> RuleAsks]
  BY RuleConstants DEF AskRule, RuleIInv, RuleTypeOK, RuleConstants
<1>3. ASSUME NEW in \in RuleInputs, Proceed(q, RuleAsk("insert", "create", NoRule, in, "none"))
      PROVE  RuleIInv'
  <2> DEFINE w == RuleAsk("insert", "create", NoRule, in, "none")
  <2>1. w \in RuleAsks /\ w.at = "insert" /\ w.op = "create" /\ w.rule = NoRule /\ w.in = in
    BY InputTyped DEF RuleAsk, RuleAsks
  <2> HIDE DEF w
  <2>2. Proceed(q, w) /\ ruleReq'[q] = w
    BY <1>2, <1>3 DEF Proceed, w
  <2>3. AskSound(q)'
    BY <2>1, <2>2, InputTyped DEF AskSound, Limited
  <2>4. QED
    BY <1>1, <1>2, <2>1, <2>2, <2>3, RuleMoves
<1>4. ASSUME NEW in \in RuleInputs, NEW r \in KnownRules, Proceed(q, RuleAsk("load", "update", r, in, "none"))
      PROVE  RuleIInv'
  <2> DEFINE w == RuleAsk("load", "update", r, in, "none")
  <2>1. r \in Rules /\ ruleRow[r] # Unborn
    BY DEF KnownRules
  <2>2. w \in RuleAsks /\ w.at = "load" /\ w.op = "update" /\ w.rule = r /\ w.in = in
    BY <2>1, InputTyped DEF RuleAsk, RuleAsks
  <2> HIDE DEF w
  <2>3. Proceed(q, w) /\ ruleReq'[q] = w
    BY <1>2, <1>4 DEF Proceed, w
  <2>4. AskSound(q)'
    BY <1>1, <2>1, <2>2, <2>3, InputTyped DEF AskSound, Limited, ruleTables
  <2>5. QED
    BY <1>1, <1>2, <2>2, <2>3, <2>4, RuleMoves
<1>5. ASSUME NEW r \in KnownRules, NEW op \in {"enable", "disable", "delete"},
             Proceed(q, RuleAsk("load", op, r, NoInput, "none"))
      PROVE  RuleIInv'
  <2> DEFINE w == RuleAsk("load", op, r, NoInput, "none")
  <2>1. r \in Rules /\ ruleRow[r] # Unborn
    BY DEF KnownRules
  <2>2. w \in RuleAsks /\ w.at = "load" /\ w.op = op /\ w.rule = r
    BY <2>1, NoInputTyped DEF RuleAsk, RuleAsks
  <2> HIDE DEF w
  <2>3. Proceed(q, w) /\ ruleReq'[q] = w
    BY <1>2, <1>5 DEF Proceed, w
  <2>4. AskSound(q)'
    BY <1>1, <2>1, <2>2, <2>3 DEF AskSound, ruleTables
  <2>5. QED
    BY <1>1, <1>2, <2>2, <2>3, <2>4, RuleMoves
<1>6. QED
  BY <1>3, <1>4, <1>5 DEF AskRule

LEMMA LoadRuleKept ==
  ASSUME RuleIInv, NEW q \in RuleRequests, LoadRule(q)
  PROVE  RuleIInv'
<1> DEFINE ask == ruleReq[q]
           row == ruleRow[ruleReq[q].rule]
<1>1. /\ UNCHANGED <<ruleTables, ruleAsks>> /\ ruleAsks' \in 0..MaxRuleAsks
      /\ ruleReq \in [RuleRequests -> RuleAsks] /\ ask \in RuleAsks /\ AskSound(q)
      /\ ask.at = "load" /\ HasRule(ask.rule)
  BY DEF LoadRule, ruleTables, ruleHistory, RuleIInv, RuleTypeOK
<1>2. ask.rule \in Rules /\ ruleRow[ask.rule] # Unborn
  BY <1>1 DEF AskSound
<1>3. row \in RuleRows /\ row.mode \in Modes
  BY <1>1, <1>2 DEF HasRule, RuleIInv, RuleTypeOK, RuleRows
<1>4. CASE ask.op = "update" /\ Proceed(q, RuleAsk("update", "update", ask.rule,
                                 ToWrite(ask.in.accounts, Switched(ask.in.row, row.mode)), row.mode))
  <2> DEFINE in == ToWrite(ask.in.accounts, Switched(ask.in.row, row.mode))
             w == RuleAsk("update", "update", ask.rule, in, row.mode)
  <2>1. ask.in.row \in RuleRows /\ ask.in.row.primary \in ask.in.accounts /\ Limited(ask.in.row)
        /\ ask.in.accounts \in SUBSET Accounts
    BY <1>1, <1>4 DEF AskSound, RuleAsks
  <2>2. /\ in \in [accounts : SUBSET Accounts, row : RuleRows \cup {NoRule}]
        /\ in.accounts = ask.in.accounts /\ in.row = Switched(ask.in.row, row.mode)
    BY <2>1, RowTyped DEF ToWrite
  <2>3. w \in RuleAsks /\ w.at = "update" /\ w.op = "update" /\ w.rule = ask.rule /\ w.in = in /\ w.saw = row.mode
    <3> HIDE DEF in
    <3>1. QED
      BY <1>2, <1>3, <2>2 DEF RuleAsk, RuleAsks
  <2>4. /\ in.row \in RuleRows /\ in.row.primary \in in.accounts /\ Limited(in.row)
        /\ ~(row.mode # "auto_send" /\ in.row.mode = "auto_send" /\ in.row.enabled)
    BY <2>1, <2>2, RowTyped DEF Limited
  <2> HIDE DEF in
  <2>5. Proceed(q, w)
    BY <1>4 DEF in
  <2>6. ruleReq'[q] = w
    BY <1>1, <2>5 DEF Proceed
  <2> HIDE DEF w
  <2>7. AskSound(q)'
    BY <1>1, <1>2, <2>3, <2>4, <2>6 DEF AskSound, ruleTables
  <2>8. QED
    BY <1>1, <2>3, <2>5, <2>7, RuleMoves
<1>5. CASE ask.op \in {"enable", "disable"} /\ Proceed(q, RuleAsk("switch", ask.op, ask.rule, NoInput, row.mode))
  <2> DEFINE w == RuleAsk("switch", ask.op, ask.rule, NoInput, row.mode)
  <2>1. w \in RuleAsks /\ w.at = "switch" /\ w.op = ask.op /\ w.rule = ask.rule /\ w.saw = row.mode
    BY <1>2, <1>3, <1>5, NoInputTyped DEF RuleAsk, RuleAsks
  <2>2. Proceed(q, w)
    BY <1>5
  <2>3. ruleReq'[q] = w
    BY <1>1, <2>2 DEF Proceed
  <2> HIDE DEF w
  <2>4. AskSound(q)'
    BY <1>1, <1>2, <1>5, <2>1, <2>3 DEF AskSound, ruleTables
  <2>5. QED
    BY <1>1, <2>1, <2>2, <2>4, RuleMoves
<1>6. CASE Proceed(q, RuleAsk("delete", "delete", ask.rule, NoInput, "none"))
  <2> DEFINE w == RuleAsk("delete", "delete", ask.rule, NoInput, "none")
  <2>1. w \in RuleAsks /\ w.at = "delete" /\ w.op = "delete" /\ w.rule = ask.rule
    BY <1>2, NoInputTyped DEF RuleAsk, RuleAsks
  <2>2. Proceed(q, w)
    BY <1>6
  <2>3. ruleReq'[q] = w
    BY <1>1, <2>2 DEF Proceed
  <2> HIDE DEF w
  <2>4. AskSound(q)'
    BY <1>1, <1>2, <2>1, <2>3 DEF AskSound, ruleTables
  <2>5. QED
    BY <1>1, <2>1, <2>2, <2>4, RuleMoves
<1>7. QED
  BY <1>4, <1>5, <1>6 DEF LoadRule

LEMMA RuleLeaveKept ==
  ASSUME RuleIInv, NEW q \in RuleRequests, ReplyRule(q) \/ FailRule(q)
  PROVE  RuleIInv'
BY RuleEndKept DEF ReplyRule, FailRule, ruleTables

-----------------------------------------------------------------------------
(* The statements that write. *)

LEMMA InsertRuleKept ==
  ASSUME RuleIInv, NEW q \in RuleRequests, NEW r \in Rules, InsertRule(q, r)
  PROVE  RuleIInv'
<1> DEFINE in == ruleReq[q].in
           w == RuleAsk("clear", "create", r, ToServe(in.accounts), "none")
           row == Switched(in.row, "none")
<1>1. /\ ruleReq \in [RuleRequests -> RuleAsks] /\ ruleReq[q] \in RuleAsks /\ ruleReq[q].at = "insert"
      /\ ruleRow \in [Rules -> RuleRows \cup {Unborn, Gone}] /\ ruleRow[r] = Unborn
      /\ asked \in [Rules -> SUBSET Accounts] /\ settled \in [Rules -> BOOLEAN] /\ blind \in [Rules -> BOOLEAN]
      /\ in.row.primary \in accountRows /\ in.accounts \in SUBSET Accounts
      /\ WriteRow(q, r, row) /\ Proceed(q, w)
      /\ asked' = [asked EXCEPT ![r] = in.accounts] /\ settled' = [settled EXCEPT ![r] = FALSE]
      /\ UNCHANGED <<accountRows, ruleAccounts, ruleAsks>>
  <2>1. /\ ruleReq \in [RuleRequests -> RuleAsks] /\ ruleReq[q] \in RuleAsks
        /\ ruleRow \in [Rules -> RuleRows \cup {Unborn, Gone}]
        /\ asked \in [Rules -> SUBSET Accounts] /\ settled \in [Rules -> BOOLEAN] /\ blind \in [Rules -> BOOLEAN]
    BY DEF RuleIInv, RuleTypeOK
  <2>2. in.accounts \in SUBSET Accounts
    BY <2>1 DEF RuleAsks
  <2>3. QED
    BY <2>1, <2>2, Zenon DEF InsertRule
<1>2. in.row \in RuleRows /\ in.row.primary \in in.accounts /\ Limited(in.row)
  <2>1. AskSound(q) /\ ruleReq[q].at = "insert"
    BY <1>1 DEF RuleIInv
  <2>2. QED
    BY <2>1 DEF AskSound
<1>3. /\ row \in RuleRows /\ row.primary = in.row.primary /\ Limited(row)
      /\ row.mode = "auto_send" => ~row.enabled
  BY <1>2, RowTyped DEF Limited
<1>4. /\ w \in RuleAsks /\ w.at = "clear" /\ w.op = "create" /\ w.rule = r /\ w.in.accounts = in.accounts
  BY <1>1, ServeTyped DEF RuleAsk, RuleAsks
<1>5. \A o \in RuleRequests : ruleReq[o].rule # r
  BY <1>1, RuleConstants DEF RuleIInv, AskSound, RuleConstants
<1> HIDE DEF w, row
<1>6. /\ ruleReq' \in [RuleRequests -> RuleAsks] /\ ruleReq'[q] = w
      /\ \A o \in RuleRequests \ {q} : ruleReq'[o] = ruleReq[o]
  BY <1>1, <1>4 DEF Proceed
<1>7. ruleRow' = [ruleRow EXCEPT ![r] = row]
  BY <1>1 DEF WriteRow
<1>8. /\ blind' \in [Rules -> BOOLEAN] /\ ~blind'[r]
      /\ \A s \in Rules : s # r => blind'[s] = blind[s]
  BY <1>1, <1>3, Zenon DEF WriteRow
<1>9. RuleTypeOK'
  BY <1>1, <1>3, <1>6, <1>7, <1>8 DEF RuleIInv, RuleTypeOK
<1>10. ASSUME NEW o \in RuleRequests \ {q} PROVE AskSound(o)' /\ AloneSound(o)'
  <2>1. ruleReq'[o] = ruleReq[o] /\ AskSound(o) /\ AloneSound(o) /\ ruleReq[o].rule # r
    BY <1>5, <1>6 DEF RuleIInv
  <2>2. ruleReq[o].rule \in Rules => /\ ruleRow'[ruleReq[o].rule] = ruleRow[ruleReq[o].rule]
                                     /\ asked'[ruleReq[o].rule] = asked[ruleReq[o].rule]
    BY <1>1, <1>7, <2>1
  <2>3. ruleReq[o].at \notin {"idle", "insert"} => ruleReq[o].rule \in Rules
    BY <2>1 DEF AskSound
  <2>4. AskSound(o)'
    BY <2>1, <2>2, <2>3 DEF AskSound, HasRule
  <2>6. \A p \in RuleRequests \ {o} : p = q \/ ruleReq'[p] = ruleReq[p]
    BY <1>6
  <2>7. AloneSound(o)'
    BY <1>1, <1>4, <1>6, <2>1, <2>2, <2>3, <2>6 DEF AloneSound, Writes, HasRule
  <2>8. QED
    BY <2>4, <2>7
<1>11. AskSound(q)'
  BY <1>3, <1>4, <1>6, <1>7, <1>1, RowConstants DEF AskSound, RowConstants
<1>12. AloneSound(q)'
  BY <1>1, <1>4, <1>5, <1>6 DEF AloneSound, Writes
<1>13. RuleSound(r)'
  BY <1>1, <1>2, <1>3, <1>7, <1>8 DEF RuleSound
<1>14. ASSUME NEW s \in Rules, s # r PROVE RuleSound(s)'
  <2>1. \A o \in RuleRequests : Writes(o, s)' => Writes(o, s)
    BY <1>4, <1>6, <1>14 DEF Writes
  <2>2. QED
    BY <1>1, <1>7, <1>8, <1>14, <2>1 DEF RuleIInv, RuleSound, HasRule
<1>15. QED
  BY <1>9, <1>10, <1>11, <1>12, <1>13, <1>14 DEF RuleIInv

LEMMA ClearKept ==
  ASSUME RuleIInv, NEW q \in RuleRequests, ClearAccounts(q)
  PROVE  RuleIInv'
<1> DEFINE w == [ruleReq[q] EXCEPT !.at = "bind", !.todo = ruleReq[q].in.accounts]
<1>0. AskSound(q) /\ AloneSound(q)
  BY DEF RuleIInv
<1>1. PICK r \in Rules : r = ruleReq[q].rule
  BY <1>0 DEF ClearAccounts, AskSound
<1>2. /\ ruleReq \in [RuleRequests -> RuleAsks] /\ ruleReq[q] \in RuleAsks /\ ruleReq[q].at = "clear"
      /\ ruleAccounts \in [Rules -> SUBSET Accounts]
      /\ ruleAccounts' = [ruleAccounts EXCEPT ![r] = {}]
      /\ Proceed(q, w)
      /\ UNCHANGED <<accountRows, ruleRow, ruleAsks, ruleHistory>>
  BY <1>1 DEF ClearAccounts, RuleIInv, RuleTypeOK
<1>3. /\ w \in RuleAsks /\ w.at = "bind" /\ w.rule = r /\ w.todo = ruleReq[q].in.accounts
      /\ w.in = ruleReq[q].in /\ w.alone = ruleReq[q].alone
  BY <1>1, <1>2 DEF RuleAsks
<1> HIDE DEF w
<1>4. /\ ruleReq' \in [RuleRequests -> RuleAsks] /\ ruleReq'[q] = w
      /\ \A o \in RuleRequests \ {q} : ruleReq'[o] = ruleReq[o]
  BY <1>2, <1>3 DEF Proceed
<1>5. RuleTypeOK'
  BY <1>2, <1>4 DEF RuleIInv, RuleTypeOK, ruleHistory
<1>6. \A o \in RuleRequests, s \in Rules : Writes(o, s)' <=> Writes(o, s)
  BY <1>1, <1>2, <1>3, <1>4 DEF Writes
<1>7. Writes(q, r)
  BY <1>1, <1>2 DEF Writes
<1>8. ASSUME NEW o \in RuleRequests \ {q} PROVE AskSound(o)' /\ AloneSound(o)'
  <2>1. ruleReq'[o] = ruleReq[o] /\ AskSound(o) /\ AloneSound(o)
    BY <1>4 DEF RuleIInv
  <2>2. AskSound(o)'
    BY <1>2, <2>1 DEF AskSound, HasRule, ruleHistory
  <2>3. ruleReq[o].at \in {"clear", "bind"} /\ ruleReq[o].alone => ruleReq[o].rule \in Rules /\ ruleReq[o].rule # r
    BY <1>7, <2>1 DEF AskSound, AloneSound
  <2>4. AloneSound(o)'
    BY <1>2, <1>6, <2>1, <2>3 DEF AloneSound, HasRule, ruleHistory
  <2>5. QED
    BY <2>2, <2>4
<1>9. AskSound(q)'
  BY <1>0, <1>1, <1>2, <1>3, <1>4 DEF AskSound
<1>10. AloneSound(q)'
  <2>1. ruleReq[q].alone => ruleReq[q].in.accounts = asked[r] /\ \A o \in RuleRequests \ {q} : ~Writes(o, r)
    BY <1>0, <1>1, <1>2 DEF AloneSound
  <2>2. ruleAccounts'[r] = {}
    BY <1>2
  <2>3. QED
    BY <1>2, <1>3, <1>4, <1>6, <2>1, <2>2 DEF AloneSound, ruleHistory
<1>11. ASSUME NEW s \in Rules PROVE RuleSound(s)'
  <2>1. RuleSound(s)
    BY DEF RuleIInv
  <2>2. settled[s] => s # r
    BY <1>7, <2>1 DEF RuleSound
  <2>3. QED
    BY <1>2, <1>6, <2>1, <2>2 DEF RuleSound, HasRule, ruleHistory
<1>12. QED
  BY <1>5, <1>8, <1>9, <1>10, <1>11 DEF RuleIInv

\* Of the others' requests only what they know of the rows changes.
OthersLearn(q, r) ==
    \A o \in RuleRequests \ {q} :
        /\ ruleReq'[o].at = ruleReq[o].at /\ ruleReq'[o].op = ruleReq[o].op
        /\ ruleReq'[o].rule = ruleReq[o].rule /\ ruleReq'[o].in = ruleReq[o].in
        /\ ruleReq'[o].saw = ruleReq[o].saw /\ ruleReq'[o].todo = ruleReq[o].todo
        /\ ruleReq'[o].fresh => ruleReq[o].fresh /\ ruleReq[o].rule # r
        /\ ruleReq'[o].alone => ruleReq[o].alone

LEMMA SwitchKept ==
  ASSUME RuleIInv, NEW q \in RuleRequests, SwitchRule(q)
  PROVE  RuleIInv'
<1>0. AskSound(q) /\ ruleReq[q].at = "switch" /\ HasRule(ruleReq[q].rule)
  BY DEF RuleIInv, SwitchRule
<1>1. PICK r \in Rules : r = ruleReq[q].rule
  BY <1>0 DEF AskSound
<1> DEFINE on == ruleReq[q].op = "enable"
           row == SetEnabled(ruleRow[r], on)
<1>2. /\ ruleReq \in [RuleRequests -> RuleAsks] /\ ruleReq[q] \in RuleAsks
      /\ ruleRow \in [Rules -> RuleRows \cup {Unborn, Gone}]
      /\ blind \in [Rules -> BOOLEAN] /\ RuleSound(r)
      /\ HasRule(r) /\ ruleRow[r] \in RuleRows
  BY <1>0, <1>1 DEF RuleIInv, RuleTypeOK, HasRule
<1>3. /\ WriteRow(q, r, row)
      /\ UNCHANGED <<accountRows, ruleAccounts, ruleAsks, asked, settled>>
  BY <1>1 DEF SwitchRule
<1>4. row \in RuleRows /\ row.primary = ruleRow[r].primary /\ row.mode = ruleRow[r].mode /\ Limited(row)
  <2>1. Limited(ruleRow[r]) /\ on \in BOOLEAN
    BY <1>2 DEF RuleSound
  <2> HIDE DEF on
  <2>2. QED
    BY <1>2, <2>1 DEF SetEnabled, Row, RuleRows, Limited
<1>5. /\ ruleReq' \in [RuleRequests -> RuleAsks]
      /\ ruleReq'[q].at = "reply" /\ ruleReq'[q].rule = r /\ OthersLearn(q, r)
  <2>1. ruleReq' = [p \in RuleRequests |->
            IF p = q THEN [ruleReq[q] EXCEPT !.at = "reply"]
            ELSE [ruleReq[p] EXCEPT !.fresh = @ /\ ruleReq[p].rule # ruleReq[q].rule]]
    BY DEF SwitchRule
  <2>2. ruleReq'[q] = [ruleReq[q] EXCEPT !.at = "reply"]
    BY <2>1
  <2>3. ruleReq'[q] \in RuleAsks /\ ruleReq'[q].at = "reply" /\ ruleReq'[q].rule = r
    BY <1>1, <1>2, <2>2 DEF RuleAsks
  <2>4. ASSUME NEW o \in RuleRequests \ {q}
        PROVE  /\ ruleReq'[o] \in RuleAsks
               /\ ruleReq'[o].at = ruleReq[o].at /\ ruleReq'[o].op = ruleReq[o].op
               /\ ruleReq'[o].rule = ruleReq[o].rule /\ ruleReq'[o].in = ruleReq[o].in
               /\ ruleReq'[o].saw = ruleReq[o].saw /\ ruleReq'[o].todo = ruleReq[o].todo
               /\ ruleReq'[o].fresh => ruleReq[o].fresh /\ ruleReq[o].rule # r
               /\ ruleReq'[o].alone => ruleReq[o].alone
    <3> DEFINE f == ruleReq[o].fresh /\ ruleReq[o].rule # r
    <3>1. f \in BOOLEAN /\ ruleReq[o] \in RuleAsks
      BY <1>2 DEF RuleAsks
    <3>2. ruleReq'[o] = [ruleReq[o] EXCEPT !.fresh = f]
      BY <1>1, <2>1
    <3>3. f => ruleReq[o].fresh /\ ruleReq[o].rule # r
      OBVIOUS
    <3> HIDE DEF f
    <3>4. /\ ruleReq'[o] \in RuleAsks /\ ruleReq'[o].fresh = f
          /\ ruleReq'[o].at = ruleReq[o].at /\ ruleReq'[o].op = ruleReq[o].op
          /\ ruleReq'[o].rule = ruleReq[o].rule /\ ruleReq'[o].in = ruleReq[o].in
          /\ ruleReq'[o].saw = ruleReq[o].saw /\ ruleReq'[o].todo = ruleReq[o].todo
          /\ ruleReq'[o].alone = ruleReq[o].alone
      BY <3>1, <3>2 DEF RuleAsks
    <3>5. QED
      BY <3>3, <3>4
  <2>5. QED
    BY <2>1, <2>3, <2>4 DEF OthersLearn
<1> HIDE DEF row
<1>6. ruleRow' = [ruleRow EXCEPT ![r] = row]
  BY <1>3 DEF WriteRow
<1>7. /\ blind' \in [Rules -> BOOLEAN] /\ ~blind'[r]
      /\ \A s \in Rules : s # r => blind'[s] = blind[s]
  <2>1. row.mode = "auto_send" /\ ruleReq[q].fresh => ruleReq[q].saw = "auto_send"
    BY <1>0, <1>1, <1>4 DEF AskSound
  <2>2. QED
    BY <1>2, <1>3, <2>1, Zenon DEF WriteRow
<1>8. RuleTypeOK'
  BY <1>2, <1>3, <1>4, <1>5, <1>6, <1>7 DEF RuleIInv, RuleTypeOK
<1>9. \A o \in RuleRequests, s \in Rules : Writes(o, s)' => Writes(o, s)
  BY <1>5 DEF OthersLearn, Writes
<1>10. \A s \in Rules : HasRule(s)' <=> HasRule(s)
  BY <1>2, <1>4, <1>6, RowConstants DEF HasRule, RowConstants
<1>11. ASSUME NEW o \in RuleRequests PROVE AskSound(o)' /\ AloneSound(o)'
  <2>1. AskSound(o) /\ AloneSound(o)
    BY DEF RuleIInv
  <2>2. CASE o = q
    <3>1. AskSound(q)'
      BY <1>4, <1>5, <1>6, <1>2, RowConstants DEF AskSound, RowConstants
    <3>2. QED
      BY <1>5, <2>2, <3>1 DEF AloneSound
  <2>3. CASE o # q
    <3>1. /\ ruleReq'[o].at = ruleReq[o].at /\ ruleReq'[o].op = ruleReq[o].op
          /\ ruleReq'[o].rule = ruleReq[o].rule /\ ruleReq'[o].in = ruleReq[o].in
          /\ ruleReq'[o].saw = ruleReq[o].saw /\ ruleReq'[o].todo = ruleReq[o].todo
          /\ ruleReq'[o].fresh => ruleReq[o].fresh /\ ruleReq[o].rule # r
          /\ ruleReq'[o].alone => ruleReq[o].alone
      BY <1>5, <2>3 DEF OthersLearn
    <3>2. \A s \in Rules : (s # r => ruleRow'[s] = ruleRow[s]) /\ (ruleRow[s] # Unborn => ruleRow'[s] # Unborn)
      BY <1>2, <1>4, <1>6, RowConstants DEF RowConstants
    <3>3. ruleReq[o].at \notin {"idle", "insert"} => ruleReq[o].rule \in Rules
      BY <2>1 DEF AskSound
    <3>4. AskSound(o)'
      BY <1>10, <2>1, <3>1, <3>2, <3>3 DEF AskSound
    <3>5. AloneSound(o)'
      BY <1>3, <1>9, <1>10, <2>1, <3>1, <3>3 DEF AloneSound
    <3>6. QED
      BY <3>4, <3>5
  <2>4. QED
    BY <2>2, <2>3
<1>12. ASSUME NEW s \in Rules PROVE RuleSound(s)'
  <2>1. RuleSound(s)
    BY DEF RuleIInv
  <2>2. HasRule(s)' => ruleRow'[s].primary = ruleRow[s].primary /\ Limited(ruleRow'[s])
    BY <1>2, <1>4, <1>6, <1>10, <2>1 DEF RuleSound
  <2>3. ~blind'[s]
    BY <1>7, <2>1 DEF RuleSound
  <2>4. QED
    BY <1>3, <1>9, <1>10, <2>1, <2>2, <2>3 DEF RuleSound
<1>13. QED
  BY <1>8, <1>11, <1>12 DEF RuleIInv

LEMMA DeleteRuleKept ==
  ASSUME RuleIInv, NEW q \in RuleRequests, DeleteRule(q)
  PROVE  RuleIInv'
<1>0. AskSound(q) /\ ruleReq[q].at = "delete" /\ HasRule(ruleReq[q].rule)
  BY DEF RuleIInv, DeleteRule
<1>1. PICK r \in Rules : r = ruleReq[q].rule
  BY <1>0 DEF AskSound
<1>2. /\ ruleReq \in [RuleRequests -> RuleAsks]
      /\ ruleRow \in [Rules -> RuleRows \cup {Unborn, Gone}]
      /\ ruleAccounts \in [Rules -> SUBSET Accounts]
      /\ ruleRow' = [ruleRow EXCEPT ![r] = Gone]
      /\ ruleAccounts' = [ruleAccounts EXCEPT ![r] = {}]
      /\ Proceed(q, IdleRuleAsk)
      /\ UNCHANGED <<accountRows, ruleAsks, ruleHistory>>
  BY <1>1 DEF RuleIInv, RuleTypeOK, DeleteRule
<1>3. IdleRuleAsk \in RuleAsks /\ IdleRuleAsk.at = "idle" /\ IdleRuleAsk.rule = NoRule
  BY DEF IdleRuleAsk, RuleAsk, RuleAsks, NoInput, ToServe, ToWrite
<1>4. /\ ruleReq' \in [RuleRequests -> RuleAsks] /\ ruleReq'[q] = IdleRuleAsk
      /\ \A o \in RuleRequests \ {q} : ruleReq'[o] = ruleReq[o]
  BY <1>2, <1>3 DEF Proceed
<1>5. RuleTypeOK'
  BY <1>2, <1>4 DEF RuleIInv, RuleTypeOK, ruleHistory
<1>6. \A o \in RuleRequests, s \in Rules : Writes(o, s)' => Writes(o, s)
  BY <1>3, <1>4 DEF Writes
<1>7. /\ ~HasRule(r)' /\ ruleRow'[r] # Unborn
      /\ \A s \in Rules : s # r => ruleRow'[s] = ruleRow[s] /\ ruleAccounts'[s] = ruleAccounts[s]
  BY <1>2, RuleConstants DEF HasRule, RuleConstants
<1>8. ASSUME NEW o \in RuleRequests PROVE AskSound(o)' /\ AloneSound(o)'
  <2>1. CASE o = q
    BY <1>3, <1>4, <2>1 DEF AskSound, AloneSound
  <2>2. CASE o # q
    <3>1. ruleReq'[o] = ruleReq[o] /\ AskSound(o) /\ AloneSound(o)
      BY <1>4, <2>2 DEF RuleIInv
    <3>2. ruleReq[o].at \notin {"idle", "insert"} => ruleReq[o].rule \in Rules
      BY <3>1 DEF AskSound
    <3>3. AskSound(o)'
      BY <1>7, <3>1, <3>2 DEF AskSound, HasRule
    <3>4. AloneSound(o)'
      BY <1>2, <1>6, <1>7, <3>1, <3>2 DEF AloneSound, HasRule, ruleHistory
    <3>5. QED
      BY <3>3, <3>4
  <2>3. QED
    BY <2>1, <2>2
<1>9. ASSUME NEW s \in Rules PROVE RuleSound(s)'
  <2>1. RuleSound(s) /\ (HasRule(s)' => s # r /\ HasRule(s))
    BY <1>7 DEF RuleIInv, HasRule
  <2>2. QED
    BY <1>2, <1>6, <1>7, <2>1 DEF RuleSound, ruleHistory
<1>10. QED
  BY <1>5, <1>8, <1>9 DEF RuleIInv

LEMMA DropAccountKept ==
  ASSUME RuleIInv, NEW a \in Accounts, DropAccount(a)
  PROVE  RuleIInv'
<1>1. /\ ruleRow \in [Rules -> RuleRows \cup {Unborn, Gone}]
      /\ ruleAccounts \in [Rules -> SUBSET Accounts] /\ accountRows \subseteq Accounts
      /\ accountRows' = accountRows \ {a}
      /\ UNCHANGED <<ruleReq, ruleAsks, ruleHistory>>
      /\ ruleRow' \in [Rules -> RuleRows \cup {Unborn, Gone}]
      /\ ruleAccounts' \in [Rules -> SUBSET Accounts]
  BY DEF RuleIInv, RuleTypeOK, DropAccount
<1>2. RuleTypeOK'
  BY <1>1 DEF RuleIInv, RuleTypeOK, ruleHistory
<1>3. \A s \in Rules : /\ HasRule(s)' => /\ HasRule(s) /\ ruleRow'[s] = ruleRow[s]
                                         /\ ruleRow[s].primary # a
                                         /\ ruleAccounts'[s] = ruleAccounts[s] \ {a}
                       /\ ruleRow[s] # Unborn => ruleRow'[s] # Unborn
  BY <1>1, RuleConstants DEF DropAccount, HasRule, RuleConstants
<1>4. \A o \in RuleRequests, s \in Rules : Writes(o, s)' <=> Writes(o, s)
  BY <1>1 DEF Writes
<1>5. ASSUME NEW o \in RuleRequests PROVE AskSound(o)' /\ AloneSound(o)'
  <2>1. ruleReq' = ruleReq /\ asked' = asked /\ AskSound(o) /\ AloneSound(o)
    BY <1>1 DEF RuleIInv, ruleHistory
  <2>2. ruleReq[o].at \notin {"idle", "insert"} => ruleReq[o].rule \in Rules
    BY <2>1 DEF AskSound
  <2>3. AskSound(o)'
    BY <1>3, <2>1, <2>2 DEF AskSound
  <2>4. AloneSound(o)'
    BY <1>1, <1>3, <1>4, <2>1, <2>2 DEF AloneSound
  <2>5. QED
    BY <2>3, <2>4
<1>6. ASSUME NEW s \in Rules PROVE RuleSound(s)'
  <2>1. RuleSound(s)
    BY DEF RuleIInv
  <2>2. QED
    BY <1>1, <1>3, <1>4, <2>1 DEF RuleSound, ruleHistory
<1>7. QED
  BY <1>2, <1>5, <1>6 DEF RuleIInv

LEMMA UpdateRuleKept ==
  ASSUME RuleIInv, NEW q \in RuleRequests, UpdateRule(q)
  PROVE  RuleIInv'
<1>0. AskSound(q) /\ ruleReq[q].at = "update" /\ HasRule(ruleReq[q].rule)
  BY DEF RuleIInv, UpdateRule
<1>1. PICK r \in Rules : r = ruleReq[q].rule
  BY <1>0 DEF AskSound
<1>2. PICK row : row = ruleReq[q].in.row
  OBVIOUS
<1>3. PICK A : A = ruleReq[q].in.accounts
  OBVIOUS
<1>4. /\ ruleReq \in [RuleRequests -> RuleAsks] /\ A \in SUBSET Accounts
      /\ ruleRow \in [Rules -> RuleRows \cup {Unborn, Gone}] /\ HasRule(r)
      /\ asked \in [Rules -> SUBSET Accounts] /\ settled \in [Rules -> BOOLEAN] /\ blind \in [Rules -> BOOLEAN]
  BY <1>0, <1>1, <1>3 DEF RuleIInv, RuleTypeOK, RuleAsks
<1>5. /\ row \in RuleRows /\ row.primary \in A /\ Limited(row)
      /\ ~(ruleReq[q].saw # "auto_send" /\ row.mode = "auto_send" /\ row.enabled)
  BY <1>0, <1>2, <1>3 DEF AskSound
<1> DEFINE w == RuleAsk("clear", "update", r, ToServe(A), "none")
           only == ~\E o \in RuleRequests \ {q} : Writes(o, r)
<1>6. /\ w \in RuleAsks /\ w.at = "clear" /\ w.op = "update" /\ w.rule = r /\ w.in.accounts = A
  BY <1>4, ServeTyped DEF RuleAsk, RuleAsks
<1>7. /\ WriteRow(q, r, row) /\ ProceedOver(q, w, r) /\ row.primary \in accountRows
      /\ asked' = [asked EXCEPT ![r] = A] /\ settled' = [settled EXCEPT ![r] = FALSE]
      /\ UNCHANGED <<accountRows, ruleAccounts, ruleAsks>>
  BY <1>1, <1>2, <1>3 DEF UpdateRule
<1> HIDE DEF w
<1>8. /\ ruleReq' \in [RuleRequests -> RuleAsks]
      /\ ruleReq'[q].at = "clear" /\ ruleReq'[q].op = "update" /\ ruleReq'[q].rule = r
      /\ ruleReq'[q].in.accounts = A /\ (ruleReq'[q].alone => only)
      /\ OthersLearn(q, r)
      /\ \A o \in RuleRequests \ {q} : ruleReq'[o].alone => ~Writes(o, r)
  <2>1. ruleReq' = [p \in RuleRequests |->
          IF p = q THEN [w EXCEPT !.alone = ~\E o \in RuleRequests \ {q} : Writes(o, r)]
          ELSE [ruleReq[p] EXCEPT !.fresh = @ /\ ruleReq[p].rule # r, !.alone = @ /\ ~Writes(p, r)]]
    BY <1>7 DEF ProceedOver
  <2>2. ruleReq'[q] = [w EXCEPT !.alone = only] /\ only \in BOOLEAN
    BY <2>1
  <2>3. /\ ruleReq'[q] \in RuleAsks /\ ruleReq'[q].at = "clear" /\ ruleReq'[q].op = "update"
        /\ ruleReq'[q].rule = r /\ ruleReq'[q].in.accounts = A /\ ruleReq'[q].alone = only
    <3> HIDE DEF only
    <3>1. QED
      BY <1>6, <2>2 DEF RuleAsks
  <2>4. ASSUME NEW o \in RuleRequests \ {q}
        PROVE  /\ ruleReq'[o] \in RuleAsks
               /\ ruleReq'[o].at = ruleReq[o].at /\ ruleReq'[o].op = ruleReq[o].op
               /\ ruleReq'[o].rule = ruleReq[o].rule /\ ruleReq'[o].in = ruleReq[o].in
               /\ ruleReq'[o].saw = ruleReq[o].saw /\ ruleReq'[o].todo = ruleReq[o].todo
               /\ ruleReq'[o].fresh => ruleReq[o].fresh /\ ruleReq[o].rule # r
               /\ ruleReq'[o].alone => ruleReq[o].alone /\ ~Writes(o, r)
    <3> DEFINE f == ruleReq[o].fresh /\ ruleReq[o].rule # r
               n == ruleReq[o].alone /\ ~Writes(o, r)
    <3>1. f \in BOOLEAN /\ n \in BOOLEAN /\ ruleReq[o] \in RuleAsks
      BY <1>4 DEF RuleAsks
    <3>2. ruleReq'[o] = [ruleReq[o] EXCEPT !.fresh = f, !.alone = n]
      BY <2>1
    <3>3. (f => ruleReq[o].fresh /\ ruleReq[o].rule # r) /\ (n => ruleReq[o].alone /\ ~Writes(o, r))
      OBVIOUS
    <3> HIDE DEF f, n
    <3>4. /\ ruleReq'[o] \in RuleAsks /\ ruleReq'[o].fresh = f /\ ruleReq'[o].alone = n
          /\ ruleReq'[o].at = ruleReq[o].at /\ ruleReq'[o].op = ruleReq[o].op
          /\ ruleReq'[o].rule = ruleReq[o].rule /\ ruleReq'[o].in = ruleReq[o].in
          /\ ruleReq'[o].saw = ruleReq[o].saw /\ ruleReq'[o].todo = ruleReq[o].todo
      BY <3>1, <3>2 DEF RuleAsks
    <3>5. QED
      BY <3>3, <3>4
  <2>5. QED
    BY <2>1, <2>3, <2>4 DEF OthersLearn
<1>9. ruleRow' = [ruleRow EXCEPT ![r] = row]
  BY <1>7 DEF WriteRow
<1>10. /\ blind' \in [Rules -> BOOLEAN] /\ ~blind'[r]
       /\ \A s \in Rules : s # r => blind'[s] = blind[s]
  BY <1>4, <1>5, <1>7, Zenon DEF WriteRow
<1>11. RuleTypeOK'
  BY <1>4, <1>5, <1>7, <1>8, <1>9, <1>10 DEF RuleIInv, RuleTypeOK
<1>12. \A o \in RuleRequests \ {q}, s \in Rules : Writes(o, s)' <=> Writes(o, s)
  BY <1>8 DEF OthersLearn, Writes
<1>13. /\ \A s \in Rules : HasRule(s)' <=> HasRule(s)
       /\ \A s \in Rules : s # r => ruleRow'[s] = ruleRow[s] /\ asked'[s] = asked[s] /\ settled'[s] = settled[s]
       /\ ruleRow'[r] = row /\ asked'[r] = A /\ ~settled'[r] /\ row # Unborn
  BY <1>4, <1>5, <1>7, <1>9, RowConstants DEF HasRule, RowConstants
<1>14. ASSUME NEW o \in RuleRequests, o # q PROVE AskSound(o)' /\ AloneSound(o)'
  <2>1. AskSound(o) /\ AloneSound(o)
    BY DEF RuleIInv
  <2>2. /\ ruleReq'[o].at = ruleReq[o].at /\ ruleReq'[o].op = ruleReq[o].op
        /\ ruleReq'[o].rule = ruleReq[o].rule /\ ruleReq'[o].in = ruleReq[o].in
        /\ ruleReq'[o].saw = ruleReq[o].saw /\ ruleReq'[o].todo = ruleReq[o].todo
        /\ ruleReq'[o].fresh => ruleReq[o].fresh /\ ruleReq[o].rule # r
        /\ ruleReq'[o].alone => ruleReq[o].alone /\ ~Writes(o, r)
    BY <1>8, <1>14 DEF OthersLearn
  <2>3. ruleReq[o].at \notin {"idle", "insert"} => ruleReq[o].rule \in Rules
    BY <2>1 DEF AskSound
  <2>4. AskSound(o)'
    BY <1>13, <2>1, <2>2, <2>3 DEF AskSound
  <2>5. ruleReq'[o].at \in {"clear", "bind"} /\ ruleReq'[o].alone => ruleReq[o].rule # r
    BY <2>2 DEF Writes
  <2>6. \A s \in Rules : s # r => ~Writes(q, s)'
    BY <1>8 DEF Writes
  <2>7. AloneSound(o)'
    BY <1>7, <1>12, <1>13, <2>1, <2>2, <2>3, <2>5, <2>6 DEF AloneSound
  <2>8. QED
    BY <2>4, <2>7
<1>15. AskSound(q)'
  BY <1>8, <1>13 DEF AskSound
<1>16. AloneSound(q)'
  BY <1>8, <1>12, <1>13 DEF AloneSound
<1>17. ASSUME NEW s \in Rules PROVE RuleSound(s)'
  <2>1. RuleSound(s)
    BY DEF RuleIInv
  <2>2. CASE s = r
    BY <1>5, <1>7, <1>10, <1>13, <2>2 DEF RuleSound
  <2>3. CASE s # r
    <3>1. \A o \in RuleRequests : Writes(o, s)' => Writes(o, s)
      BY <1>8, <1>12, <2>3 DEF Writes
    <3>2. QED
      BY <1>7, <1>10, <1>13, <2>1, <2>3, <3>1 DEF RuleSound
  <2>4. QED
    BY <2>2, <2>3
<1>18. QED
  BY <1>11, <1>14, <1>15, <1>16, <1>17 DEF RuleIInv

LEMMA BindKept ==
  ASSUME RuleIInv, NEW q \in RuleRequests, NEW a \in Accounts, BindAccount(q, a)
  PROVE  RuleIInv'
<1>0. AskSound(q) /\ AloneSound(q) /\ ruleReq[q].at = "bind"
  BY DEF RuleIInv, BindAccount
<1>1. PICK r \in Rules : r = ruleReq[q].rule
  BY <1>0 DEF AskSound
<1> DEFINE last == ruleReq[q].todo = {a}
           left == ruleReq[q].todo \ {a}
           w == IF last THEN [ruleReq[q] EXCEPT !.at = "reply", !.todo = {}]
                ELSE [ruleReq[q] EXCEPT !.todo = @ \ {a}]
<1>2. /\ ruleReq \in [RuleRequests -> RuleAsks] /\ ruleReq[q] \in RuleAsks
      /\ ruleAccounts \in [Rules -> SUBSET Accounts]
      /\ settled \in [Rules -> BOOLEAN] /\ asked \in [Rules -> SUBSET Accounts]
      /\ a \in ruleReq[q].todo /\ HasRule(r) /\ a \in accountRows
      /\ ruleAccounts' = [ruleAccounts EXCEPT ![r] = @ \cup {a}]
      /\ UNCHANGED <<accountRows, ruleRow, ruleAsks, asked, blind>>
  BY <1>1 DEF BindAccount, RuleIInv, RuleTypeOK
<1>3. /\ Proceed(q, w)
      /\ last => settled' = [settled EXCEPT ![r] = ruleReq[q].alone]
      /\ ~last => settled' = settled
  BY <1>1 DEF BindAccount
<1>4. /\ w \in RuleAsks /\ w.rule = r /\ w.in = ruleReq[q].in /\ w.alone = ruleReq[q].alone
      /\ w.op = ruleReq[q].op
      /\ last => w.at = "reply"
      /\ ~last => w.at = "bind" /\ w.todo = left
  <2>1. CASE last
    BY <1>1, <1>2, <2>1 DEF RuleAsks
  <2>2. CASE ~last
    BY <1>0, <1>1, <1>2, <2>2 DEF RuleAsks
  <2>3. QED
    BY <2>1, <2>2
<1> HIDE DEF w
<1>5. /\ ruleReq' \in [RuleRequests -> RuleAsks] /\ ruleReq'[q] = w
      /\ \A o \in RuleRequests \ {q} : ruleReq'[o] = ruleReq[o]
  BY <1>2, <1>3, <1>4 DEF Proceed
<1>6. settled' \in [Rules -> BOOLEAN] /\ \A s \in Rules : s # r => settled'[s] = settled[s]
  BY <1>2, <1>3 DEF RuleAsks
<1>7. RuleTypeOK'
  BY <1>2, <1>5, <1>6 DEF RuleIInv, RuleTypeOK
<1>8. \A o \in RuleRequests, s \in Rules : Writes(o, s)' => Writes(o, s)
  BY <1>0, <1>1, <1>4, <1>5 DEF Writes
<1>9. Writes(q, r)
  BY <1>0, <1>1 DEF Writes
<1>10. \A s \in Rules : s # r => ruleAccounts'[s] = ruleAccounts[s]
  BY <1>2
<1>11. ruleReq[q].alone =>
          /\ \A o \in RuleRequests \ {q} : ~Writes(o, r)
          /\ ruleReq[q].in.accounts = asked[r]
          /\ ruleReq[q].todo \subseteq asked[r]
          /\ ruleAccounts'[r] = (asked[r] \ left) \cap accountRows
  <2>1. ruleAccounts'[r] = ruleAccounts[r] \cup {a}
    BY <1>2
  <2>2. QED
    BY <1>0, <1>1, <1>2, <2>1 DEF AloneSound
<1>12. ASSUME NEW o \in RuleRequests, o # q PROVE AskSound(o)' /\ AloneSound(o)'
  <2>1. ruleReq'[o] = ruleReq[o] /\ AskSound(o) /\ AloneSound(o)
    BY <1>5, <1>12 DEF RuleIInv
  <2>2. AskSound(o)'
    BY <1>2, <2>1 DEF AskSound, HasRule
  <2>3. ruleReq[o].at \in {"clear", "bind"} /\ ruleReq[o].alone => ruleReq[o].rule \in Rules /\ ruleReq[o].rule # r
    BY <1>9, <1>12, <2>1 DEF AskSound, AloneSound
  <2>4. AloneSound(o)'
    BY <1>2, <1>8, <1>10, <2>1, <2>3 DEF AloneSound, HasRule
  <2>5. QED
    BY <2>2, <2>4
<1>13. AskSound(q)'
  BY <1>0, <1>1, <1>2, <1>4, <1>5 DEF AskSound
<1>14. AloneSound(q)'
  <2>1. CASE last
    BY <1>4, <1>5, <2>1 DEF AloneSound
  <2>2. CASE ~last
    <3>1. w.alone => \A o \in RuleRequests \ {q} : ~Writes(o, r)'
      BY <1>4, <1>8, <1>11
    <3>2. left \subseteq ruleReq[q].todo
      OBVIOUS
    <3>3. QED
      BY <1>2, <1>4, <1>5, <1>11, <2>2, <3>1, <3>2 DEF AloneSound
  <2>3. QED
    BY <2>1, <2>2
<1>15. ASSUME NEW s \in Rules PROVE RuleSound(s)'
  <2>1. RuleSound(s)
    BY DEF RuleIInv
  <2>2. CASE s # r
    BY <1>2, <1>6, <1>8, <1>10, <2>1, <2>2 DEF RuleSound, HasRule
  <2>3. CASE s = r /\ ~last
    <3>1. ~settled'[s]
      BY <1>3, <1>9, <2>1, <2>3 DEF RuleSound
    <3>2. QED
      BY <1>2, <2>1, <3>1 DEF RuleSound, HasRule
  <2>4. CASE s = r /\ last
    <3>1. settled'[s] = ruleReq[q].alone
      BY <1>2, <1>3, <2>4
    <3>2. ~Writes(q, s)'
      BY <1>4, <1>5, <2>4 DEF Writes
    <3>3. ruleReq[q].alone => \A o \in RuleRequests : ~Writes(o, s)'
      BY <1>8, <1>11, <2>4, <3>2
    <3>4. ruleReq[q].alone => ruleAccounts'[s] = asked[s] \cap accountRows
      BY <1>11, <2>4
    <3>5. QED
      BY <1>2, <2>1, <3>1, <3>3, <3>4 DEF RuleSound, HasRule
  <2>5. QED
    BY <2>2, <2>3, <2>4
<1>16. QED
  BY <1>7, <1>12, <1>13, <1>14, <1>15 DEF RuleIInv

LEMMA RuleStepIInv == RuleIInv /\ [RuleNext]_ruleVars => RuleIInv'
<1> SUFFICES ASSUME RuleIInv, [RuleNext]_ruleVars PROVE RuleIInv'
  OBVIOUS
<1>1. CASE UNCHANGED ruleVars
  <2>1. RuleTypeOK'
    BY <1>1 DEF ruleVars, RuleIInv, RuleTypeOK
  <2>2. \A q \in RuleRequests : AskSound(q)' /\ AloneSound(q)'
    BY <1>1 DEF ruleVars, RuleIInv, AskSound, AloneSound, HasRule, Writes
  <2>3. \A r \in Rules : RuleSound(r)'
    BY <1>1 DEF ruleVars, RuleIInv, RuleSound, HasRule, Writes
  <2>4. QED
    BY <2>1, <2>2, <2>3 DEF RuleIInv
<1>2. ASSUME NEW q \in RuleRequests, RuleStep(q) PROVE RuleIInv'
  BY <1>2, AskRuleKept, LoadRuleKept, UpdateRuleKept, ClearKept, SwitchKept, DeleteRuleKept,
     RuleLeaveKept, InsertRuleKept, BindKept DEF RuleStep
<1>3. ASSUME NEW a \in Accounts, DropAccount(a) PROVE RuleIInv'
  BY <1>3, DropAccountKept
<1>4. QED
  BY <1>1, <1>2, <1>3 DEF RuleNext

(* A rule serves what its last undisturbed update asked for, however many   *)
(* updates failed half-way or overlapped before (syncRuleAccounts).        *)
THEOREM RulesServeAsAsked == RuleSpec => [](RuleTypeOK /\ ServedAsAsked)
<1>1. RuleIInv => RuleTypeOK
  BY DEF RuleIInv
<1>2. RuleIInv => ServedAsAsked
  BY DEF RuleIInv, RuleSound, ServedAsAsked, Serves
<1>3. QED
  BY <1>1, <1>2, RuleInitIInv, RuleStepIInv, PTL DEF RuleSpec

(* No interleaving of updates and switches leaves an auto_send rule without *)
(* a limit, or enabled by a request that took it for another kind          *)
(* (UpsertRule, SetRuleEnabled).                                           *)
THEOREM AutoSendNeedsALimit == RuleSpec => []AutoSendIsGuarded
<1>1. RuleIInv => AutoSendIsGuarded
  BY DEF RuleIInv, RuleSound, AutoSendIsGuarded, Limited
<1>2. QED
  BY <1>1, RuleInitIInv, RuleStepIInv, PTL DEF RuleSpec

-----------------------------------------------------------------------------
(* The three side by side, as MCAgents runs them.                          *)

LEMMA PartSteps ==
  ASSUME [MCNext]_<<part, vars, ruleVars, configVars>>
  PROVE  [Next]_vars /\ [RuleNext]_ruleVars /\ [ConfigNext]_configVars
BY DEF MCNext, Only

(* Agent runs, the rules of accounts and the system agents share no state: *)
(* a behaviour of all three is one of each, so that what is shown of each  *)
(* holds beside the others (internal/agents).                              *)
THEOREM EachAsAlone == MCSpec => Spec /\ RuleSpec /\ ConfigSpec
<1>1. MCInit => Init /\ RuleInit /\ ConfigInit
  BY DEF MCInit
<1>2. QED
  BY <1>1, PartSteps, PTL DEF MCSpec, Spec, RuleSpec, ConfigSpec

(* What the requests of all three write keeps to the columns and statuses  *)
(* that their code knows.                                                  *)
THEOREM AgentTypes == MCSpec => []TypesOK
<1>1. TypeOK /\ RuleTypeOK /\ ConfigTypeOK => TypesOK
  BY DEF TypesOK
<1>2. QED
  BY <1>1, EachAsAlone, TypeCorrect, RulesServeAsAsked, OneIsActive, PTL
=============================================================================

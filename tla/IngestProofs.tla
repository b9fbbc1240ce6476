---------------------------- MODULE IngestProofs ----------------------------
(***************************************************************************)
(* Proofs about Ingest: last_message_at covers the stored messages and     *)
(* what is announced is stored, whatever overtakes or fails.               *)
(***************************************************************************)
EXTENDS Ingest, CatchUp, FiniteSetTheorems, TLAPS

\* The deletion of the account empties the tables.
Emptied == ~account => chats = {} /\ \A m \in Messages : sent[m] = 0

\* A goroutine with a message knows its chat, its time and its media ...
Wellformed ==
    \A d \in Deliveries :
        /\ dl[d].at \in {"chat", "contact", "message"} => dl[d].chat \in Chats
        /\ dl[d].at \in {"contact", "message", "clear", "insert", "status"} => dl[d].msg \in Messages
        /\ dl[d].at \in {"chat", "contact", "message"} /\ dl[d].msg # NoMessage => dl[d].time > 0
        /\ dl[d].at = "insert" => dl[d].left > 0

\* ... has seen to it that the chat is there and covers the message ...
ChatPrepared ==
    \A d \in Deliveries :
        account /\ dl[d].at \in {"contact", "message"} =>
            dl[d].chat \in chats /\ last[dl[d].chat] >= dl[d].time

\* ... and goes on only once the message is stored.
MessagePrepared ==
    \A d \in Deliveries :
        account /\ dl[d].at \in {"clear", "insert", "status", "publish"} /\ dl[d].msg # NoMessage
          => sent[dl[d].msg] # 0

Safe == Emptied /\ Wellformed /\ ChatPrepared /\ MessagePrepared /\ LastMessageCovers /\ AnnouncedIsStored

IInv == TypeOK /\ Safe

-----------------------------------------------------------------------------
\* Moving a goroutine changes the step of that goroutine and nothing else.
LEMMA GotoMoves ==
  ASSUME dl \in [Deliveries -> Delivery], NEW d \in Deliveries, NEW step \in Steps, Goto(d, step)
  PROVE  /\ dl' \in [Deliveries -> Delivery]
         /\ dl'[d].at = step /\ dl'[d].chat = dl[d].chat /\ dl'[d].msg = dl[d].msg
         /\ dl'[d].time = dl[d].time /\ dl'[d].left = dl[d].left
         /\ \A e \in Deliveries : e # d => dl'[e] = dl[e]
BY DEF Goto, Delivery, Steps

LEMMA EndMoves ==
  ASSUME dl \in [Deliveries -> Delivery], NEW d \in Deliveries, End(d)
  PROVE  /\ dl' \in [Deliveries -> Delivery]
         /\ dl'[d].at = "idle"
         /\ \A e \in Deliveries : e # d => dl'[e] = dl[e]
<1>1. Idle \in Delivery
  BY ConstantsAssumption DEF ConstantsAssumption, Idle, Delivery, Steps
<1>2. QED
  BY <1>1 DEF End, Idle

LEMMA InitIInv == Init => IInv
<1> SUFFICES ASSUME Init PROVE IInv
    OBVIOUS
<1>1. Idle \in Delivery /\ Idle.at = "idle"
  BY ConstantsAssumption DEF ConstantsAssumption, Idle, Delivery, Steps
<1>2. TypeOK
  BY <1>1, ConstantsAssumption DEF ConstantsAssumption, TypeOK, Init
<1>3. \A d \in Deliveries : dl[d].at = "idle"
  BY <1>1 DEF Init
<1>4. Emptied /\ LastMessageCovers /\ AnnouncedIsStored
  BY DEF Init, Emptied, LastMessageCovers, AnnouncedIsStored
<1>5. Wellformed /\ ChatPrepared /\ MessagePrepared
  BY <1>3 DEF Wellformed, ChatPrepared, MessagePrepared
<1>6. QED
  BY <1>2, <1>4, <1>5 DEF IInv, Safe

\* An event that ends early leaves the tables as they are.
LEMMA EarlyEnd ==
  ASSUME IInv, NEW d \in Deliveries, Fails(d) \/ Refused(d), muddled' \in [Messages -> BOOLEAN]
  PROVE  IInv'
<1>1. End(d) /\ UNCHANGED <<tables, announced, emits, stops>>
  BY DEF Fails, Refused
<1>2. dl \in [Deliveries -> Delivery]
  BY DEF IInv, TypeOK
<1>3. /\ dl' \in [Deliveries -> Delivery]
      /\ dl'[d].at = "idle"
      /\ \A e \in Deliveries : e # d => dl'[e] = dl[e]
  BY <1>1, <1>2, EndMoves
<1>4. faults' \in 0..MaxFaults
  BY ConstantsAssumption
     DEF ConstantsAssumption, Fails, Refused, Fault, NoFault, IInv, TypeOK
<1>5. TypeOK'
  BY <1>1, <1>3, <1>4 DEF IInv, TypeOK, tables
<1>6. Emptied' /\ LastMessageCovers' /\ AnnouncedIsStored'
  BY <1>1 DEF IInv, Safe, tables, Emptied, LastMessageCovers, AnnouncedIsStored
<1>7. Wellformed' /\ ChatPrepared' /\ MessagePrepared'
  BY <1>1, <1>3 DEF IInv, Safe, tables, Wellformed, ChatPrepared, MessagePrepared
<1>8. QED
  BY <1>5, <1>6, <1>7 DEF IInv, Safe

-----------------------------------------------------------------------------
LEMMA EmitIInv ==
  ASSUME IInv, NEW d \in Deliveries, EmitChat(d) \/ EmitMessage(d)
  PROVE  IInv'
<1>1. PICK r \in Delivery :
        /\ dl' = [dl EXCEPT ![d] = r]
        /\ r.at = "chat" /\ r.chat \in Chats
        /\ r.msg # NoMessage => r.time > 0
  <2>1. CASE EmitChat(d)
    <3>1. PICK c \in Chats, t \in 0..MaxTime :
            dl' = [dl EXCEPT ![d] = [at |-> "chat", chat |-> c, msg |-> NoMessage,
                                     time |-> t, left |-> 0]]
      BY <2>1 DEF EmitChat
    <3>2. [at |-> "chat", chat |-> c, msg |-> NoMessage, time |-> t, left |-> 0] \in Delivery
      BY DEF Delivery, Steps
    <3>3. QED
      BY <3>1, <3>2
  <2>2. CASE EmitMessage(d)
    <3>1. PICK c \in Chats, m \in Messages, t \in Times :
            dl' = [dl EXCEPT ![d] = [at |-> "chat", chat |-> c, msg |-> m,
                                     time |-> t, left |-> MediaCount[m]]]
      BY <2>2 DEF EmitMessage
    <3>2. t \in 0..MaxTime /\ t > 0 /\ MediaCount[m] \in Nat
      BY ConstantsAssumption DEF ConstantsAssumption, Times
    <3>3. [at |-> "chat", chat |-> c, msg |-> m, time |-> t, left |-> MediaCount[m]] \in Delivery
      BY <3>2 DEF Delivery, Steps
    <3>4. QED
      BY <3>1, <3>2, <3>3
  <2>3. QED
    BY <2>1, <2>2
<1>2. UNCHANGED <<tables, announced, muddled, faults, stops>> /\ emits' \in 0..MaxEmits
  BY ConstantsAssumption DEF ConstantsAssumption, EmitChat, EmitMessage, IInv, TypeOK
<1>3. dl' \in [Deliveries -> Delivery] /\ dl'[d] = r /\ \A e \in Deliveries : e # d => dl'[e] = dl[e]
  BY <1>1 DEF IInv, TypeOK
<1>4. TypeOK'
  BY <1>2, <1>3 DEF IInv, TypeOK, tables
<1>5. Emptied' /\ LastMessageCovers' /\ AnnouncedIsStored'
  BY <1>2 DEF IInv, Safe, tables, Emptied, LastMessageCovers, AnnouncedIsStored
<1>6. Wellformed' /\ ChatPrepared' /\ MessagePrepared'
  BY <1>1, <1>2, <1>3 DEF IInv, Safe, tables, Wellformed, ChatPrepared, MessagePrepared
<1>7. QED
  BY <1>4, <1>5, <1>6 DEF IInv, Safe

LEMMA UpsertChatIInv ==
  ASSUME IInv, NEW d \in Deliveries, UpsertChat(d)
  PROVE  IInv'
<1> DEFINE c == dl[d].chat
           next == IF dl[d].msg = NoMessage THEN "publish" ELSE "contact"
<1>1. CASE Fails(d) \/ Refused(d)
  <2>1. muddled' \in [Messages -> BOOLEAN]
    BY UpsertChat(d) DEF UpsertChat, IInv, TypeOK
  <2>2. QED
    BY <1>1, <2>1, EarlyEnd
<1>2. CASE ~(Fails(d) \/ Refused(d))
  <2>1. /\ dl[d].at = "chat" /\ account
        /\ chats' = chats \cup {c}
        /\ last' = [last EXCEPT ![c] = Newer(last[c], dl[d].time)]
        /\ Goto(d, next)
        /\ UNCHANGED <<account, home, sent, media, announced, emits, stops, muddled, faults>>
    BY <1>2 DEF UpsertChat, NoFault
  <2>2. c \in Chats /\ dl[d].time \in 0..MaxTime /\ dl[d].msg \in Messages \cup {NoMessage}
    BY <2>1 DEF IInv, Safe, TypeOK, Wellformed, Delivery
  <2>3. /\ dl' \in [Deliveries -> Delivery]
        /\ dl'[d].at = next /\ dl'[d].chat = c /\ dl'[d].msg = dl[d].msg
        /\ dl'[d].time = dl[d].time /\ dl'[d].left = dl[d].left
        /\ \A e \in Deliveries : e # d => dl'[e] = dl[e]
    <3>1. dl \in [Deliveries -> Delivery] /\ next \in Steps
      BY DEF IInv, TypeOK, Steps
    <3> HIDE DEF next
    <3>2. QED
      BY <2>1, <3>1, GotoMoves
  <2>4. /\ last' \in [Chats -> 0..MaxTime]
        /\ last'[c] >= dl[d].time
        /\ \A x \in Chats : last'[x] >= last[x]
    BY <2>1, <2>2, ConstantsAssumption DEF ConstantsAssumption, Newer, IInv, TypeOK
  <2>5. TypeOK'
    BY <2>1, <2>2, <2>3, <2>4 DEF IInv, TypeOK
  <2>6. Emptied' /\ AnnouncedIsStored'
    BY <2>1 DEF IInv, Safe, Emptied, AnnouncedIsStored
  <2>7. LastMessageCovers'
    <3> SUFFICES ASSUME NEW m \in Messages, sent[m] # 0
                 PROVE  home[m] \in chats' /\ last'[home[m]] >= sent[m]
      BY <2>1 DEF LastMessageCovers
    <3>1. home[m] \in chats /\ last[home[m]] >= sent[m] /\ home[m] \in Chats
      BY DEF IInv, Safe, LastMessageCovers, TypeOK
    <3>2. last[home[m]] \in Int /\ last'[home[m]] \in Int /\ sent[m] \in Int
      BY <2>4, <3>1 DEF IInv, TypeOK
    <3>3. QED
      BY <2>1, <2>4, <3>1, <3>2
  <2>8. Wellformed'
    BY <2>1, <2>2, <2>3 DEF IInv, Safe, Wellformed
  <2>9. ChatPrepared'
    <3> SUFFICES ASSUME NEW e \in Deliveries, dl'[e].at \in {"contact", "message"}
                 PROVE  dl'[e].chat \in chats' /\ last'[dl'[e].chat] >= dl'[e].time
      BY DEF ChatPrepared
    <3>1. CASE e = d
      BY <2>1, <2>3, <2>4, <3>1
    <3>2. CASE e # d
      <4>1. /\ dl'[e] = dl[e] /\ dl[e].chat \in chats /\ dl[e].chat \in Chats
            /\ last[dl[e].chat] >= dl[e].time
        BY <2>1, <2>3, <3>2 DEF IInv, Safe, ChatPrepared, Wellformed
      <4>2. last[dl[e].chat] \in Int /\ last'[dl[e].chat] \in Int /\ dl[e].time \in Int
        BY <2>4, <4>1 DEF IInv, TypeOK, Delivery
      <4>3. QED
        BY <2>1, <2>4, <4>1, <4>2
    <3>3. QED
      BY <3>1, <3>2
  <2>10. MessagePrepared'
    BY <2>1, <2>3 DEF IInv, Safe, MessagePrepared
  <2>11. QED
    BY <2>5, <2>6, <2>7, <2>8, <2>9, <2>10 DEF IInv, Safe
<1>3. QED
  BY <1>1, <1>2

\* A statement that touches no table of this module moves its goroutine on.
LEMMA MoveIInv ==
  ASSUME IInv, NEW d \in Deliveries, NEW step \in Steps, Goto(d, step),
         UNCHANGED <<tables, announced, muddled, emits, faults, stops>>,
         \/ dl[d].at = "contact" /\ step = "message"
         \/ dl[d].at = "status" /\ step = "publish"
  PROVE  IInv'
<1>1. /\ dl' \in [Deliveries -> Delivery]
      /\ dl'[d].at = step /\ dl'[d].chat = dl[d].chat /\ dl'[d].msg = dl[d].msg
      /\ dl'[d].time = dl[d].time /\ dl'[d].left = dl[d].left
      /\ \A e \in Deliveries : e # d => dl'[e] = dl[e]
  <2>1. dl \in [Deliveries -> Delivery]
    BY DEF IInv, TypeOK
  <2>2. QED
    BY <2>1, GotoMoves
<1>2. TypeOK'
  BY <1>1 DEF IInv, TypeOK, tables
<1>3. Emptied' /\ LastMessageCovers' /\ AnnouncedIsStored'
  BY DEF IInv, Safe, tables, Emptied, LastMessageCovers, AnnouncedIsStored
<1>4. Wellformed' /\ ChatPrepared' /\ MessagePrepared'
  BY <1>1 DEF IInv, Safe, tables, Wellformed, ChatPrepared, MessagePrepared
<1>5. QED
  BY <1>2, <1>3, <1>4 DEF IInv, Safe

LEMMA UpsertContactIInv ==
  ASSUME IInv, NEW d \in Deliveries, UpsertContact(d)
  PROVE  IInv'
<1>1. CASE Fails(d) \/ Refused(d)
  <2>1. muddled' \in [Messages -> BOOLEAN]
    BY UpsertContact(d) DEF UpsertContact, IInv, TypeOK
  <2>2. QED
    BY <1>1, <2>1, EarlyEnd
<1>2. CASE ~(Fails(d) \/ Refused(d))
  <2>1. /\ dl[d].at = "contact" /\ Goto(d, "message") /\ "message" \in Steps
        /\ UNCHANGED <<tables, announced, muddled, emits, faults, stops>>
    BY <1>2 DEF UpsertContact, NoFault, Steps
  <2>2. QED
    BY <2>1, MoveIInv
<1>3. QED
  BY <1>1, <1>2

LEMMA UpdateStatusIInv ==
  ASSUME IInv, NEW d \in Deliveries, UpdateStatus(d)
  PROVE  IInv'
<1>1. CASE Fails(d)
  <2>1. muddled' \in [Messages -> BOOLEAN]
    BY UpdateStatus(d) DEF UpdateStatus, IInv, TypeOK
  <2>2. QED
    BY <1>1, <2>1, EarlyEnd
<1>2. CASE ~Fails(d)
  <2>1. /\ dl[d].at = "status" /\ Goto(d, "publish") /\ "publish" \in Steps
        /\ UNCHANGED <<tables, announced, muddled, emits, faults, stops>>
    BY <1>2 DEF UpdateStatus, NoFault, Steps
  <2>2. QED
    BY <2>1, MoveIInv
<1>3. QED
  BY <1>1, <1>2

LEMMA UpsertMessageIInv ==
  ASSUME IInv, NEW d \in Deliveries, UpsertMessage(d)
  PROVE  IInv'
<1> DEFINE m == dl[d].msg
<1>1. CASE Fails(d) \/ Refused(d)
  <2>1. muddled' \in [Messages -> BOOLEAN]
    BY UpsertMessage(d) DEF UpsertMessage, IInv, TypeOK
  <2>2. QED
    BY <1>1, <2>1, EarlyEnd
<1>2. CASE ~(Fails(d) \/ Refused(d))
  <2>1. /\ dl[d].at = "message" /\ dl[d].chat \in chats
        /\ sent' = [sent EXCEPT ![m] = IF sent[m] = 0 THEN dl[d].time ELSE sent[m]]
        /\ home' = [home EXCEPT ![m] = IF sent[m] = 0 THEN dl[d].chat ELSE home[m]]
        /\ Goto(d, "clear")
        /\ UNCHANGED <<account, chats, last, media, announced, emits, stops, muddled, faults>>
    BY <1>2 DEF UpsertMessage, NoFault
  <2>2. /\ m \in Messages /\ dl[d].time \in 0..MaxTime /\ dl[d].chat \in Chats
        /\ (m # NoMessage => dl[d].time > 0)
    BY <2>1 DEF IInv, Safe, TypeOK, Wellformed, Delivery
  <2>3. m # NoMessage
    BY <2>2, ConstantsAssumption DEF ConstantsAssumption
  <2>4. account /\ last[dl[d].chat] >= dl[d].time
    BY <2>1 DEF IInv, Safe, Emptied, ChatPrepared, TypeOK
  <2>5. /\ dl' \in [Deliveries -> Delivery]
        /\ dl'[d].at = "clear" /\ dl'[d].msg = m
        /\ \A e \in Deliveries : e # d => dl'[e] = dl[e]
    <3>1. dl \in [Deliveries -> Delivery] /\ "clear" \in Steps
      BY DEF IInv, TypeOK, Steps
    <3>2. QED
      BY <2>1, <3>1, GotoMoves
  <2>6. /\ sent' \in [Messages -> 0..MaxTime] /\ home' \in [Messages -> Chats \cup {NoChat}]
        /\ sent'[m] # 0
        /\ \A n \in Messages : sent[n] # 0 => sent'[n] # 0
        /\ \A n \in Messages : n # m => sent'[n] = sent[n] /\ home'[n] = home[n]
    BY <2>1, <2>2, <2>3 DEF IInv, TypeOK
  <2>7. TypeOK'
    BY <2>1, <2>5, <2>6 DEF IInv, TypeOK
  <2>8. Emptied' /\ AnnouncedIsStored'
    BY <2>1, <2>4, <2>6 DEF IInv, Safe, Emptied, AnnouncedIsStored, TypeOK
  <2>9. LastMessageCovers'
    <3> SUFFICES ASSUME NEW n \in Messages, sent'[n] # 0
                 PROVE  home'[n] \in chats /\ last[home'[n]] >= sent'[n]
      BY <2>1 DEF LastMessageCovers
    <3>1. CASE n = m /\ sent[m] = 0
      BY <2>1, <2>2, <2>4, <3>1 DEF IInv, TypeOK
    <3>2. CASE n # m \/ sent[m] # 0
      <4>1. sent'[n] = sent[n] /\ home'[n] = home[n]
        BY <2>1, <2>6, <3>2 DEF IInv, TypeOK
      <4>2. QED
        BY <4>1 DEF IInv, Safe, LastMessageCovers
    <3>3. QED
      BY <3>1, <3>2
  <2>10. Wellformed' /\ ChatPrepared'
    BY <2>1, <2>2, <2>5 DEF IInv, Safe, Wellformed, ChatPrepared
  <2>11. MessagePrepared'
    <3> SUFFICES ASSUME NEW e \in Deliveries, dl'[e].msg # NoMessage, account,
                        dl'[e].at \in {"clear", "insert", "status", "publish"}
                 PROVE  sent'[dl'[e].msg] # 0
      BY <2>1 DEF MessagePrepared
    <3>1. CASE e = d
      BY <2>5, <2>6, <3>1
    <3>2. CASE e # d
      BY <2>5, <2>6, <3>2 DEF IInv, Safe, MessagePrepared, TypeOK, Delivery
    <3>3. QED
      BY <3>1, <3>2
  <2>12. QED
    BY <2>7, <2>8, <2>9, <2>10, <2>11 DEF IInv, Safe
<1>3. QED
  BY <1>1, <1>2

\* A step of ReplaceMedia: no other table changes.
LEMMA MediaIInv ==
  ASSUME IInv, NEW d \in Deliveries, NEW r \in Delivery,
         dl[d].at \in {"clear", "insert"}, r.msg = dl[d].msg,
         r.at \in {"insert", "status"}, r.at = "insert" => r.left > 0,
         dl' = [dl EXCEPT ![d] = r],
         media' \in [Messages -> Nat], muddled' \in [Messages -> BOOLEAN],
         UNCHANGED <<account, chats, last, home, sent, announced, emits, faults, stops>>
  PROVE  IInv'
<1>1. /\ dl' \in [Deliveries -> Delivery] /\ dl'[d] = r
      /\ \A e \in Deliveries : e # d => dl'[e] = dl[e]
  BY DEF IInv, TypeOK
<1>2. TypeOK'
  BY <1>1 DEF IInv, TypeOK
<1>3. Emptied' /\ LastMessageCovers' /\ AnnouncedIsStored'
  BY DEF IInv, Safe, Emptied, LastMessageCovers, AnnouncedIsStored
<1>4. Wellformed' /\ ChatPrepared' /\ MessagePrepared'
  BY <1>1 DEF IInv, Safe, Wellformed, ChatPrepared, MessagePrepared
<1>5. QED
  BY <1>2, <1>3, <1>4 DEF IInv, Safe

LEMMA ClearMediaIInv ==
  ASSUME IInv, NEW d \in Deliveries, ClearMedia(d)
  PROVE  IInv'
<1> DEFINE m == dl[d].msg
           step == IF dl[d].left = 0 THEN "status" ELSE "insert"
           r == [dl[d] EXCEPT !.at = step]
<1>1. muddled' \in [Messages -> BOOLEAN]
  BY DEF ClearMedia, IInv, TypeOK
<1>2. CASE Fails(d)
  BY <1>1, <1>2, EarlyEnd
<1>3. CASE ~Fails(d)
  <2>1. /\ dl[d].at = "clear"
        /\ media' = [media EXCEPT ![m] = 0]
        /\ Goto(d, step)
        /\ UNCHANGED <<account, chats, last, home, sent, announced, emits, faults, stops>>
    BY <1>3 DEF ClearMedia, NoFault
  <2>2. dl[d] \in Delivery /\ dl[d].left \in Nat
    BY DEF IInv, TypeOK, Delivery
  <2>3. r \in Delivery /\ r.msg = dl[d].msg /\ r.at \in {"insert", "status"} /\ (r.at = "insert" => r.left > 0)
    BY <2>2 DEF Delivery, Steps
  <2>4. dl' = [dl EXCEPT ![d] = r]
    BY <2>1 DEF Goto
  <2>5. media' \in [Messages -> Nat]
    BY <2>1 DEF IInv, TypeOK
  <2> HIDE DEF r
  <2>6. QED
    BY <1>1, <2>1, <2>3, <2>4, <2>5, MediaIInv
<1>4. QED
  BY <1>2, <1>3

LEMMA InsertMediaIInv ==
  ASSUME IInv, NEW d \in Deliveries, InsertMedia(d)
  PROVE  IInv'
<1> DEFINE m == dl[d].msg
           step == IF dl[d].left = 1 THEN "status" ELSE "insert"
           r == [at |-> step, chat |-> dl[d].chat, msg |-> m, time |-> dl[d].time,
                 left |-> dl[d].left - 1]
<1>1. muddled' \in [Messages -> BOOLEAN]
  BY DEF InsertMedia, IInv, TypeOK
<1>2. CASE Fails(d) \/ Refused(d)
  BY <1>1, <1>2, EarlyEnd
<1>3. CASE ~(Fails(d) \/ Refused(d))
  <2>1. /\ dl[d].at = "insert"
        /\ media' = [media EXCEPT ![m] = media[m] + 1]
        /\ dl' = [dl EXCEPT ![d] = r]
        /\ UNCHANGED <<account, chats, last, home, sent, announced, emits, faults, stops>>
    BY <1>3 DEF InsertMedia, NoFault
  <2>2. /\ dl[d].left \in Nat /\ dl[d].left > 0 /\ m \in Messages
        /\ dl[d].chat \in Chats \cup {NoChat} /\ dl[d].time \in 0..MaxTime
    BY <2>1 DEF IInv, Safe, Wellformed, TypeOK, Delivery
  <2>3. r \in Delivery /\ r.msg = dl[d].msg /\ r.at \in {"insert", "status"} /\ (r.at = "insert" => r.left > 0)
    BY <2>1, <2>2 DEF Delivery, Steps
  <2>4. media' \in [Messages -> Nat]
    BY <2>1, <2>2 DEF IInv, TypeOK
  <2> HIDE DEF r
  <2>5. QED
    BY <1>1, <2>1, <2>3, <2>4, MediaIInv
<1>4. QED
  BY <1>2, <1>3

LEMMA PublishIInv ==
  ASSUME IInv, NEW d \in Deliveries, Publish(d)
  PROVE  IInv'
<1>1. /\ dl[d].at = "publish" /\ End(d)
      /\ announced' = announced \cup ({dl[d].msg} \ {NoMessage})
      /\ UNCHANGED <<tables, muddled, emits, faults, stops>>
  BY DEF Publish
<1>2. /\ dl' \in [Deliveries -> Delivery]
      /\ dl'[d].at = "idle"
      /\ \A e \in Deliveries : e # d => dl'[e] = dl[e]
  <2>1. dl \in [Deliveries -> Delivery]
    BY DEF IInv, TypeOK
  <2>2. QED
    BY <1>1, <2>1, EndMoves
<1>3. TypeOK'
  <2>1. dl[d].msg \in Messages \cup {NoMessage}
    BY DEF IInv, TypeOK, Delivery
  <2>2. QED
    BY <1>1, <1>2, <2>1 DEF IInv, TypeOK, tables
<1>4. Emptied' /\ LastMessageCovers'
  BY <1>1 DEF IInv, Safe, tables, Emptied, LastMessageCovers
<1>5. AnnouncedIsStored'
  BY <1>1 DEF IInv, Safe, tables, AnnouncedIsStored, MessagePrepared
<1>6. Wellformed' /\ ChatPrepared' /\ MessagePrepared'
  BY <1>1, <1>2 DEF IInv, Safe, tables, Wellformed, ChatPrepared, MessagePrepared
<1>7. QED
  BY <1>3, <1>4, <1>5, <1>6 DEF IInv, Safe

-----------------------------------------------------------------------------
LEMMA DeleteAccountIInv ==
  ASSUME IInv, DeleteAccount
  PROVE  IInv'
<1>1. TypeOK'
  <2>1. account' \in BOOLEAN
    BY DEF DeleteAccount
  <2>2. /\ last' \in [Chats -> 0..MaxTime]
        /\ home' \in [Messages -> Chats \cup {NoChat}]
        /\ sent' \in [Messages -> 0..MaxTime]
        /\ media' \in [Messages -> Nat]
    BY ConstantsAssumption DEF ConstantsAssumption, DeleteAccount
  <2>3. chats' = {} /\ UNCHANGED <<announced, dl, muddled, emits, faults, stops>>
    BY DEF DeleteAccount
  <2>4. QED
    BY <2>1, <2>2, <2>3 DEF IInv, TypeOK
<1>2. Safe'
  BY DEF DeleteAccount, IInv, Safe, Emptied, Wellformed, ChatPrepared, MessagePrepared,
         LastMessageCovers, AnnouncedIsStored
<1>3. QED
  BY <1>1, <1>2 DEF IInv

LEMMA RestartIInv ==
  ASSUME IInv, Restart
  PROVE  IInv'
<1>1. Idle \in Delivery /\ Idle.at = "idle"
  BY ConstantsAssumption DEF ConstantsAssumption, Idle, Delivery, Steps
<1>2. /\ dl' \in [Deliveries -> Delivery] /\ \A d \in Deliveries : dl'[d].at = "idle"
      /\ UNCHANGED <<tables, announced, emits, faults>>
  BY <1>1 DEF Restart
<1>3. muddled' \in [Messages -> BOOLEAN]
  <2>1. \A m \in Messages : (muddled[m] \/ \E d \in Deliveries : InMedia(d, m)) \in BOOLEAN
    BY DEF IInv, TypeOK
  <2>2. QED
    BY <2>1 DEF Restart
<1>4. TypeOK'
  BY <1>2, <1>3, ConstantsAssumption DEF ConstantsAssumption, Restart, IInv, TypeOK, tables
<1>5. Safe'
  BY <1>2 DEF IInv, Safe, tables, Emptied, Wellformed, ChatPrepared, MessagePrepared,
              LastMessageCovers, AnnouncedIsStored
<1>6. QED
  BY <1>4, <1>5 DEF IInv

LEMMA StepIInv ==
  ASSUME IInv, [Next]_vars
  PROVE  IInv'
<1>1. ASSUME NEW d \in Deliveries, Deliver(d) PROVE IInv'
  BY <1>1, UpsertChatIInv, UpsertContactIInv, UpsertMessageIInv, ClearMediaIInv,
     InsertMediaIInv, UpdateStatusIInv, PublishIInv DEF Deliver
<1>2. CASE UNCHANGED vars
  BY <1>2 DEF vars, tables, IInv, TypeOK, Safe, Emptied, Wellformed, ChatPrepared,
              MessagePrepared, LastMessageCovers, AnnouncedIsStored
<1>3. QED
  BY <1>1, <1>2, EmitIInv, DeleteAccountIInv, RestartIInv DEF Next

(* For any number of chats, messages, goroutines, events, faults and       *)
(* restarts the list of chats shows every chat at or above the place of    *)
(* each of its stored messages (UpsertChat before UpsertMessage, and the   *)
(* CASE of UpsertChat).                                                    *)
THEOREM Covered == Spec => []LastMessageCovers
<1>1. IInv => LastMessageCovers
  BY DEF IInv, Safe
<1>2. QED
  BY <1>1, InitIInv, StepIInv, PTL DEF Spec

(* For the same parameters a message that was announced is stored, and the *)
(* variables have their types (handleMessageReceived).                     *)
THEOREM Announced == Spec => [](TypeOK /\ AnnouncedIsStored)
<1>1. IInv => TypeOK /\ AnnouncedIsStored
  BY DEF IInv, Safe
<1>2. QED
  BY <1>1, InitIInv, StepIInv, PTL DEF Spec
-----------------------------------------------------------------------------
(* The media of a message.                                                 *)

\* A goroutine that has not come to the rows of the media has all to insert ...
MediaAhead ==
    \A d \in Deliveries :
        dl[d].at \in {"chat", "contact", "message", "clear"} /\ dl[d].msg \in Messages
          => dl[d].left = MediaCount[dl[d].msg]

Inserts(d, m) == dl[d].at = "insert" /\ dl[d].msg = m

\* ... and one that inserts them has no rival and lacks what is not there yet.
OneInserts ==
    \A m \in Messages, d \in Deliveries :
        account /\ ~muddled[m] /\ Inserts(d, m)
          => /\ media[m] + dl[d].left = MediaCount[m]
             /\ \A e \in Deliveries \ {d} : ~Inserts(e, m)

MediaHolds == MediaAhead /\ OneInserts /\ MediaExact

\* A goroutine takes a step away from the media, or to them.
LEMMA AwayFromMedia ==
  ASSUME IInv, MediaHolds, NEW d \in Deliveries, NEW r \in Delivery,
         dl' = [dl EXCEPT ![d] = r],
         dl[d].at \notin {"clear", "insert"}, r.at # "insert",
         r.at \in {"chat", "contact", "message", "clear"} /\ r.msg \in Messages
           => r.left = MediaCount[r.msg],
         \A m \in Messages : sent'[m] = sent[m] \/ (r.at = "clear" /\ r.msg = m),
         UNCHANGED <<account, media, muddled>>
  PROVE  MediaHolds'
<1>1. dl'[d] = r /\ \A e \in Deliveries : e # d => dl'[e] = dl[e]
  BY DEF IInv, TypeOK
<1>2. MediaAhead'
  BY <1>1 DEF MediaHolds, MediaAhead
<1>3. \A e \in Deliveries, m \in Messages : Inserts(e, m)' => Inserts(e, m) /\ dl'[e] = dl[e]
  BY <1>1 DEF Inserts
<1>4. OneInserts'
  BY <1>3 DEF MediaHolds, OneInserts
<1>5. \A e \in Deliveries, m \in Messages : InMedia(e, m) => InMedia(e, m)'
  BY <1>1 DEF InMedia
<1>6. MediaExact'
  <2> SUFFICES ASSUME NEW m \in Messages, sent'[m] # 0, ~muddled[m],
                      \A e \in Deliveries : ~InMedia(e, m)'
               PROVE  media[m] = MediaCount[m]
    BY DEF MediaExact
  <2>1. sent'[m] = sent[m]
    BY <1>1 DEF InMedia
  <2>2. QED
    BY <1>5, <2>1 DEF MediaHolds, MediaExact
<1>7. QED
  BY <1>2, <1>4, <1>6 DEF MediaHolds

\* A goroutine ends early: at the media of a message it leaves them muddled.
LEMMA EndsEarly ==
  ASSUME IInv, MediaHolds, NEW d \in Deliveries, Fails(d) \/ Refused(d),
         IF dl[d].at \in {"clear", "insert"}
         THEN muddled' = [muddled EXCEPT ![dl[d].msg] = TRUE]
         ELSE UNCHANGED muddled
  PROVE  MediaHolds'
<1>1. Idle \in Delivery /\ Idle.at = "idle"
  BY ConstantsAssumption DEF ConstantsAssumption, Idle, Delivery, Steps
<1>2. dl' = [dl EXCEPT ![d] = Idle] /\ UNCHANGED tables
  BY DEF Fails, Refused, End
<1>3. CASE dl[d].at \notin {"clear", "insert"}
  BY <1>1, <1>2, <1>3, AwayFromMedia DEF tables
<1>4. CASE dl[d].at \in {"clear", "insert"}
  <2>1. dl'[d] = Idle /\ \A e \in Deliveries : e # d => dl'[e] = dl[e]
    BY <1>2 DEF IInv, TypeOK
  <2>2. dl[d].msg \in Messages
    BY <1>4 DEF IInv, Safe, Wellformed
  <2>3. \A m \in Messages : ~muddled'[m] => ~muddled[m] /\ m # dl[d].msg
    BY <1>4, <2>2 DEF IInv, TypeOK
  <2>4. MediaAhead'
    BY <1>1, <2>1 DEF MediaHolds, MediaAhead
  <2>5. \A e \in Deliveries, m \in Messages : Inserts(e, m)' => Inserts(e, m) /\ dl'[e] = dl[e]
    BY <1>1, <2>1 DEF Inserts
  <2>6. OneInserts'
    BY <1>2, <2>3, <2>5 DEF MediaHolds, OneInserts, tables
  <2>7. \A e \in Deliveries, m \in Messages : m # dl[d].msg /\ InMedia(e, m) => InMedia(e, m)'
    BY <2>1 DEF InMedia
  <2>8. MediaExact'
    <3> SUFFICES ASSUME NEW m \in Messages, sent'[m] # 0, ~muddled'[m],
                        \A e \in Deliveries : ~InMedia(e, m)'
                 PROVE  media'[m] = MediaCount[m]
      BY DEF MediaExact
    <3>1. ~muddled[m] /\ m # dl[d].msg
      BY <2>3
    <3>2. \A e \in Deliveries : ~InMedia(e, m)
      BY <2>7, <3>1
    <3>3. QED
      BY <1>2, <3>1, <3>2 DEF MediaHolds, MediaExact, tables
  <2>9. QED
    BY <2>4, <2>6, <2>8 DEF MediaHolds
<1>5. QED
  BY <1>3, <1>4

LEMMA GotoRecord ==
  ASSUME IInv, NEW d \in Deliveries, NEW step \in Steps, Goto(d, step)
  PROVE  \E r \in Delivery : /\ dl' = [dl EXCEPT ![d] = r]
                             /\ r.at = step /\ r.msg = dl[d].msg /\ r.left = dl[d].left
<1>1. [dl[d] EXCEPT !.at = step] \in Delivery
  BY DEF IInv, TypeOK, Delivery
<1>2. dl' = [dl EXCEPT ![d] = [dl[d] EXCEPT !.at = step]]
  BY DEF Goto
<1>3. QED
  BY <1>1, <1>2 DEF IInv, TypeOK, Delivery

\* The statements of the chat, the contact, the message and the status, and
\* the update for the clients.
LEMMA PersistMedia ==
  ASSUME IInv, MediaHolds, NEW d \in Deliveries,
         UpsertChat(d) \/ UpsertContact(d) \/ UpsertMessage(d) \/ UpdateStatus(d)
  PROVE  MediaHolds'
<1>1. /\ dl[d].at \in {"chat", "contact", "message", "status"}
      /\ UNCHANGED muddled
  BY DEF UpsertChat, UpsertContact, UpsertMessage, UpdateStatus
<1>2. CASE Fails(d) \/ Refused(d)
  BY <1>1, <1>2, EndsEarly
<1>3. CASE ~(Fails(d) \/ Refused(d))
  <2>1. PICK step \in Steps :
          /\ Goto(d, step)
          /\ step # "insert"
          /\ dl[d].at = "status" => step = "publish"
          /\ UNCHANGED sent \/ (/\ dl[d].at = "message" /\ step = "clear"
                                /\ sent' = [sent EXCEPT ![dl[d].msg] = IF @ = 0 THEN dl[d].time ELSE @])
    <3>1. CASE UpsertChat(d)
      BY <1>3, <3>1 DEF UpsertChat, Steps
    <3>2. CASE UpsertContact(d) \/ UpdateStatus(d)
      BY <1>3, <3>2 DEF UpsertContact, UpdateStatus, Steps, tables
    <3>3. CASE UpsertMessage(d)
      BY <1>3, <3>3 DEF UpsertMessage, Steps
    <3>4. QED
      BY <3>1, <3>2, <3>3
  <2>2. UNCHANGED <<account, media>>
    BY <1>3 DEF UpsertChat, UpsertContact, UpsertMessage, UpdateStatus, tables
  <2>3. PICK r \in Delivery : /\ dl' = [dl EXCEPT ![d] = r]
                              /\ r.at = step /\ r.msg = dl[d].msg /\ r.left = dl[d].left
    BY <2>1, GotoRecord
  <2>4. r.at \in {"chat", "contact", "message", "clear"} /\ r.msg \in Messages
          => r.left = MediaCount[r.msg]
    BY <1>1, <2>1, <2>3 DEF MediaHolds, MediaAhead
  <2>5. \A m \in Messages : sent'[m] = sent[m] \/ (r.at = "clear" /\ r.msg = m)
    BY <2>1, <2>3 DEF IInv, TypeOK
  <2>6. QED
    BY <1>1, <2>1, <2>2, <2>3, <2>4, <2>5, AwayFromMedia
<1>4. QED
  BY <1>2, <1>3

LEMMA EmitMedia ==
  ASSUME IInv, MediaHolds, NEW d \in Deliveries, EmitChat(d) \/ EmitMessage(d) \/ Publish(d)
  PROVE  MediaHolds'
<1>1. PICK r \in Delivery :
        /\ dl' = [dl EXCEPT ![d] = r] /\ r.at \in {"idle", "chat"}
        /\ r.at = "chat" /\ r.msg \in Messages => r.left = MediaCount[r.msg]
  <2>1. CASE EmitChat(d)
    <3>1. PICK c \in Chats, t \in 0..MaxTime :
            dl' = [dl EXCEPT ![d] = [at |-> "chat", chat |-> c, msg |-> NoMessage,
                                     time |-> t, left |-> 0]]
      BY <2>1 DEF EmitChat
    <3>2. [at |-> "chat", chat |-> c, msg |-> NoMessage, time |-> t, left |-> 0] \in Delivery
      BY DEF Delivery, Steps
    <3>3. QED
      BY <3>1, <3>2, ConstantsAssumption DEF ConstantsAssumption
  <2>2. CASE EmitMessage(d)
    <3>1. PICK c \in Chats, m \in Messages, t \in Times :
            dl' = [dl EXCEPT ![d] = [at |-> "chat", chat |-> c, msg |-> m,
                                     time |-> t, left |-> MediaCount[m]]]
      BY <2>2 DEF EmitMessage
    <3>2. t \in 0..MaxTime /\ MediaCount[m] \in Nat
      BY ConstantsAssumption DEF ConstantsAssumption, Times
    <3>3. [at |-> "chat", chat |-> c, msg |-> m, time |-> t, left |-> MediaCount[m]] \in Delivery
      BY <3>2 DEF Delivery, Steps
    <3>4. QED
      BY <3>1, <3>3
  <2>3. CASE Publish(d)
    <3>1. Idle \in Delivery /\ Idle.at = "idle"
      BY ConstantsAssumption DEF ConstantsAssumption, Idle, Delivery, Steps
    <3>2. QED
      BY <2>3, <3>1 DEF Publish, End
  <2>4. QED
    BY <2>1, <2>2, <2>3
<1>2. dl[d].at \notin {"clear", "insert"} /\ UNCHANGED <<account, sent, media, muddled>>
  BY DEF EmitChat, EmitMessage, Publish, Idle, tables
<1>3. QED
  BY <1>1, <1>2, AwayFromMedia

\* The DELETE clears up what others left, unless another is inserting.
LEMMA ClearsMedia ==
  ASSUME IInv, MediaHolds, NEW d \in Deliveries, ClearMedia(d)
  PROVE  MediaHolds'
<1> DEFINE m == dl[d].msg
           step == IF dl[d].left = 0 THEN "status" ELSE "insert"
<1>1. CASE Fails(d) /\ muddled' = [muddled EXCEPT ![m] = TRUE]
  <2>1. dl[d].at = "clear"
    BY DEF ClearMedia
  <2>2. QED
    BY <1>1, <2>1, EndsEarly
<1>2. CASE ~(Fails(d) /\ muddled' = [muddled EXCEPT ![m] = TRUE])
  <2>1. /\ dl[d].at = "clear" /\ media' = [media EXCEPT ![m] = 0] /\ Goto(d, step)
        /\ muddled' = [muddled EXCEPT ![m] = \E e \in Deliveries \ {d} : Inserts(e, m)]
        /\ UNCHANGED <<account, sent>>
    BY <1>2 DEF ClearMedia, Inserts
  <2>2. m \in Messages /\ dl[d].left = MediaCount[m] /\ MediaCount[m] \in Nat
    BY <2>1, ConstantsAssumption
    DEF ConstantsAssumption, IInv, Safe, Wellformed, MediaHolds, MediaAhead
  <2>3. /\ dl'[d].at = step /\ dl'[d].msg = m /\ dl'[d].left = dl[d].left
        /\ \A e \in Deliveries : e # d => dl'[e] = dl[e]
    <3>1. dl \in [Deliveries -> Delivery] /\ step \in Steps
      BY DEF IInv, TypeOK, Steps
    <3> HIDE DEF step
    <3>2. QED
      BY <2>1, <3>1, GotoMoves
  <2>4. MediaAhead'
    BY <2>3 DEF MediaHolds, MediaAhead
  <2>5. /\ media'[m] = 0 /\ muddled'[m] = \E e \in Deliveries \ {d} : Inserts(e, m)
        /\ \A n \in Messages : n # m => media'[n] = media[n] /\ muddled'[n] = muddled[n]
    BY <2>1, <2>2 DEF IInv, TypeOK
  <2>6. \A e \in Deliveries, n \in Messages :
          Inserts(e, n)' => (e = d /\ n = m) \/ (e # d /\ Inserts(e, n) /\ dl'[e] = dl[e])
    BY <2>3 DEF Inserts
  <2>7. OneInserts'
    <3> SUFFICES ASSUME NEW n \in Messages, NEW x \in Deliveries,
                        account, ~muddled'[n], Inserts(x, n)'
                 PROVE  /\ media'[n] + dl'[x].left = MediaCount[n]
                        /\ \A e \in Deliveries \ {x} : ~Inserts(e, n)'
      BY <2>1 DEF OneInserts
    <3>1. CASE n = m
      <4>1. \A e \in Deliveries \ {d} : ~Inserts(e, m)
        BY <2>5, <3>1
      <4>2. x = d
        BY <2>6, <3>1, <4>1
      <4>3. media'[n] + dl'[x].left = MediaCount[n]
        BY <2>2, <2>3, <2>5, <3>1, <4>2
      <4>4. QED
        BY <2>6, <3>1, <4>1, <4>2, <4>3
    <3>2. CASE n # m
      BY <2>5, <2>6, <3>2 DEF MediaHolds, OneInserts
    <3>3. QED
      BY <3>1, <3>2
  <2>8. MediaExact'
    <3> SUFFICES ASSUME NEW n \in Messages, sent[n] # 0, ~muddled'[n],
                        \A e \in Deliveries : ~InMedia(e, n)'
                 PROVE  media'[n] = MediaCount[n]
      BY <2>1 DEF MediaExact
    <3>1. CASE n = m
      BY <2>2, <2>3, <2>5, <3>1 DEF InMedia
    <3>2. CASE n # m
      <4>1. \A e \in Deliveries : ~InMedia(e, n)
        BY <2>3, <3>2 DEF InMedia
      <4>2. QED
        BY <2>5, <3>2, <4>1 DEF MediaHolds, MediaExact
    <3>3. QED
      BY <3>1, <3>2
  <2>9. QED
    BY <2>4, <2>7, <2>8 DEF MediaHolds
<1>3. QED
  BY <1>1, <1>2

\* One INSERT: what is there and what is to come stay all there is.
LEMMA InsertsMedia ==
  ASSUME IInv, MediaHolds, NEW d \in Deliveries, InsertMedia(d)
  PROVE  MediaHolds'
<1> DEFINE m == dl[d].msg
           step == IF dl[d].left = 1 THEN "status" ELSE "insert"
           r == [at |-> step, chat |-> dl[d].chat, msg |-> m, time |-> dl[d].time,
                 left |-> dl[d].left - 1]
<1>1. CASE (Fails(d) \/ Refused(d)) /\ muddled' = [muddled EXCEPT ![m] = TRUE]
  <2>1. dl[d].at = "insert"
    BY DEF InsertMedia
  <2>2. QED
    BY <1>1, <2>1, EndsEarly
<1>2. CASE ~((Fails(d) \/ Refused(d)) /\ muddled' = [muddled EXCEPT ![m] = TRUE])
  <2>1. /\ dl[d].at = "insert" /\ media' = [media EXCEPT ![m] = media[m] + 1]
        /\ dl' = [dl EXCEPT ![d] = r]
        /\ UNCHANGED <<account, sent, muddled>>
    BY <1>2 DEF InsertMedia
  <2>2. m \in Messages /\ dl[d].left \in Nat /\ dl[d].left > 0
    BY <2>1 DEF IInv, Safe, Wellformed, TypeOK, Delivery
  <2>3. /\ dl'[d].at = step /\ dl'[d].msg = m /\ dl'[d].left = dl[d].left - 1
        /\ \A e \in Deliveries : e # d => dl'[e] = dl[e]
    BY <2>1 DEF IInv, TypeOK
  <2>4. /\ media'[m] = media[m] + 1 /\ media[m] \in Nat
        /\ \A n \in Messages : n # m => media'[n] = media[n]
    BY <2>1, <2>2 DEF IInv, TypeOK
  <2>5. MediaAhead'
    BY <2>3 DEF MediaHolds, MediaAhead
  <2>6. \A e \in Deliveries, n \in Messages :
          Inserts(e, n)' => Inserts(e, n) /\ (e # d => dl'[e] = dl[e])
    BY <2>1, <2>3 DEF Inserts
  <2>7. account /\ ~muddled[m] => media[m] + dl[d].left = MediaCount[m]
                                  /\ \A e \in Deliveries \ {d} : ~Inserts(e, m)
    BY <2>1, <2>2 DEF MediaHolds, OneInserts, Inserts
  <2>8. OneInserts'
    <3> SUFFICES ASSUME NEW n \in Messages, NEW x \in Deliveries,
                        account, ~muddled[n], Inserts(x, n)'
                 PROVE  /\ media'[n] + dl'[x].left = MediaCount[n]
                        /\ \A e \in Deliveries \ {x} : ~Inserts(e, n)'
      BY <2>1 DEF OneInserts
    <3>1. CASE n = m
      <4>1. x = d
        BY <2>6, <2>7, <3>1
      <4>2. media'[n] + dl'[x].left = MediaCount[n]
        BY <2>2, <2>3, <2>4, <2>7, <3>1, <4>1
      <4>3. QED
        BY <2>6, <2>7, <3>1, <4>1, <4>2
    <3>2. CASE n # m
      <4>1. x # d
        BY <2>3, <3>2 DEF Inserts
      <4>2. QED
        BY <2>4, <2>6, <3>2, <4>1 DEF MediaHolds, OneInserts
    <3>3. QED
      BY <3>1, <3>2
  <2>9. MediaExact'
    <3> SUFFICES ASSUME NEW n \in Messages, sent[n] # 0, ~muddled[n],
                        \A e \in Deliveries : ~InMedia(e, n)'
                 PROVE  media'[n] = MediaCount[n]
      BY <2>1 DEF MediaExact
    <3>1. CASE n = m
      <4>1. account
        BY DEF IInv, Safe, Emptied
      <4>2. dl[d].left = 1
        BY <2>3, <3>1 DEF InMedia
      <4>3. QED
        BY <2>4, <2>7, <3>1, <4>1, <4>2
    <3>2. CASE n # m
      <4>1. \A e \in Deliveries : ~InMedia(e, n)
        BY <2>3, <3>2 DEF InMedia
      <4>2. QED
        BY <2>4, <3>2, <4>1 DEF MediaHolds, MediaExact
    <3>3. QED
      BY <3>1, <3>2
  <2>10. QED
    BY <2>5, <2>8, <2>9 DEF MediaHolds
<1>3. QED
  BY <1>1, <1>2

LEMMA StepMedia ==
  ASSUME IInv, MediaHolds, [Next]_vars
  PROVE  MediaHolds'
<1>1. CASE DeleteAccount
  BY <1>1 DEF DeleteAccount, MediaHolds, MediaAhead, OneInserts, MediaExact
<1>2. CASE Restart
  <2>1. \A d \in Deliveries : dl'[d].at = "idle"
    BY <1>2 DEF Restart, Idle
  <2>2. MediaAhead' /\ OneInserts'
    BY <2>1 DEF MediaAhead, OneInserts, Inserts
  <2>3. \A m \in Messages :
          ~muddled'[m] => ~muddled[m] /\ \A d \in Deliveries : ~InMedia(d, m)
    BY <1>2 DEF Restart
  <2>4. UNCHANGED <<sent, media>>
    BY <1>2 DEF Restart, tables
  <2>5. MediaExact'
    BY <2>3, <2>4 DEF MediaHolds, MediaExact
  <2>6. QED
    BY <2>2, <2>5 DEF MediaHolds
<1>3. CASE UNCHANGED vars
  BY <1>3 DEF vars, tables, MediaHolds, MediaAhead, OneInserts, Inserts, MediaExact, InMedia
<1>4. QED
  BY <1>1, <1>2, <1>3, EmitMedia, PersistMedia, ClearsMedia, InsertsMedia DEF Next, Deliver

LEMMA InitMedia == Init => MediaHolds
BY DEF Init, Idle, MediaHolds, MediaAhead, OneInserts, Inserts, MediaExact

(* A stored message has as many media as WhatsApp gave it whenever nobody  *)
(* is replacing them, unless two replaced them at once or the last to try  *)
(* did not get to the end (ReplaceMedia), for any number of goroutines,    *)
(* messages and media.                                                     *)
THEOREM MediaReplaced == Spec => []MediaExact
<1>1. Init => IInv /\ MediaHolds
  BY InitIInv, InitMedia
<1>2. IInv /\ MediaHolds /\ [Next]_vars => (IInv /\ MediaHolds)'
  BY StepIInv, StepMedia
<1>3. IInv /\ MediaHolds => MediaExact
  BY DEF MediaHolds
<1>4. QED
  BY <1>1, <1>2, <1>3, PTL DEF Spec
-----------------------------------------------------------------------------
(* The requests for the history of chats (CatchUp). *)

\* What a goroutine works for is a chat, and what was asked for once more than
\* the reservations say is a reservation that an older request gave free.
AskingIsChat ==
    \A q \in HistoryRequests : asking[q] # NotAsking => asking[q].chat \in CatchUpChats

Reserved ==
    /\ \A c \in CatchUpChats : made[c] <= (IF c \in requested THEN 1 ELSE 0) + stale[c]
    /\ all.made <= Cardinality(requested) + all.stale
    /\ Cardinality(requested) <= ChatRequestLimit

CatchUpIInv == CatchUpTypeOK /\ AskingIsChat /\ Reserved

LEMMA RequestedFinite ==
  ASSUME CatchUpTypeOK PROVE IsFiniteSet(requested) /\ Cardinality(requested) \in Nat
BY CatchUpConstants, FS_Subset, FS_CardinalityType DEF CatchUpTypeOK, CatchUpConstants

LEMMA RemoveOne ==
  ASSUME NEW S, IsFiniteSet(S), NEW x
  PROVE  /\ Cardinality(S \ {x}) <= Cardinality(S)
         /\ Cardinality(S) <= Cardinality(S \ {x}) + 1
         /\ Cardinality(S \ {x}) \in Nat
<1>1. IsFiniteSet(S \ {x}) /\ Cardinality(S) \in Nat
  BY FS_RemoveElement, FS_CardinalityType
<1>2. Cardinality(S \ {x}) = IF x \in S THEN Cardinality(S) - 1 ELSE Cardinality(S)
  BY FS_RemoveElement
<1>3. Cardinality(S \ {x}) \in Nat
  BY <1>1, FS_CardinalityType
<1>4. QED
  BY <1>1, <1>2, <1>3

LEMMA EmptyHolds ==
  ASSUME requested = {}, made = Zero, stale = Zero, all = Count(0, 0)
  PROVE  /\ Reserved /\ requested \subseteq CatchUpChats
         /\ made \in [CatchUpChats -> Int] /\ stale \in [CatchUpChats -> Nat]
         /\ all \in [made : Int, stale : Nat]
BY CatchUpConstants, FS_EmptySet DEF Reserved, Zero, Count, CatchUpConstants

LEMMA CatchUpInitIInv == CatchUpInit => CatchUpIInv
<1> SUFFICES ASSUME CatchUpInit PROVE CatchUpIInv
  OBVIOUS
<1>1. /\ Reserved /\ requested \subseteq CatchUpChats
      /\ made \in [CatchUpChats -> Int] /\ stale \in [CatchUpChats -> Nat]
      /\ all \in [made : Int, stale : Nat]
  BY EmptyHolds DEF CatchUpInit
<1>2. NotAsking \in [chat : CatchUpChats \cup {NoCatchUp}, window : 0..MaxWindows]
  BY CatchUpConstants DEF NotAsking, Asks, CatchUpConstants
<1>3. window \in 0..MaxWindows /\ within \in BOOLEAN
  <2>1. window = 0 /\ within = FALSE
    BY DEF CatchUpInit
  <2>2. 0 \in 0..MaxWindows
    BY CatchUpConstants DEF CatchUpConstants
  <2>3. QED
    BY <2>1, <2>2
<1>4. asking \in [HistoryRequests -> [chat : CatchUpChats \cup {NoCatchUp}, window : 0..MaxWindows]]
  BY <1>2 DEF CatchUpInit
<1>5. CatchUpTypeOK
  BY <1>1, <1>3, <1>4, Zenon DEF CatchUpTypeOK
<1>6. QED
  BY <1>1, <1>5 DEF CatchUpInit, CatchUpIInv, AskingIsChat

\* A chat is asked for.
LEMMA RequestIInv ==
  ASSUME CatchUpIInv, NEW q \in HistoryRequests, NEW c \in CatchUpChats, MaybeRequestHistory(q, c)
  PROVE  CatchUpIInv'
<1> USE DEF CatchUpIInv, MaybeRequestHistory
<1>1. Asks(c, window) # NotAsking /\ Asks(c, window).chat = c
  BY CatchUpConstants DEF Asks, NotAsking, CatchUpConstants
<1>2. CatchUpTypeOK'
  BY DEF CatchUpTypeOK, Asks, Count
<1>3. AskingIsChat'
  BY <1>1 DEF AskingIsChat, CatchUpTypeOK
<1>4. Cardinality(requested') = Cardinality(requested) + 1
  BY RequestedFinite, FS_AddElement DEF MayReserve
<1>5. c \notin requested /\ Cardinality(requested) < ChatRequestLimit
  BY DEF MayReserve
<1>6. \A d \in CatchUpChats : made'[d] <= (IF d \in requested' THEN 1 ELSE 0) + stale'[d]
  BY <1>5 DEF Reserved, CatchUpTypeOK
<1>7. Reserved'
  BY <1>4, <1>5, <1>6, RequestedFinite, CatchUpConstants
  DEF Reserved, CatchUpTypeOK, Count, CatchUpConstants
<1>8. QED
  BY <1>2, <1>3, <1>7

\* A request fails; its chat may not be reserved any more, or reserved anew.
LEMMA ReleaseIInv ==
  ASSUME CatchUpIInv, NEW q \in HistoryRequests, ReleaseRequest(q)
  PROVE  CatchUpIInv'
<1> DEFINE c == asking[q].chat
<1> USE DEF CatchUpIInv, ReleaseRequest
<1>1. c \in CatchUpChats
  BY DEF AskingIsChat
<1>2. CatchUpTypeOK'
  BY <1>1, CatchUpConstants DEF CatchUpTypeOK, Count, NotAsking, Asks, CatchUpConstants
<1>3. AskingIsChat'
  BY DEF AskingIsChat, CatchUpTypeOK
<1>4. /\ Cardinality(requested') <= Cardinality(requested)
      /\ Cardinality(requested) <= Cardinality(requested') + 1
      /\ Cardinality(requested') \in Nat
  <2>1. requested' = requested \ {c}
    OBVIOUS
  <2>2. IsFiniteSet(requested)
    BY RequestedFinite
  <2>3. QED
    BY <2>1, <2>2, RemoveOne
<1>5. \A d \in CatchUpChats : made'[d] <= (IF d \in requested' THEN 1 ELSE 0) + stale'[d]
  BY <1>1 DEF Reserved, CatchUpTypeOK
<1>6. all'.made - all'.stale = all.made - all.stale - 1
  BY DEF CatchUpTypeOK, Count
<1>7. Reserved'
  BY <1>2, <1>4, <1>5, <1>6, RequestedFinite, CatchUpConstants DEF Reserved, CatchUpTypeOK, CatchUpConstants
<1>8. QED
  BY <1>2, <1>3, <1>7

LEMMA CatchUpStepIInv == CatchUpIInv /\ [CatchUpNext]_catchUpVars => CatchUpIInv'
<1> SUFFICES ASSUME CatchUpIInv, [CatchUpNext]_catchUpVars PROVE CatchUpIInv'
  OBVIOUS
<1>1. CASE ActivateCatchUpWindow
  <2>1. Reserved' /\ requested' \subseteq CatchUpChats
        /\ made' \in [CatchUpChats -> Int] /\ stale' \in [CatchUpChats -> Nat]
        /\ all' \in [made : Int, stale : Nat]
    BY <1>1, CatchUpConstants, FS_EmptySet DEF ActivateCatchUpWindow, Reserved, Zero, Count, CatchUpConstants
  <2>2. window' \in 0..MaxWindows /\ within' \in BOOLEAN
    BY <1>1, CatchUpConstants DEF ActivateCatchUpWindow, CatchUpIInv, CatchUpTypeOK, CatchUpConstants
  <2>3. QED
    BY <1>1, <2>1, <2>2 DEF ActivateCatchUpWindow, CatchUpIInv, CatchUpTypeOK, AskingIsChat
<1>2. CASE Lapse \/ UNCHANGED catchUpVars
  BY <1>2 DEF Lapse, catchUpVars, CatchUpIInv, CatchUpTypeOK, AskingIsChat, Reserved
<1>3. ASSUME NEW q \in HistoryRequests, Answered(q) PROVE CatchUpIInv'
  BY <1>3, CatchUpConstants
  DEF Answered, CatchUpIInv, CatchUpTypeOK, AskingIsChat, Reserved, NotAsking, Asks, CatchUpConstants
<1>4. QED
  BY <1>1, <1>2, <1>3, RequestIInv, ReleaseIInv DEF CatchUpNext

(* After a connection a chat is asked for once, and no more chats than the *)
(* limit, but for requests that failed and one for each request of an      *)
(* earlier connection that failed late (releaseCatchUpRequest).            *)
THEOREM AsksOnce == CatchUpSpec => [](CatchUpTypeOK /\ AskedOnceAWindow)
<1>1. CatchUpIInv => CatchUpTypeOK /\ AskedOnceAWindow
  <2> SUFFICES ASSUME CatchUpIInv PROVE AskedOnceAWindow
    BY DEF CatchUpIInv
  <2>1. QED
    BY RequestedFinite, CatchUpConstants
    DEF CatchUpIInv, CatchUpTypeOK, Reserved, AskedOnceAWindow, CatchUpConstants
<1>2. QED
  BY <1>1, CatchUpInitIInv, CatchUpStepIInv, PTL DEF CatchUpSpec
=============================================================================

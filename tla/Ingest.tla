------------------------------- MODULE Ingest -------------------------------
(***************************************************************************)
(* internal/ingest behind the event bridge: the goroutines that store the  *)
(* message and chat events of one account and announce what is stored.     *)
(*                                                                         *)
(* handleEvent starts a goroutine per event, so events overtake one        *)
(* another, and PersistEvent is a sequence of statements without a         *)
(* transaction.  WhatsApp delivers a message again whenever it likes (as   *)
(* history, or as the echo of SendText), perhaps under another chat or     *)
(* with another time stamp, so what an event says is chosen freely.        *)
(* Columns that no property looks at (names, text, flags) are left out.    *)
(***************************************************************************)
EXTENDS Integers

CONSTANTS
    Deliveries,   \* goroutines of handleEvent
    Chats, Messages,
    NoChat, NoMessage,
    MediaCount,   \* MediaCount[m]: media items of message m
    MaxTime,      \* bound: time stamps are 1..MaxTime, 0 is NULL
    MaxEmits,     \* bound: events
    MaxFaults,    \* bound: statements that fail
    MaxStops      \* bound: how often the process stops and starts

ASSUME ConstantsAssumption ==
    /\ NoChat \notin Chats /\ NoMessage \notin Messages
    /\ MediaCount \in [Messages -> Nat]
    /\ MaxTime \in Nat /\ MaxEmits \in Nat /\ MaxFaults \in Nat /\ MaxStops \in Nat

VARIABLES
    account,    \* the row of the account exists
    chats,      \* rows of chats
    last,       \* chats.last_message_at
    home, sent, \* messages.chat_id and sent_at; 0: there is no row
    media,      \* rows of media_assets of the message
    announced,  \* messages of the message_stored updates
    dl,         \* what each goroutine is doing
    muddled,    \* history: the media of the message were last replaced by two
                \* goroutines at once or not to the end
    emits, faults, stops

tables == <<account, chats, last, home, sent, media>>
vars == <<tables, announced, dl, muddled, emits, faults, stops>>

Times == 1..MaxTime
Idle == [at |-> "idle", chat |-> NoChat, msg |-> NoMessage, time |-> 0, left |-> 0]

Init ==
    /\ account = TRUE
    /\ chats = {}
    /\ last = [c \in Chats |-> 0]
    /\ home = [m \in Messages |-> NoChat]
    /\ sent = [m \in Messages |-> 0]
    /\ media = [m \in Messages |-> 0]
    /\ announced = {}
    /\ dl = [d \in Deliveries |-> Idle]
    /\ muddled = [m \in Messages |-> FALSE]
    /\ emits = 0 /\ faults = 0 /\ stops = 0

-----------------------------------------------------------------------------
Goto(d, step) == dl' = [dl EXCEPT ![d].at = step]
End(d) == dl' = [dl EXCEPT ![d] = Idle]
Fault == faults < MaxFaults /\ faults' = faults + 1
NoFault == UNCHANGED faults

\* The statement fails and with it the rest of the event.
Fails(d) == /\ End(d) /\ Fault /\ UNCHANGED <<tables, announced, emits, stops>>

\* A foreign key does not hold: the account was deleted meanwhile.
Refused(d) == /\ End(d) /\ NoFault /\ UNCHANGED <<tables, announced, emits, stops>>

InMedia(d, m) == dl[d].at \in {"clear", "insert"} /\ dl[d].msg = m

(* Events. *)

\* A history conversation: a time stamp of 0 says it has none.
EmitChat(d) ==
    /\ dl[d] = Idle /\ emits < MaxEmits
    /\ emits' = emits + 1
    /\ \E c \in Chats, t \in 0..MaxTime :
          dl' = [dl EXCEPT ![d] = [at |-> "chat", chat |-> c, msg |-> NoMessage,
                                   time |-> t, left |-> 0]]
    /\ UNCHANGED <<tables, announced, muddled, faults, stops>>

\* A message received, sent or found in the history.
EmitMessage(d) ==
    /\ dl[d] = Idle /\ emits < MaxEmits
    /\ emits' = emits + 1
    /\ \E c \in Chats, m \in Messages, t \in Times :
          dl' = [dl EXCEPT ![d] = [at |-> "chat", chat |-> c, msg |-> m,
                                   time |-> t, left |-> MediaCount[m]]]
    /\ UNCHANGED <<tables, announced, muddled, faults, stops>>

-----------------------------------------------------------------------------
(* PersistChat, PersistEvent and the handlers of the bridge. *)

\* Mutant of Newer: the event always wins.
Overwrite(old, new) == new

\* The CASE of UpsertChat: NULL gives way, otherwise the later time stays.
Newer(old, new) == IF new > old THEN new ELSE old

UpsertChat(d) ==
    LET c == dl[d].chat IN
    /\ dl[d].at = "chat"
    /\ \/ /\ account
          /\ chats' = chats \cup {c}
          /\ last' = [last EXCEPT ![c] = Newer(@, dl[d].time)]
          /\ Goto(d, IF dl[d].msg = NoMessage THEN "publish" ELSE "contact")
          /\ NoFault
          /\ UNCHANGED <<account, home, sent, media, announced, emits, stops>>
       \/ ~account /\ Refused(d)
       \/ Fails(d)
    /\ UNCHANGED muddled

\* Mutant of UpsertContact: an event without a contact ends here.
ContactRequired(d) ==
    /\ dl[d].at = "contact"
    /\ \/ account /\ Goto(d, "message") /\ NoFault
       \/ End(d) /\ NoFault
    /\ UNCHANGED <<tables, announced, emits, stops>>
    /\ UNCHANGED muddled

\* Messages that were sent from here carry no contact.
UpsertContact(d) ==
    /\ dl[d].at = "contact"
    /\ \/ /\ Goto(d, "message") /\ NoFault
          /\ UNCHANGED <<tables, announced, emits, stops>>
       \/ ~account /\ Refused(d)
       \/ Fails(d)
    /\ UNCHANGED muddled

\* Mutant of UpsertMessage: a failed statement goes unnoticed.
UpsertMessageUnchecked(d) ==
    /\ dl[d].at = "message"
    /\ Goto(d, "clear")
    /\ Fault
    /\ UNCHANGED <<tables, announced, emits, stops>>
    /\ UNCHANGED muddled

\* A conflict on the id leaves chat_id and sent_at as they are.
UpsertMessage(d) ==
    LET m == dl[d].msg IN
    /\ dl[d].at = "message"
    /\ \/ /\ dl[d].chat \in chats
          /\ sent' = [sent EXCEPT ![m] = IF @ = 0 THEN dl[d].time ELSE @]
          /\ home' = [home EXCEPT ![m] = IF sent[m] = 0 THEN dl[d].chat ELSE @]
          /\ Goto(d, "clear")
          /\ NoFault
          /\ UNCHANGED <<account, chats, last, media, announced, emits, stops>>
       \/ dl[d].chat \notin chats /\ Refused(d)
       \/ Fails(d)
    /\ UNCHANGED muddled

\* Mutant of ClearMedia: the old rows stay.
ClearNothing(d) ==
    LET m == dl[d].msg IN
    /\ dl[d].at = "clear"
    /\ Goto(d, IF dl[d].left = 0 THEN "status" ELSE "insert")
    /\ muddled' = [muddled EXCEPT ![m] = \E e \in Deliveries \ {d} :
                                            dl[e].at = "insert" /\ dl[e].msg = m]
    /\ NoFault
    /\ UNCHANGED <<tables, announced, emits, stops>>

\* ReplaceMedia: the DELETE ...
ClearMedia(d) ==
    LET m == dl[d].msg IN
    /\ dl[d].at = "clear"
    /\ \/ /\ media' = [media EXCEPT ![m] = 0]
          /\ Goto(d, IF dl[d].left = 0 THEN "status" ELSE "insert")
          /\ muddled' = [muddled EXCEPT ![m] = \E e \in Deliveries \ {d} :
                                            dl[e].at = "insert" /\ dl[e].msg = m]
          /\ NoFault
          /\ UNCHANGED <<account, chats, last, home, sent, announced, emits, stops>>
       \/ Fails(d) /\ muddled' = [muddled EXCEPT ![m] = TRUE]

\* ... and one INSERT for each item.
InsertMedia(d) ==
    LET m == dl[d].msg IN
    /\ dl[d].at = "insert"
    /\ \/ /\ sent[m] # 0
          /\ media' = [media EXCEPT ![m] = @ + 1]
          /\ dl' = [dl EXCEPT ![d] = [at |-> IF @.left = 1 THEN "status" ELSE "insert",
                                      chat |-> @.chat, msg |-> m, time |-> @.time,
                                      left |-> @.left - 1]]
          /\ NoFault
          /\ UNCHANGED <<account, chats, last, home, sent, announced, muddled, emits, stops>>
       \/ sent[m] = 0 /\ Refused(d) /\ muddled' = [muddled EXCEPT ![m] = TRUE]
       \/ Fails(d) /\ muddled' = [muddled EXCEPT ![m] = TRUE]

\* The status of the account is the subject of StatusPipeline.  Without a row
\* the UPDATE changes nothing and is no error.
UpdateStatus(d) ==
    /\ dl[d].at = "status"
    /\ \/ /\ Goto(d, "publish") /\ NoFault
          /\ UNCHANGED <<tables, announced, emits, stops>>
       \/ Fails(d)
    /\ UNCHANGED muddled

Publish(d) ==
    /\ dl[d].at = "publish"
    /\ announced' = announced \cup ({dl[d].msg} \ {NoMessage})
    /\ End(d)
    /\ UNCHANGED <<tables, muddled, emits, faults, stops>>

Deliver(d) == \/ UpsertChat(d) \/ UpsertContact(d) \/ UpsertMessage(d)
              \/ ClearMedia(d) \/ InsertMedia(d) \/ UpdateStatus(d) \/ Publish(d)

-----------------------------------------------------------------------------
\* DeleteAccount: everything goes with the row of the account.
DeleteAccount ==
    /\ account
    /\ account' = FALSE
    /\ chats' = {}
    /\ last' = [c \in Chats |-> 0]
    /\ home' = [m \in Messages |-> NoChat]
    /\ sent' = [m \in Messages |-> 0]
    /\ media' = [m \in Messages |-> 0]
    /\ UNCHANGED <<announced, dl, muddled, emits, faults, stops>>

\* The process stops and starts; its goroutines are gone.
Restart ==
    /\ stops < MaxStops
    /\ stops' = stops + 1
    /\ dl' = [d \in Deliveries |-> Idle]
    /\ muddled' = [m \in Messages |-> muddled[m] \/ \E d \in Deliveries : InMedia(d, m)]
    /\ UNCHANGED <<tables, announced, emits, faults>>

Next == \/ \E d \in Deliveries : EmitChat(d) \/ EmitMessage(d) \/ Deliver(d)
        \/ DeleteAccount \/ Restart

Spec == Init /\ [][Next]_vars

\* The Go scheduler runs every goroutine; nothing need happen in WhatsApp.
FairSpec == Spec /\ \A d \in Deliveries : WF_vars(Deliver(d))
-----------------------------------------------------------------------------
(* Properties. *)

Steps == {"idle", "chat", "contact", "message", "clear", "insert", "status", "publish"}
Delivery == [at : Steps, chat : Chats \cup {NoChat}, msg : Messages \cup {NoMessage},
             time : 0..MaxTime, left : Nat]

TypeOK ==
    /\ account \in BOOLEAN
    /\ chats \subseteq Chats
    /\ last \in [Chats -> 0..MaxTime]
    /\ home \in [Messages -> Chats \cup {NoChat}]
    /\ sent \in [Messages -> 0..MaxTime]
    /\ media \in [Messages -> Nat]
    /\ announced \subseteq Messages
    /\ dl \in [Deliveries -> Delivery]
    /\ muddled \in [Messages -> BOOLEAN]
    /\ emits \in 0..MaxEmits /\ faults \in 0..MaxFaults /\ stops \in 0..MaxStops

(* The list of chats, ordered by last_message_at, never shows a chat below *)
(* the place of one of its stored messages, in whatever order events are   *)
(* handled and wherever they fail (UpsertChat, UpsertMessage).             *)
LastMessageCovers ==
    \A m \in Messages : sent[m] # 0 => home[m] \in chats /\ last[home[m]] >= sent[m]

(* Once nobody is replacing the media of a stored message there are as     *)
(* many as it has, unless two deliveries of it replaced them at once or    *)
(* the last to try did not get to the end (ReplaceMedia has no transaction *)
(* and media_assets no key that would stop a second copy).                 *)
MediaExact ==
    \A m \in Messages :
        sent[m] # 0 /\ ~muddled[m] /\ (\A d \in Deliveries : ~InMedia(d, m))
          => media[m] = MediaCount[m]

(* A client that fetches a message it was told of finds it, as long as     *)
(* the account exists (handleMessageReceived publishes last).              *)
AnnouncedIsStored == account => \A m \in announced : sent[m] # 0

(* An event is stored in the end, unless a statement failed, the process   *)
(* stopped or the account was deleted on the way.                          *)
DeliveredIsStored ==
    \A d \in Deliveries, m \in Messages :
        dl[d].at = "chat" /\ dl[d].msg = m ~> sent[m] # 0 \/ ~account \/ faults > 0 \/ stops > 0
=============================================================================

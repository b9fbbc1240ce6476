------------------------------- MODULE CatchUp -------------------------------
(***************************************************************************)
(* internal/sessions/whatsmeow_connector.go: after every connection of an  *)
(* account, for three minutes, the first message of a chat makes the       *)
(* connector ask the phone for the history of that chat, for up to twelve  *)
(* chats.  The request is sent by a goroutine that gives the chat free     *)
(* again when it fails; it may do so only after the next connection.       *)
(***************************************************************************)
EXTENDS Integers, FiniteSets

CONSTANTS
    CatchUpChats,
    NoCatchUp,
    ChatRequestLimit, \* catchUpChatRequestLimit
    HistoryRequests,  \* goroutines
    MaxWindows        \* bound: connections, and sessions that are replaced

ASSUME CatchUpConstants ==
    /\ NoCatchUp \notin CatchUpChats
    /\ ChatRequestLimit \in Nat \ {0} /\ MaxWindows \in Nat
    /\ IsFiniteSet(CatchUpChats)

VARIABLES
    window,    \* connections, and replaced sessions, so far
    within,    \* catchUpUntil is set and has not passed
    requested, \* chats in session.catchUpRequested
    asking,    \* the chat that each goroutine asks for, and since which window
    made,      \* history: requests of this window for each chat, but those that failed
    stale,     \* history: failures in this window of requests of earlier ones
    all        \* history: both, of all the chats together

catchUpVars == <<window, within, requested, asking, made, stale, all>>

Asks(c, w) == [chat |-> c, window |-> w]
NotAsking == Asks(NoCatchUp, 0)
Zero == [c \in CatchUpChats |-> 0]
Count(m, s) == [made |-> m, stale |-> s]

CatchUpInit ==
    /\ window = 0
    /\ within = FALSE
    /\ requested = {}
    /\ asking = [q \in HistoryRequests |-> NotAsking]
    /\ made = Zero /\ stale = Zero /\ all = Count(0, 0)

\* activateCatchUpWindow; a session that is replaced has no window.
ActivateCatchUpWindow ==
    /\ window < MaxWindows
    /\ window' = window + 1
    /\ within' \in BOOLEAN
    /\ requested' = {}
    /\ made' = Zero /\ stale' = Zero /\ all' = Count(0, 0)
    /\ UNCHANGED asking

\* catchUpUntil passes, or the session is removed.
Lapse ==
    /\ within
    /\ within' = FALSE
    /\ UNCHANGED <<window, requested, asking, made, stale, all>>

\* Mutant of MayReserve: only the limit is looked at.
MayReserveAgain(c) == within /\ Cardinality(requested) < ChatRequestLimit

\* reserveCatchUpRequest
MayReserve(c) ==
    /\ within
    /\ Cardinality(requested) < ChatRequestLimit
    /\ c \notin requested

\* A message of the chat; the goroutine starts.
MaybeRequestHistory(q, c) ==
    /\ asking[q] = NotAsking
    /\ MayReserve(c)
    /\ requested' = requested \cup {c}
    /\ asking' = [asking EXCEPT ![q] = Asks(c, window)]
    /\ made' = [made EXCEPT ![c] = @ + 1] /\ all' = Count(all.made + 1, all.stale)
    /\ UNCHANGED <<window, within, stale>>

Answered(q) ==
    /\ asking[q] # NotAsking
    /\ asking' = [asking EXCEPT ![q] = NotAsking]
    /\ UNCHANGED <<window, within, requested, made, stale, all>>

\* The request fails, or its 20 seconds are over: releaseCatchUpRequest knows
\* the chat, not the window.
ReleaseRequest(q) ==
    LET c == asking[q].chat IN
    /\ asking[q] # NotAsking
    /\ asking' = [asking EXCEPT ![q] = NotAsking]
    /\ requested' = requested \ {c}
    /\ IF asking[q].window = window
         THEN made' = [made EXCEPT ![c] = @ - 1] /\ all' = Count(all.made - 1, all.stale) /\ UNCHANGED stale
         ELSE stale' = [stale EXCEPT ![c] = @ + 1] /\ all' = Count(all.made, all.stale + 1) /\ UNCHANGED made
    /\ UNCHANGED <<window, within>>

CatchUpNext ==
    \/ ActivateCatchUpWindow \/ Lapse
    \/ \E q \in HistoryRequests :
          (\E c \in CatchUpChats : MaybeRequestHistory(q, c)) \/ Answered(q) \/ ReleaseRequest(q)

CatchUpSpec == CatchUpInit /\ [][CatchUpNext]_catchUpVars
-----------------------------------------------------------------------------
(* Properties. *)

CatchUpTypeOK ==
    /\ window \in 0..MaxWindows
    /\ within \in BOOLEAN
    /\ requested \subseteq CatchUpChats
    /\ asking \in [HistoryRequests -> [chat : CatchUpChats \cup {NoCatchUp}, window : 0..MaxWindows]]
    /\ made \in [CatchUpChats -> Int] /\ stale \in [CatchUpChats -> Nat]
    /\ all \in [made : Int, stale : Nat]

(* After one connection a chat is asked for once, and no more chats than   *)
(* the limit, not counting requests that failed: unless a request from     *)
(* before the connection fails after it and gives the chat free again; of  *)
(* those, each allows one request more (releaseCatchUpRequest).            *)
AskedOnceAWindow ==
    /\ \A c \in CatchUpChats : made[c] <= 1 + stale[c]
    /\ all.made <= ChatRequestLimit + all.stale
=============================================================================

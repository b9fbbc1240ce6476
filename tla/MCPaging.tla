------------------------------ MODULE MCPaging -------------------------------
(* Small instances of HistoryPaging and of OffsetPaging for TLC.  The two    *)
(* share no state: a behaviour takes the steps of one of them.  A list of    *)
(* chats, which move, has one row less.                                      *)
EXTENDS HistoryPaging, OffsetPaging

VARIABLE part

MCMessages == 1..4
MCTimes == 1..3

FewerChats == list = "chats" => 4 \notin rows /\ createdAt[4] = 1

AsItBegins ==
    /\ sentAt = [m \in Messages |-> 1] /\ stored = {}
    /\ from = NoLimit /\ to = NoLimit /\ before = NoLimit
    /\ pages = <<>> /\ phase = "idle" /\ wanted = {}

OffsetAsItBegins ==
    /\ list = "runs" /\ createdAt = [r \in Rows |-> 1] /\ rows = {} /\ there = {}
    /\ undated = {} /\ risen = {} /\ sunk = 0
    /\ gone = {} /\ limit = Default /\ offset = 0 /\ total = 0 /\ reading = "count"
    /\ seen = {} /\ slips = 0

MCInit ==
    \/ part = "history" /\ Init /\ OffsetAsItBegins
    \/ part = "offset" /\ OffsetInit /\ FewerChats /\ AsItBegins

MCNext ==
    \/ part = "history" /\ Next /\ UNCHANGED <<part, offsetVars>>
    \/ part = "offset" /\ OffsetNext /\ FewerChats' /\ UNCHANGED <<part, vars>>

MCSpec == MCInit /\ [][MCNext]_<<part, vars, offsetVars>>
=============================================================================

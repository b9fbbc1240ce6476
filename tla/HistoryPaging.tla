---------------------------- MODULE HistoryPaging ----------------------------
(***************************************************************************)
(* How the messages of a chat are read page by page: buildDocument of      *)
(* internal/exports for a document, GetMessages of internal/chats for a    *)
(* user who scrolls back.  Both start without a cursor and go on with the  *)
(* sent_at of the oldest message they got, while ingest stores messages of *)
(* any age.                                                                *)
(***************************************************************************)
EXTENDS Integers, Sequences, FiniteSets

CONSTANTS
    Messages,  \* ids of messages; ORDER BY sent_at DESC, id DESC
    Times,     \* values of sent_at
    Limit,     \* messages on a page
    NoLimit    \* no cursor, no date_from, no date_to

ASSUME ConstantsAssumption ==
    /\ Messages \subseteq Int /\ IsFiniteSet(Messages)
    /\ Times \subseteq Int
    /\ Limit \in Nat \ {0}
    /\ NoLimit \notin Int

VARIABLES
    sentAt,    \* messages.sent_at, which never changes
    stored,    \* messages in the table
    from, to,  \* date_from and date_to of the job
    before,    \* the cursor
    pages,     \* pages read so far, newest first
    phase,     \* of the reader
    wanted     \* history: messages of the range when the reader started

vars == <<sentAt, stored, from, to, before, pages, phase, wanted>>

InRange(m, lo, hi) ==
    /\ lo # NoLimit => sentAt[m] >= lo
    /\ hi # NoLimit => sentAt[m] < hi

Init ==
    /\ sentAt \in [Messages -> Times]
    /\ stored \in SUBSET Messages
    /\ from = NoLimit /\ to = NoLimit
    /\ before = NoLimit /\ pages = <<>>
    /\ phase = "idle" /\ wanted = {}

-----------------------------------------------------------------------------
\* Ingest: live messages are young, history and catch-up bring old ones.
Store(m) ==
    /\ m \notin stored
    /\ stored' = stored \cup {m}
    /\ UNCHANGED <<sentAt, from, to, before, pages, phase, wanted>>

Start ==
    /\ phase = "idle"
    /\ phase' = "reading"
    /\ \E lo, hi \in Times \cup {NoLimit} :
          /\ from' = lo /\ to' = hi
          /\ wanted' = {m \in stored : InRange(m, lo, hi)}
    /\ UNCHANGED <<sentAt, stored, before, pages>>

\* Mutant of Matching: the cursor itself is read again.
MatchingUpTo ==
    {m \in stored : InRange(m, from, to) /\ (before # NoLimit => sentAt[m] <= before)}

\* The WHERE clause of ListMessages.
Matching ==
    {m \in stored : InRange(m, from, to) /\ (before # NoLimit => sentAt[m] < before)}

\* m comes before n in ORDER BY sent_at DESC, id DESC.
Younger(m, n) == sentAt[m] > sentAt[n] \/ (sentAt[m] = sentAt[n] /\ m > n)

\* LIMIT
FirstPage(S) == {m \in S : Cardinality({n \in S : Younger(n, m)}) < Limit}

Oldest(P) == CHOOSE t \in {sentAt[m] : m \in P} : \A m \in P : t <= sentAt[m]

\* chunk[0] of the reversed page
Cursor(P) == Oldest(P)

\* Mutant of ReadPage: a full page is taken for the last one.
StopAtFullPage ==
    /\ phase = "reading"
    /\ pages' = Append(pages, FirstPage(Matching))
    /\ phase' = "done"
    /\ UNCHANGED <<sentAt, stored, from, to, before, wanted>>

ReadPage ==
    LET page == FirstPage(Matching)
        hasMore == Cardinality(Matching) > Limit
    IN
    /\ phase = "reading"
    /\ pages' = Append(pages, page)
    /\ IF hasMore
         THEN before' = Cursor(page) /\ UNCHANGED phase
         ELSE phase' = "done" /\ UNCHANGED before
    /\ UNCHANGED <<sentAt, stored, from, to, wanted>>

Next == (\E m \in Messages : Store(m)) \/ Start \/ ReadPage

Spec == Init /\ [][Next]_vars
-----------------------------------------------------------------------------
(* Properties. *)

Read == UNION {pages[i] : i \in DOMAIN pages}

(* Pages put one after the other are in the order of time and repeat       *)
(* nothing, whatever is stored between two of them (ListMessages and the   *)
(* reversal of the pages in buildDocument).                                *)
PagesDescend ==
    \A i, j \in DOMAIN pages :
        i < j => \A m \in pages[i], n \in pages[j] : sentAt[n] < sentAt[m]

(* The messages that a finished reader missed, of those that were there    *)
(* when it started, all bear the time stamp of a page's oldest message:    *)
(* the cursor is a time stamp, and time stamps are not unique.             *)
OnlyTiesAreMissed ==
    phase = "done" =>
        \A m \in wanted \ Read : \E i \in DOMAIN pages : \E n \in pages[i] :
            sentAt[n] = sentAt[m] /\ \A p \in pages[i] : sentAt[n] <= sentAt[p]

(* An export of a range of dates, or of the whole time, has every message  *)
(* of it that was stored when the export began.                            *)
Complete == phase = "done" => wanted \subseteq Read
=============================================================================

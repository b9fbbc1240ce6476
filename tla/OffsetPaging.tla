----------------------------- MODULE OffsetPaging -----------------------------
(***************************************************************************)
(* The lists that are read by LIMIT and OFFSET, newest first: the runs of  *)
(* agents (ListRuns of internal/agents), the audit log (Record and List of *)
(* internal/audit) and the chats (ListChats of internal/chats).  Rows are  *)
(* inserted while a client reads page after page, runs and chats disappear *)
(* with their account, and a chat moves when something arrives in it.      *)
(*                                                                         *)
(* A page is two statements: the number of rows, and the rows.  A client   *)
(* goes on at offset + limit, as they are returned, while there are more   *)
(* rows than that.                                                         *)
(***************************************************************************)
EXTENDS Integers, FiniteSets

CONSTANTS
    Rows,        \* ids
    CreatedAts,  \* values of the time that orders a list
    Asked,       \* values of ?limit=
    Default,     \* 12, 24 or 25: the limit without one
    Most,        \* 100, 200 or 5000: the highest limit
    MaxMoved     \* bound: chats that move

ASSUME OffsetConstants ==
    /\ Rows \subseteq Int /\ IsFiniteSet(Rows)
    /\ CreatedAts \subseteq Int /\ Asked \subseteq Int
    /\ Default \in Nat \ {0} /\ Most \in Nat \ {0} /\ MaxMoved \in Nat

VARIABLES
    list,       \* which of the three
    createdAt,  \* created_at of each row: the clock of the process, before the
                \* INSERT; of a chat COALESCE(last_message_at, updated_at)
    undated,    \* chats without last_message_at
    rows,       \* ids in the table
    gone,       \* rows that were deleted
    limit,      \* of the client, as it is returned to it
    offset,     \* of the next page
    total,      \* the number of rows, counted for this page
    reading,    \* what the client's request is doing
    seen,       \* rows on the pages so far
    there,      \* history: rows that were in the table when the client began
    slips,      \* history: insertions between the two statements of a page
    risen,      \* history: chats that moved up
    sunk        \* history: how often a chat moved down

offsetTable == <<list, createdAt, undated, rows, gone>>
client == <<limit, offset, total, reading, seen, there>>
moves == <<risen, sunk>>
offsetVars == <<offsetTable, client, slips, moves>>

\* <= 0 is the default; the rest is cut to the highest limit.
ClampLimit(asked) == IF asked <= 0 THEN Default ELSE IF asked > Most THEN Most ELSE asked

\* A client begins with the first page.
OffsetInit ==
    /\ list \in {"runs", "audit", "chats"}
    /\ createdAt \in [Rows -> CreatedAts]
    /\ rows \in SUBSET Rows
    /\ undated \in SUBSET IF list = "chats" THEN rows ELSE {}
    /\ gone = {} /\ slips = 0 /\ risen = {} /\ sunk = 0
    /\ limit \in {ClampLimit(asked) : asked \in Asked}
    /\ offset = 0 /\ total = 0
    /\ reading = "count"
    /\ seen = {}
    /\ there = rows

-----------------------------------------------------------------------------
\* Record, and the INSERT of a run or chat; ids are new.  Two of them may be out
\* of order.
Insert(r) ==
    /\ r \notin rows \cup gone
    /\ rows' = rows \cup {r}
    /\ undated' \in {undated} \cup (IF list = "chats" THEN {undated \cup {r}} ELSE {})
    /\ slips' = IF reading = "list" THEN slips + 1 ELSE slips
    /\ UNCHANGED <<list, createdAt, gone, client, moves>>

\* Runs and chats go with what they belong to; the audit log stays.
Cascade(r) ==
    /\ list # "audit"
    /\ r \in rows
    /\ rows' = rows \ {r} /\ gone' = gone \cup {r}
    /\ undated' = undated \ {r}
    /\ UNCHANGED <<list, createdAt, client, slips, moves>>

\* UpsertChat: last_message_at is set once, to whatever the event says, and then
\* never goes back; without it a chat is ordered by updated_at, which is now.
UpsertChat(r, at) ==
    /\ list = "chats"
    /\ r \in rows
    /\ Cardinality(risen) + sunk < MaxMoved
    /\ \/ r \in undated /\ undated' = undated \ {r}
       \/ r \in undated /\ at > createdAt[r] /\ UNCHANGED undated
       \/ r \notin undated /\ at > createdAt[r] /\ UNCHANGED undated
    /\ createdAt' = [createdAt EXCEPT ![r] = at]
    /\ risen' = IF at > createdAt[r] THEN risen \cup {r} ELSE risen
    /\ sunk' = IF at < createdAt[r] THEN sunk + 1 ELSE sunk
    /\ UNCHANGED <<list, rows, gone, client, slips>>

\* ORDER BY time DESC, of runs and chats also id DESC.
Precedes(r, s) ==
    \/ createdAt[r] > createdAt[s]
    \/ list # "audit" /\ createdAt[r] = createdAt[s] /\ r > s

\* The first i rows; ties of the audit log may come in any order, every time.
Heads(i) ==
    {H \in SUBSET rows :
        /\ Cardinality(H) = IF i < Cardinality(rows) THEN i ELSE Cardinality(rows)
        /\ \A r \in H, s \in rows : Precedes(s, r) => s \in H}

\* LIMIT limit OFFSET offset
PagesAt == {P \in SUBSET rows : \E H \in Heads(offset) : H \cap P = {} /\ H \cup P \in Heads(offset + limit)}

\* SELECT COUNT(*)
CountRows ==
    /\ reading = "count"
    /\ total' = Cardinality(rows)
    /\ reading' = "list"
    /\ UNCHANGED <<offsetTable, limit, offset, seen, there, slips, moves>>

\* Mutant of NextOffset: a page includes both of its ends.
NextOffsetBeyond == offset + limit + 1

NextOffset == offset + limit

\* The client goes on while the total says that there are more rows.
ListRows ==
    /\ reading = "list"
    /\ \E P \in PagesAt : seen' = seen \cup P
    /\ IF NextOffset < total
         THEN offset' = NextOffset /\ reading' = "count"
         ELSE reading' = "done" /\ UNCHANGED offset
    /\ UNCHANGED <<offsetTable, limit, total, there, slips, moves>>

OffsetNext ==
    \/ CountRows \/ ListRows
    \/ \E r \in Rows : Insert(r) \/ Cascade(r) \/ (\E at \in CreatedAts : UpsertChat(r, at))

OffsetSpec == OffsetInit /\ [][OffsetNext]_offsetVars
-----------------------------------------------------------------------------
(* Properties. *)

(* A client that reads to the end misses of the rows that were there all   *)
(* the time no more than were deleted meanwhile, or inserted after a page  *)
(* was counted and before it was read: whatever is inserted on top, and    *)
(* wherever.  Of the audit log, which is not ordered among equal times, it *)
(* may miss such an equal one instead; of the chats it may miss those that *)
(* moved up themselves, and one for every chat whose first message takes   *)
(* it down (ListRuns, List, ListChats).                                    *)
SkipsAreSlips ==
    LET missed == (there \cap rows) \ seen
        tied == {r \in missed : \E s \in rows \ {r} : createdAt[s] = createdAt[r]}
    IN reading = "done" =>
        Cardinality(IF list = "audit" THEN missed \ tied ELSE missed \ risen)
            <= Cardinality(gone) + slips + sunk
=============================================================================

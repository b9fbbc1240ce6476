------------------------------- MODULE Startup -------------------------------
(***************************************************************************)
(* internal/platform/app.go: how the process starts and stops, with what   *)
(* it does to the database (internal/storage/migrations.go, Bootstrap of   *)
(* internal/auth) and to the index of the scripts (Scripts) meanwhile.     *)
(*                                                                         *)
(* A start is a row of steps, each of which ends the process when it       *)
(* fails; nothing remembers how far it got, so the next start must be able *)
(* to begin anywhere.  A stop lets the requests end, for a while: a live   *)
(* stream keeps it waiting until Shutdown times out, and the process ends  *)
(* with whatever is still going on.  The container restarts the process.   *)
(***************************************************************************)
EXTENDS Scripts

CONSTANTS
    Boot,         \* the request that the start itself makes to the scripts
    TheAdmin,     \* the bootstrap administrator
    OldAccounts,  \* accounts from before there were users
    MaxVersion,   \* bound: migrations
    MaxEnds       \* bound: signals and kills

ASSUME StartupConstants ==
    /\ Boot \in ScriptRequests /\ TheAdmin \in Admins
    /\ MaxVersion \in Nat \ {0} /\ MaxEnds \in Nat

VARIABLES
    phase,      \* how far the process has come
    version,    \* migration files that the deployed program brings: 1..version
    todo,       \* those that this start has still to apply
    schema,     \* files whose statements have taken effect
    applied,    \* schema_migrations
    users,      \* the table: "none", "led" (a row has role 'admin'), "leaderless" (none of its rows has)
    orphans,    \* accounts without a user
    stream,     \* a live stream is open
    listening,  \* Automation.Run has a channel among the manager's subscribers
    copied,     \* handleEvent is about to send to the subscribers that it copied
    ends        \* signals and kills so far

live == <<stream, listening, copied>>
bootVars == <<phase, version, todo, schema, applied, users, orphans, live, ends>>
startupVars == <<bootVars, scriptVars>>

StartupInit ==
    /\ ScriptInit
    /\ phase = "down"
    /\ version = 1
    /\ todo = {} /\ schema = {} /\ applied = {}
    /\ users = "none"
    /\ orphans = OldAccounts
    /\ stream = FALSE /\ listening = FALSE /\ copied = FALSE
    /\ ends = 0

-----------------------------------------------------------------------------
(* The start. *)

\* What a step of the start leaves alone, besides the scripts.
Database == <<schema, applied, users, orphans>>
Idle(q) == scriptReq[q] = IdleRequest

\* New ends the process when a step of it fails.
Abort(from) ==
    /\ phase = from
    /\ phase' = "down"
    /\ Fails
    /\ UNCHANGED <<version, todo, Database, live, ends, index, torn, content, scriptReq, scriptAsks, kept>>

Start ==
    /\ phase = "down"
    /\ phase' = "versions"
    /\ UNCHANGED <<version, todo, Database, live, ends, scriptVars>>

\* A newer program brings more migrations.
Deploy ==
    /\ phase = "down"
    /\ version < MaxVersion
    /\ version' = version + 1
    /\ UNCHANGED <<phase, todo, Database, live, ends, scriptVars>>

\* Mutant of Pending: migrations are for a new database.
PendingIfNew == IF applied = {} THEN 1..version ELSE {}

Pending == (1..version) \ applied

\* The table schema_migrations is made if need be, and read.
AppliedVersions ==
    /\ phase = "versions"
    /\ phase' = "migrate"
    /\ todo' = Pending
    /\ UNCHANGED <<version, Database, live, ends, scriptVars>>

\* Mutant of ApplyFile: the statements and the record are not one transaction.
ApplyFileAlone(f) ==
    /\ f \notin schema
    /\ schema' = schema \cup {f}
    /\ applied' \in {applied, applied \cup {f}}

\* applyFile: both or neither.  Statements of a migration work only once.
ApplyFile(f) ==
    /\ f \notin schema
    /\ schema' = schema \cup {f}
    /\ applied' = applied \cup {f}

\* The files in their order; the first that fails ends the start.
Migrate ==
    /\ phase = "migrate"
    /\ \/ \E f \in todo :
            /\ \A g \in todo : f <= g
            /\ \/ ApplyFile(f) /\ todo' = todo \ {f} /\ UNCHANGED phase
               \/ f \in schema /\ phase' = "down" /\ UNCHANGED <<schema, applied, todo>>
       \/ todo = {} /\ phase' = "count" /\ UNCHANGED <<schema, applied, todo>>
    /\ UNCHANGED <<version, users, orphans, live, ends, scriptVars>>

\* Bootstrap counts the users; ...
CountUsers ==
    /\ phase = "count"
    /\ phase' = IF users = "none" THEN "admin" ELSE "first"
    /\ UNCHANGED <<version, todo, Database, live, ends, scriptVars>>

\* ... it creates an administrator when there are none (the INSERT counts, what
\* fails after it leaves the row), ...
CreateAdmin ==
    /\ phase = "admin"
    /\ users' = "led"
    /\ phase' = "orphans"
    /\ UNCHANGED <<version, todo, schema, applied, orphans, live, ends, scriptVars>>

\* ... or takes the first that is there: "no administrator account exists" ends New, ...
FirstAdmin ==
    /\ phase = "first"
    /\ phase' = IF users = "led" THEN "orphans" ELSE "down"
    /\ UNCHANGED <<version, todo, Database, live, ends, scriptVars>>

\* ... and gives this one the accounts without a user.
AssignOrphanAccounts ==
    /\ phase = "orphans"
    /\ orphans' = {}
    /\ phase' = "scripts"
    /\ scriptReq' = [scriptReq EXCEPT ![Boot] = Request("lock", "assign", NoDoc, TheAdmin)]
    /\ UNCHANGED <<version, todo, schema, applied, users, live, ends,
                   index, torn, content, scriptAsks, failures, kept>>

\* AssignOrphanDocuments has ended: well, or with an error that ends the process.
Serve ==
    /\ phase = "scripts"
    /\ \/ scriptReq[Boot].at = "assigned" /\ phase' = "serving" /\ listening' = TRUE
       \/ Idle(Boot) /\ phase' = "down" /\ UNCHANGED listening
    /\ scriptReq' = [scriptReq EXCEPT ![Boot] = IdleRequest]
    /\ UNCHANGED <<version, todo, Database, stream, copied, ends, index, torn, content, scriptAsks, failures, kept>>

-----------------------------------------------------------------------------
(* Serving and stopping. *)

Ask(q) == phase = "serving" /\ q # Boot /\ AskScript(q) /\ UNCHANGED bootVars

Work(q) ==
    /\ phase \in {"scripts", "serving", "stopping"}
    /\ ScriptStep(q)
    /\ UNCHANGED bootVars

OpenStream == phase = "serving" /\ stream' = TRUE
CloseStream == stream /\ stream' = FALSE

Stream ==
    /\ OpenStream \/ CloseStream
    /\ UNCHANGED <<phase, version, todo, Database, listening, copied, ends, scriptVars>>

\* Two administrators whose UpdateUser overlap demote each other (UserAdmin, the run
\* user_admin_race); the request of one that got in before can still name another.
Demote == users = "led" /\ users' = "leaderless"
Promote == users = "leaderless" /\ users' = "led"

UpdateUsers ==
    /\ phase \in {"serving", "stopping"}
    /\ Demote \/ Promote
    /\ UNCHANGED <<phase, version, todo, schema, applied, orphans, live, ends, scriptVars>>

\* SIGTERM: the listener closes, nothing new begins.
Signal ==
    /\ phase = "serving"
    /\ ends < MaxEnds
    /\ ends' = ends + 1
    /\ phase' = "stopping"
    /\ UNCHANGED <<version, todo, Database, live, scriptVars>>

Busy == stream \/ \E q \in ScriptRequests : ~Idle(q)

\* Shutdown comes to its end, and the database is closed.
Shutdown ==
    /\ phase = "stopping"
    /\ ~Busy
    /\ phase' = "down"
    /\ listening' = FALSE /\ copied' = FALSE
    /\ UNCHANGED <<version, todo, Database, stream, ends, scriptVars>>

\* The process is gone, with what it was doing.
Vanish ==
    /\ phase' = "down"
    /\ stream' = FALSE /\ listening' = FALSE /\ copied' = FALSE
    /\ CutScripts
    /\ UNCHANGED <<version, todo, Database>>

\* ShutdownTimeout: Run returns an error and the process exits.
TimeOut == phase = "stopping" /\ Busy /\ Vanish /\ UNCHANGED ends

Kill == phase # "down" /\ ends < MaxEnds /\ ends' = ends + 1 /\ Vanish

\* handleEvent of the session manager copies its subscribers under the lock and
\* sends to them without it; a stop ends Automation.Run, which closes its channel.
CopySubscribers == listening /\ copied' = TRUE /\ UNCHANGED listening
EndAutomation == phase = "stopping" /\ listening' = FALSE /\ UNCHANGED copied
SendEvent == copied /\ listening /\ copied' = FALSE /\ UNCHANGED listening

Fanout ==
    /\ CopySubscribers \/ EndAutomation \/ SendEvent
    /\ UNCHANGED <<phase, version, todo, Database, stream, ends, scriptVars>>

\* A send to a channel that is closed.
Panic == copied /\ ~listening /\ Vanish /\ UNCHANGED ends

BootStep ==
    \/ Start \/ AppliedVersions \/ Migrate
    \/ CountUsers \/ CreateAdmin \/ FirstAdmin \/ AssignOrphanAccounts \/ Serve

StartupNext ==
    \/ BootStep \/ Deploy \/ UpdateUsers \/ Shutdown \/ TimeOut \/ Signal \/ Kill \/ Panic \/ Stream \/ Fanout
    \/ \E from \in {"versions", "migrate", "count", "admin", "first", "orphans"} : Abort(from)
    \/ \E q \in ScriptRequests : Ask(q) \/ Work(q)

\* The container starts a process that has ended, and the steps of a process
\* that is there are taken; a stop ends by itself or by its timeout.
StartupSpec == StartupInit /\ [][StartupNext]_startupVars
FairStartup ==
    /\ StartupSpec
    /\ WF_startupVars(BootStep) /\ WF_startupVars(Shutdown \/ TimeOut)
    /\ \A q \in ScriptRequests : WF_startupVars(Work(q))
-----------------------------------------------------------------------------
(* Properties. *)

StartupTypeOK ==
    /\ ScriptTypeOK
    /\ phase \in {"down", "versions", "migrate", "count", "admin", "first", "orphans", "scripts", "serving", "stopping"}
    /\ version \in 1..MaxVersion
    /\ todo \subseteq 1..MaxVersion
    /\ schema \subseteq 1..MaxVersion /\ applied \subseteq 1..MaxVersion
    /\ users \in {"none", "led", "leaderless"}
    /\ {stream, listening, copied} \subseteq BOOLEAN
    /\ orphans \subseteq OldAccounts
    /\ ends \in 0..MaxEnds

(* A process that serves has all the migrations it was built with, once    *)
(* each, users, and an owner for every account and document, wherever      *)
(* earlier starts failed or were killed; and it never came that far        *)
(* without an administrator to own them, also when those of an earlier     *)
(* process had demoted each other (Migrate, Bootstrap, AssignOrphan...).   *)
ServesReady ==
    /\ phase \in {"orphans", "scripts"} => users = "led"
    /\ phase = "serving" =>
          /\ schema = 1..version /\ applied = schema
          /\ users # "none"
          /\ orphans = {}
          /\ torn \/ \A d \in Docs : index[d] # NoOwner

(* A process that stops, fails or is killed serves again, but for what     *)
(* stops every start after it: an index of the scripts that was left half  *)
(* written, and a table of users in which none is an administrator.        *)
ServesAgain == phase # "serving" ~> (phase = "serving" \/ torn \/ users = "leaderless")
=============================================================================

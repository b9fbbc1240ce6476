# Verification of the WhatsApp multi-account platform

This directory holds TLA+ models of the Go backend under `src/internal`, the
TLC configurations that check them on small instances and theorems that TLAPS
proves for every value of the constants. Every definition is translated from
the code; `PROJECT.json` maps each one to its lines.

## 1. The system

An API server (`cmd/api-server`, `internal/platform`) keeps one WhatsApp
client per account, stores what they receive in PostgreSQL and serves a web
console. A Python service (`agent_runner`) drafts replies.

| component | state it keeps | operations | talks to |
|---|---|---|---|
| Session connector (`sessions/whatsmeow_connector.go`, `credential_repository.go`) | the map account → session (client, device, snapshot, QR cancel function), `session_credentials`, the whatsmeow device store | StartPairing, Restore, Status, Logout, SendText, SendMedia, handlers of client events, history sync | whatsmeow (library), session manager |
| Catch-up (`sessions/whatsmeow_connector.go`) | per session: the window, the chats asked for in it | a request for missed history of each chat that has a message in the window | whatsmeow |
| Session manager and event bridge (`sessions/manager.go`, `event_bridge.go`, `live_handler.go`) | subscribers, the bridge's subscribers | fan-out of events, one goroutine per event for the bridge, `handleSessionSnapshot/ChatSnapshot/MessageReceived`, server-sent events | accounts, ingest, agents, web |
| Accounts (`accounts/`) | the `accounts` row: status, last_seen_at | create, list, pair, status, logout, delete | session manager |
| Ingest (`ingest/`) | contacts, chats, messages, media_assets | PersistEvent: four upserts without a transaction | event bridge, chats, exports |
| Chats (`chats/`) | – (reads the ingest tables) | list, page through messages, send | session manager, ingest |
| Agent runs (`agents/automation.go`) and runner (`agent_runner/`) | runs | generate, stream, send, list | runner (HTTP), session manager |
| Agent configuration (`agents/service.go`) | rules and their accounts, system agents, status cards | create, update, switch, delete; translate, analyse | runner, accounts, chats |
| Exports (`exports/`) | export_jobs, artifact files | create, process, delete, download | chats, file system |
| Auth (`auth/`) | users, permissions, sessions, invitation codes | bootstrap, register, login, logout, update, reset; the middleware | every handler |
| Scripts (`scripts/`) | files and their index under one mutex | list, add, delete | – |
| Audit (`audit/`), health (`health/`), configuration, logging, HTTP helpers | audit rows | append, list | – |
| Process (`platform/app.go`, `storage/migrations.go`) | schema_migrations | start: migrate, bootstrap, assign orphans, serve; stop: drain or time out | PostgreSQL, scripts, the container |
| Web console (`web/`) | – | – | the HTTP API |

What is hard here, and hardly tested: requests that work on one account at the
same time while the mutex of the connector protects only the map; events that
are handled in one goroutine each and overtake one another; multi-statement
writes without a transaction; work of goroutines that a restart forgets;
check-then-act sequences on the database; paging by timestamp. `PROJECT.json`
lists these hazards with their lines.

What makes each component correct:

- Connector: no client runs that the map does not know; the binding survives
  exactly as long as the device does.
- Status pipeline: the stored status ends up being the one of the session, and
  the console ends up showing whether the client is logged in.
- Ingest: a chat's `last_message_at` is never behind its stored messages; an
  event delivered twice is stored once; what is announced is stored.
- Exports: every job ends; a completed job has its artifact.
- History paging: every message of a chat is on exactly one page.
- Catch-up: a chat is asked for once after a connection, and not too many are.
- Agent runs: a draft is sent at most once; no run stays "generating"; the
  status of a run says what happened to its text.
- Agent configuration: a rule serves the accounts it was given and sends by
  itself only with a limit and on purpose; one agent of a purpose is active and
  is the one that is used; a status card is no older than its analysis.
- Auth: one invitation code admits as many users as it allows; an enabled
  administrator remains; an update changes what it was asked to change; nobody
  passes the middleware without a session, a status and a right.
- Scripts and process: a stored document stays, with its file and its owner; a
  process that serves has all of its migrations and no orphans, and was started
  with an administrator; a process that ends serves again, unless an index was
  left half written or nobody is an administrator any more.

## 2. Modules

| module | models | composed with |
|---|---|---|
| `SessionConnector` | one account in the connector: the map, session objects, clients, devices, binding; requests, event handlers, restarts | `accounts` (delete), `platform/app.go` (restore) |
| `StatusPipeline` | snapshot → event → row → console, for one account | connector with one request at a time, manager, bridge, accounts, console |
| `Ingest` | the goroutines that store events and announce them | bridge, manager |
| `HistoryPaging` | a reader that pages through a chat while messages are stored | chats, exports |
| `JobLifecycle` | what exports promise: the abstract specification | – |
| `ExportJobs` | rows, workers, deletions, files, restarts | implements `JobLifecycle` |
| `AgentRuns` | runs, the requests that generate and send them | runner and WhatsApp as choices |
| `AgentRules` | rules, the accounts they serve and the requests that change both | the deletion of accounts |
| `SystemAgents` | system agents, their administrators, the requests that use one, status cards | messages that arrive; runner as a choice |
| `UserAdmin` | users, roles, permissions and the requests that change them | – |
| `AuthSessions` | logins, sessions and the middleware | extends `UserAdmin`: the users and permissions it reads |
| `InvitationCode` | what an invitation code promises: the abstract specification | – |
| `Invitations` | one invitation code, registrations and updates of it | implements `InvitationCode`; the users it admits |
| `CatchUp` | the window of a connection and the requests for history in it | the connector as connections that come and go |
| `OffsetPaging` | a reader of a list by limit and offset while rows come and go | runs, audit entries, chats |
| `Scripts` | documents, their files and the index | – |
| `Startup` | the start, service, stop and restart of the process | extends `Scripts`: the start repairs its index, a stop cuts its writes; migrations, `Bootstrap`, subscribers of the session manager |

`XProofs` extends `X` with theorems, and where the proofs of several components
share a module it extends all of them: `IngestProofs` also `CatchUp`, `PagingProofs`
`HistoryPaging` and `OffsetPaging`, `FilesProofs` `ExportJobs` and `Startup`,
`AuthProofs` `AuthSessions` and with it `UserAdmin`, `AgentsProofs` the three of
`MCAgents`. `MCX` instantiates `X` for TLC.
Some MC modules hold several components that share no state: `MCAgents`
(`AgentRuns`, `AgentRules`, `SystemAgents`), `MCFiles` (`ExportJobs`, `Startup`),
`MCIngest` (`Ingest`, `CatchUp`), `MCPaging` (`HistoryPaging`, `OffsetPaging`) and
`MCUserAdmin` (`UserAdmin` alone, and inside `AuthSessions`). There a variable
`part` says which of them takes the steps of a behaviour, so their state spaces
add up instead of multiplying; an invariant of one is checked in all of its
states, and a liveness property asks for the fairness of its own part.

**How code becomes actions.** A goroutine or request is a process: a record that
says which step comes next and what it read so far. A step is one section under
a mutex, one statement, one call to WhatsApp or the runner, or one file
operation, together with all the local work up to the next of these; in between,
everybody else may run. A request that returns early goes back to idle in that
step. Values are reduced to what decides something: a snapshot to its status, a
device to the session object that paired it, a message to its identity and time
stamp. History variables (`overlapped`, `cut`, `muddled`, `astray`, `mislaid`,
`unanswered`, `broken`, `active`, `asked`, `settled`, `blind`, `fresh`, `torn`,
`kept`, `held`, `slips`) record that something happened which a property excepts; no action
looks at them, but for `torn`, which is the state of a file. A note at a hazard of
`PROJECT.json` says where the properties do not catch it but name the case, and show
that nothing else has the same effect.

- *SessionConnector.* `req` holds the requests pair, restore, send, logout, delete;
  `Ensure` is `ensureSession` under its lock, which sending a message calls as
  well and may so create or replace the session; `Check` and `Recheck` are the two
  looks at the client before it dials; `Dial`, `AwaitItem`, `RemoteLogout`,
  `HangUp`, `Drop` and so on are the following calls, in the order of
  `StartPairing`, `Restore`, `Logout` and `DeleteAccount`. `hand` holds event
  handlers, which whatsmeow runs in goroutines of their own: they may run after
  their session has been replaced. A restart forgets the map and the goroutines
  and keeps `stored`, `binding` and `account`.
- *StatusPipeline.* `Announce` puts a write into `writes`, `Land(i)` executes
  any of them, so later ones can be overtaken; `late` notes that. A session that
  is dropped and cannot be replaced leaves writes that are late as well. A request
  takes the steps of `SessionConnector`, a logout `RemoteLogout`, `Disconnect`,
  `Wipe`, `Unbind`, `Mark` and `Drop`, with events of the client between them. `Load` is
  ListAccounts, whose status read (`GetSessionState` … `Correct`) is a goroutine
  that a timeout abandons but does not stop.
- *Ingest.* A delivery goes through chat, contact, message, clear, insert,
  status, publish, the statements of `PersistEvent` and of the bridge after it.
  Every statement may fail, the process may stop, the account may be deleted.
- *HistoryPaging.* Four messages with any time stamps, any range of dates; one
  step reads a page (`ListMessages`), `Store` adds a message between two pages.
- *ExportJobs.* `worker` is the position in `processJob`; a file is none,
  partial or whole; `del` is `DeleteJob` between reading, deleting and removing.
- *AgentRuns.* `gen` is the request that generates, `snd` the requests that
  send. `Update` is `UpdateRunStatus`, `NoUpdate` the same statement when it is
  lost: the context ended, the row is gone, the database failed.
- *AgentRules.* A request that updates a rule reads it (`LoadRule`), writes the row
  (`UpdateRule`), deletes its accounts (`ClearAccounts`) and inserts them one by
  one (`BindAccount`), each a statement of its own; any may be the last
  (`FailRule`). `fresh` and `alone` note whether somebody else wrote meanwhile.
- *SystemAgents.* `UpsertSystemConfig` stores an agent, and then
  `DisableOtherSystemConfigs` disables the others of its purpose. A user's request
  looks an agent up, reads the newest messages, waits for the runner and stores
  the card. The chat is the number of its messages, a card the set of those it
  was made of; a foreign key keeps a card off a chat that is gone.
- *UserAdmin.* A request reads its target, looks for another administrator,
  reads the row again, writes it, and replaces the permissions one by one.
- *Invitations.* `lock` is the row lock of the transaction in `Register`;
  updates run without a transaction, and the CHECK of migration 0012 guards them.
- *AuthSessions.* `UserFromToken` reads a session with its user in one statement,
  `attachPermissions` the permissions in the next, and the middleware decides from
  both. `Observe` collects in `held` the reasons that were true at some moment of
  the request, whatever the request itself has read.
- *CatchUp.* A goroutine reserves its chat under the lock (`requested`), asks
  without it, and gives the chat free when the request fails, perhaps after the
  next connection has begun a new window.
- *OffsetPaging.* `Count` and `List` are two statements; between any two of them
  rows are inserted and deleted, and a chat moves (`UpsertChat`). The client asks for `offset + limit` next.
- *Scripts.* A request holds the mutex from `LockScripts` to its last step; the
  steps are the operations on files, of which a write of the index truncates
  first. A failing or cut write leaves `torn`, and `readIndex` then fails.
- *Startup.* `phase` is the position in `New` and `Run`: versions, migrations,
  the count of the users, creating the first or finding an administrator, orphans,
  scripts, serving, stopping. `ApplyFile` takes
  effect and is recorded in one transaction. `users` is what `Bootstrap` tells
  apart: no rows, rows of which one is an administrator (`led`), rows without one
  (`leaderless`), with which it fails. `UpdateUsers` is what the
  administration of users does to that while a process serves: two administrators
  may demote each other (`user_admin_race`), and one whose request was admitted
  before may name another. `Admins` of `Scripts` are the users who had the role
  when their request was admitted. `Vanish` is the end of a process with whatever
  it was doing.

## 3. Runs

| run | instance | states | what it shows |
|---|---|---|---|
| `session_connector` | 2 session objects, 2 requests, 2 handlers, 3 network events, 1 restart, requests do not overlap | 3.6 M | no orphaned client, a deleted account is silent, the slot's device is stored, the binding names the device in use |
| `session_overlap` | the same, overlapping, 1 event | violation | a pairing during the deletion leaves a live client |
| `status_pipeline` | 3 moves of network, requests, timeouts or failures | 688 k | the row follows the session; the console follows the client |
| `ingest` | 2 goroutines, 3 events, 2 messages, 2 time stamps, 1 failure, 1 stop; 3 chats, 2 requests, 3 connections | 114 k | ordering, media, announcements, storage in the end; one request for history after a connection |
| `history_paging` | 4 messages, 3 time stamps, pages of 2; 4 rows, 2 time stamps, limits asked 0, 1, 9 of default 2 and at most 3; of chats 3, of which 2 move | 4.4 M | pages descend and miss only ties; what a reader by offset misses is paid for by a deletion, an insertion between count and page, or a chat that moved |
| `history_paging_all` | the same | violation | messages of one second that do not fit on a page are in no export |
| `files_and_starts` | 2 jobs, 2 deletions, 2 failures, 1 stop; 2 documents, 2 users, 3 requests of which one is the start's, 2 versions, 1 failure, 2 signals or kills; the same with one request for a script and administrators that demote each other | 307 k | artifacts, deletions, refinement of `JobLifecycle`, jobs end; documents are kept, a start is complete and has an administrator, the process serves again unless a torn index or the lack of an administrator stops every start |
| `export_jobs_stop` | 1 job, 1 stop | violation | a stopped process leaves its job for ever |
| `user_admin` | 2 users, 3 requests of which 2 at once; or 1 of them beside 1 session, 1 login and 1 request in the middleware | 375 k | an administrator remains, columns change as asked, users keep permissions; who is admitted has the reasons |
| `user_admin_race` | the same | violation | two administrators remove each other |
| `agents` | 2 runs, 2 senders, 3 sends; 1 rule, 2 accounts, 2 requests at once of 3; 2 agents, 3 purposes, 2 administrators, 2 users, 2 messages | 729 k | one text, true statuses, runs end; rules serve and send as asked; one active agent, the one that is used; cards are current |
| `invitations` | 2 registrations and 2 updates at once, 2 e-mails, at most 2 uses | 256 k | uses are users, refinement of `InvitationCode`, updates write what they were asked to, nobody keeps the row |

**Why the bounds are enough.** Each hazard here is between two actors (two
requests, a request and a handler, two goroutines of one message, two pages) and
at most one accident; the instances have two of each actor, one or two
accidents, and let each actor start more than once, so that a process can meet
what an earlier one left behind. Three messages of one time stamp and pages of
two are the smallest case of a tie at the end of a page. Three network events let a
client connect, be lost and be evicted. Two session objects let a session be
replaced once; identities are not reused within a behaviour, which makes a
reference to an old session visible.

In `agents`, system agents run twice: with four changes and no users, and with
two changes and users. In `files_and_starts` the process runs twice as well: with
three requests for scripts while there is an administrator, and with one beside
`UpdateUsers`, since users and scripts meet only in the start. One rule is enough,
since rules meet only in an account, which no action counts. The middleware needs one administrator's request beside
it, as it reads only two statements.

Bounds that stand in a guard: `MaxEvents`, `MaxRestarts`, `MaxMoves`, `MaxWrites`,
`MaxEmits`, `MaxFaults`, `MaxStops`, `MaxRequests`, `MaxSends`, `MaxBegun`,
`MaxTime`, `MaxUses`,
`MaxRuleAsks`, `MaxConfigAsks`, `MaxMessages`, `MaxWindows`, `MaxScriptAsks`,
`MaxFailures`, `MaxVersion`, `MaxEnds`, `MaxMoved`. `MaxUses` of `Invitations` is the most that
a code may allow; `MaxHistory`, `ChatRequestLimit`, `Default` and `Most` are limits
of the code at small values. `MaxWrites = 0` lets the network, requests and reads begin
only when the writes to the row are done; what has begun then still meets the
writes that it causes itself, which can overtake each other. The same properties
hold with (`MaxMoves`, `MaxWrites`) = (2, 2) and (3, 1), which take longer. `MCSessionConnector`
stops at the first overlap (`CONSTRAINT Serialized`), since the properties of
that run say nothing beyond it. Symmetry is used in safety runs only. Deadlock is
not checked: every one of these systems may rest when nobody asks for anything
or a bound is used up.

**Fairness.** Only what the code schedules by itself is fair: goroutines and
handlers that have started take their steps (`WF` per job, delivery, run, sender,
request), statements and calls end. In `StatusPipeline` the console asks again
every few seconds, because it does so on a timer. `Invitations` needs strong
fairness for the two statements that wait for the row lock: PostgreSQL queues
those who wait. In `Startup` the container starts a process that ended (`restart:
unless-stopped` in `deploy/docker/docker-compose.all.yml`), a process that is there
takes its steps, and a stop comes to an end or to its timeout; a live stream need
never close. Nothing is assumed of users, of the network, of deletions, deployments or of
stops; a run of an agent relies on the time-outs of the runner's providers,
since the client of a stream has none.

**Findings.** The four violations are `findings` in `PROJECT.json`. The
conditions in the other properties are findings of a milder kind: they name
exactly which overlaps and failures the code does not guard against, and the
mutants show that without the guards the code does have, they would fail. What
`user_admin_race` ends in has a second consequence, which `Startup` contains:
once no row of `users` is an administrator, nobody passes `RequireAdmin` any more,
and `Bootstrap` ends every later start with "no administrator account exists"
(`auth/service.go:106`). `ServesReady` therefore promises an administrator to the
start and not to the process that serves, and `ProcessServesAgain` names this table as one
of the two things that keep the process down; that an administrator remains is
`AdminRemainsAlone` of `UserAdmin`, for requests that do not overlap.

## 4. Proofs

TLAPS proves the following for every value of the constants that satisfies the
assumptions of their modules. These say that sentinels are not elements, bounds
and limits are naturals and time stamps integers, that the e-mails, chats,
messages or rows of `Invitations`, `CatchUp`, `HistoryPaging` and `OffsetPaging` are
finitely many, and that a start has its request and its administrator.

| module | theorem | inductive invariant and why it is needed |
|---|---|---|
| `SessionConnectorProofs` | `TypeCorrect`, `NoOrphan` | `TypeInv /\ Always /\ (~overlapped => Serial)`: a client is up only in the slot or in the hands of the one active request; a request that has a session other than the slot has already hung it up |
| `SessionConnectorProofs` | `DeletionIsSilent`, `SlotDeviceKept`, `BindingFollowsDevice` | the same, with `SlotHolds` and `TrackHolds`: a deletion has dropped the session and its binding before the row goes; a device leaves the store only with its session marked or about to be dropped; the device of a client that is in was bound, is about to be bound by the handler of the event that says so, or its binding was mislaid |
| `StatusPipelineProofs` | `RowCatchesUp` | `LastWriteFits /\ RowFits` with `Held`: a request that looks at the client has its session; only the last of the writes to come matters; if nothing that was caused after it has landed it says what the session says, and so does the row once none are left |
| `IngestProofs` | `Covered`, `Announced`, `AsksOnce` | a delivery beyond the chat step has already raised `last_message_at` of its chat to its time stamp, and one that publishes has stored its message; the requests for a chat after a connection are at most its reservation and the failures of older requests, and the reservations are within the limit |
| `IngestProofs` | `MediaReplaced` | `MediaHolds`: the one delivery that replaces the media of an undisturbed message has inserted just what it does not still have to |
| `PagingProofs` | `PagesAreInOrder`, `MissedOnesTie`, `CompleteWithoutTies` | `HistoryIInv`: the cursor stands below all that was read, and what was wanted is read, shares the time stamp of a page's end, or is still to come |
| `PagingProofs` | `SkipsAreCounted` | `OffsetIInv`: of the rows that are due, those that rank before the next offset are at most those that are gone or have sunk, and the list is no longer than its count and the slips since |
| `FilesProofs` | `ArtifactSafe`, `RemovedForGood`, `Refinement` | the row tells where the worker is; the worker never writes again once the path is set; of the deleters one at most saw the row disappear |
| `FilesProofs` | `ServesWhenReady`, `ScriptsSurvive` | each phase of a start implies what the phases before it have done, until a request changes the roles: "led" holds from the administrator's phase to the last one before serving; one request at most has the mutex, and what the index and the files do not agree on is what it is still working on |
| `AuthProofs` | `AdminIsLeft`, `OnlyAsAsked` | alone, the administrator that was found before the write is still one at the write; what is written back is still what the table holds |
| `AuthProofs` | `UsersStayPermitted` | `PermitInv`: a regular user without permissions is the one whose permissions are being rewritten, and whoever rewrites them has some to insert |
| `AuthProofs` | `AdmissionHasReason`, `AdminIsLeftBesideAccess` | whatever a request in the middleware has read of a user, a role or a permission is among the facts that were observed since it came; each step of `AuthSessions` is a step of `UserAdmin` or leaves it alone |
| `InvitationsProofs` | `TypeCorrect`, `UsesAndUsersAgree`, `LimitIsKept`, `Refinement` | the row is locked exactly while a registration is between its statements, so the code stays as it was when it was consumed, and the commit is the one step that admits |
| `InvitationsProofs` | `UpdatesAsAsked` | `AskedInv`: updates that do not overlap work one at a time, and what the one that works will write is what it asks for or what the row still says |
| `AgentsProofs` | `TypeCorrect`, `NoneIsStuck`, `SendsOnce`, `StatusTellsTheTruth`, `LinksAreSent` | generation comes before sending; a run that nothing disturbed has one sender at most, and whatever was delivered of it is known to that sender or to its row |
| `AgentsProofs` | `OneIsActive`, `ActiveIsUsed`, `CardsKnowTheChat` | of each purpose, whoever has not yet disabled the others will do so, and the last one that enabled an agent undisturbed is the only one enabled; an analysis knows the chat as of its beginning |
| `AgentsProofs` | `RulesServeAsAsked`, `AutoSendNeedsALimit` | a request that nobody overlapped has inserted just what it does not still have to, so its last insertion completes the accounts; a request that nobody overtook has read the mode that the row still has |
| `AgentsProofs` | `EachAsAlone`, `AgentTypes` | none of its own: a behaviour of the three side by side is a behaviour of each |

Each proof has the same form: `Init => IInv`, one lemma per action, a lemma that
puts them together by the disjuncts of `Next`, then the theorem with PTL.

Every safety invariant and action property that a passing run checks is the
conclusion of a theorem. `CompleteWithoutTies` says more than a run does: equal time
stamps are the only reason for the gaps that `history_paging_all` finds.

One proof corrected what a small instance had shown: `RowFollowsSession` was false
for more moves than its run takes. `ensureSession` takes the session of a deleted
device out of the map and then may fail to load the binding
(`whatsmeow_connector.go:546`); an event of that session that was still to be
written then made the row say "connected" without a session. Such writes now count
as late, like the others that are not the newest status any more; `PageShowsLoss`
excepts the same rows.

Model-checked only: the liveness properties (`DeliveredIsStored`,
`JobEndsUndisturbed`, `ProcessServesAgain`, `RunEnds`, `EveryoneIsAnswered`,
`PageShowsConnected`, `PageShowsLoss`), as TLAPS does not reason about fairness and
ENABLED here. Induction over data is out of the prover's reach, so no theorem
relies on it: `SkipsAreCounted` counts rows with cardinalities of finite sets
instead of walking through the list.

## 5. Not modelled

- The agent runner: a stateless service whose answers are choices in `AgentRuns`
  and `SystemAgents`.
- The placeholder connector, health, configuration, logging, rendering of
  exports, the pages of the console: no state that could be wrong in more than one
  step, or wording only.
- What a message sent by hand says, the files of media, translating a list of
  messages: single reads, or one call to WhatsApp. What sending does to the session
  (`ensureSession`) is the request `send` of `SessionConnector` and
  `StatusPipeline`, and the event of a sent message is one of `Receive`.
- `last_seen_at` and `last_login_at`, the contents of contacts and messages,
  prompts, filters and providers of agents, passwords and token hashes: data that
  decides nothing that a property looks at. That a delayed event overwrites newer
  names or texts is by design (the last writer wins) and stays a hazard without a
  property.
- `DeleteExpiredSessions` has no caller: sessions that expired stay in the table
  and are refused by `UserFromToken`.
- Two processes that migrate the database at once: the deployment starts one.
- The whatsmeow library, PostgreSQL and the file system are external; only what
  the code relies on is modelled (event delivery in goroutines, row locks, CHECK,
  foreign keys and ON DELETE CASCADE, unique keys, truncation by a write).

## 6. Plan

Done, in this order, the most important behaviour first: `SessionConnector`,
`ExportJobs` with `JobLifecycle`, `Ingest`, `HistoryPaging`, `UserAdmin`,
`AgentRuns`, `StatusPipeline`, `Invitations` with `InvitationCode`, `AgentRules`, `SystemAgents`,
`AuthSessions`, `CatchUp`, `OffsetPaging`, `Scripts`, `Startup`, with the proofs of
section 4.

Next, proofs: a refinement of the status pipeline to "the row is one of the
statuses the session had"; that a delivery implements "the message is stored and
announced once, or not at all".

Next, modelling: the agent that `AgentRuns` generates with, looked up in
`SystemAgents` and `AgentRules` (`resolveManualRule`), as a composition of the
three; the runner's policy as an operator checked against its rules.

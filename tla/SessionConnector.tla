-------------------------- MODULE SessionConnector --------------------------
(***************************************************************************)
(* The WhatsmeowConnector of internal/sessions, for one account: the slot  *)
(* of c.sessions, the session objects (each with its whatsmeow client and  *)
(* device), the device binding in session_credentials and the whatsmeow    *)
(* device store.  Accounts do not share any of this, so one is enough.     *)
(*                                                                         *)
(* The requests of the account (pair, send, logout, delete) and the Restore *)
(* of a starting process are processes: c.mu is held only inside small     *)
(* helpers, so a request keeps a *whatsmeowSession across steps in which   *)
(* other requests and the handlers of client events run.  A step is one    *)
(* locked section, one call of the client or one database statement.       *)
(*                                                                         *)
(* A device is named by the session object that paired it.  Snapshots are  *)
(* reduced to their status; status reads, which only touch snapshots, and  *)
(* what happens to an emitted snapshot are the subject of StatusPipeline.  *)
(***************************************************************************)
EXTENDS Naturals, FiniteSets

CONSTANTS
    Sessions,    \* identities of session objects, in every run of the process
    Requests,    \* request goroutines
    Handlers,    \* goroutines in which the client delivers events
    None,        \* no session, no device
    Boot,        \* the goroutine that runs Restore when the process starts
    MaxEvents,   \* bound: how many events the network causes
    MaxRestarts  \* bound: how often the process restarts

ASSUME ConstantsAssumption ==
    /\ None \notin Sessions
    /\ Boot \in Requests
    /\ MaxEvents \in Nat
    /\ MaxRestarts \in Nat

VARIABLES
    slot,      \* c.sessions[account]
    used,      \* session objects that exist or existed
    dev,       \* client.Store.ID of a session object
    dead,      \* client.Store.Deleted of a session object
    link,      \* IsConnected and IsLoggedIn of the client
    qr,        \* the QR channel of the client and its cancelQR
    shown,     \* status of the snapshot of the session in the slot
    stored,    \* devices in the whatsmeow store
    binding,   \* session_credentials.device_id of the account
    account,   \* the accounts row exists
    req,       \* what each request is doing
    hand,      \* what each event handler is doing
    events,    \* network events so far
    restarts,  \* process restarts so far
    overlapped,\* two requests that change the session ran at the same time
    mislaid    \* a binding write failed, or a handler met a later session

vars == <<slot, used, dev, dead, link, qr, shown, stored, binding, account,
          req, hand, events, restarts, overlapped, mislaid>>
client == <<dev, dead, link, qr, stored>>
history == <<events, restarts, overlapped, mislaid>>

-----------------------------------------------------------------------------
Status == {"pending", "pairing", "connected", "reconnecting", "disconnected",
           "logged_out", "failed"}
Ops == {"pair", "restore", "send", "logout", "delete"}
Steps == {"ensure", "check", "recheck", "dial", "qrdial", "await", "find", "remote",
          "hangup", "wipe", "unbind", "mark", "drop", "unbind2", "erase"}
Kinds == {"Connected", "PairSuccess", "LoggedOut", "Disconnected",
          "StreamReplaced", "QRSuccess", "QRCode", "QRTimeout", "QRError"}

ReqState == [op : Ops \cup {"none"}, at : Steps \cup {"none"}, ses : Sessions \cup {None}]
HandState == [kind : Kinds \cup {"none"}, at : {"none", "start", "read", "write", "unbind"},
              ses : Sessions \cup {None}, dev : Sessions \cup {None}]

IdleReq == [op |-> "none", at |-> "none", ses |-> None]
IdleHand == [kind |-> "none", at |-> "none", ses |-> None, dev |-> None]

Active(r) == req[r].op \in Ops
Busy(s) == link[s] # "down"

Restoring == [IdleReq EXCEPT !.op = "restore", !.at = "ensure"]

\* A process starts with an account that has never been paired, or with one
\* that an earlier process paired and bound to device d.
Init ==
    \E d \in Sessions \cup {None} :
    /\ slot = None /\ used = {d} \ {None} /\ shown = "none"
    /\ stored = {d} \ {None} /\ binding = d /\ account = TRUE
    /\ req = [r \in Requests |-> IF r = Boot THEN Restoring ELSE IdleReq]
    /\ dev = [s \in Sessions |-> None]
    /\ dead = [s \in Sessions |-> FALSE]
    /\ link = [s \in Sessions |-> "down"]
    /\ qr = [s \in Sessions |-> "none"]
    /\ hand = [h \in Handlers |-> IdleHand]
    /\ events = 0 /\ restarts = 0
    /\ overlapped = FALSE /\ mislaid = FALSE

-----------------------------------------------------------------------------
(* Helpers of the connector. *)

\* updateSnapshot: only the session in the slot has a snapshot to change.
Show(st) == shown' = IF slot = None THEN "none" ELSE st

At(r, step) == req[r].at = step
Goto(r, step) == req' = [req EXCEPT ![r].at = step]
Hold(r, s, step) == req' = [req EXCEPT ![r] = [op |-> @.op, at |-> step, ses |-> s]]
Return(r) == req' = [req EXCEPT ![r] = IdleReq]

\* shouldResetWhatsmeowSession
ShouldReset(s) == s # None => dead[s]

\* cancelQR: the watcher of the QR channel notices later.
CancelQR(s) == [qr EXCEPT ![s] = IF @ = "open" THEN "cancelled" ELSE @]

\* client.Store.Delete: the device row goes and the Device is marked Deleted.
DeleteStore(s) ==
    /\ stored' = stored \ {dev[s]}
    /\ dev' = [dev EXCEPT ![s] = None]
    /\ dead' = [dead EXCEPT ![s] = TRUE]

\* Mutant of BoundDevice: the binding is used without a look at the store.
UncheckedDevice == binding

\* loadDeviceBinding and container.GetDevice: a device that is not in the
\* store any more is replaced by a new, unpaired one.
BoundDevice == IF binding \in stored THEN binding ELSE None

\* ensureSession: the slot's session if it is usable, else a new one.  The
\* stale one is cancelled, disconnected and dropped first, also when loading
\* the binding then fails.
EnsureSession(r, onOk, onError) ==
    \/ /\ ~ShouldReset(slot)
       /\ Hold(r, slot, onOk)
       /\ UNCHANGED <<slot, used, shown, client>>
    \/ /\ ShouldReset(slot)
       /\ link' = [link EXCEPT ![slot] = IF @ = "lost" THEN @ ELSE "down"]
       /\ \/ \E s \in Sessions \ used :
               /\ slot' = s
               /\ used' = used \cup {s}
               /\ dev' = [dev EXCEPT ![s] = BoundDevice]
               /\ shown' = IF BoundDevice = None THEN "pending" ELSE "disconnected"
               /\ Hold(r, s, onOk)
          \/ /\ slot' = None
             /\ shown' = "none"
             /\ IF onError = "return" THEN Return(r) ELSE Goto(r, onError)
             /\ UNCHANGED <<used, dev>>
       /\ qr' = CancelQR(slot)
       /\ UNCHANGED <<dead, stored>>

-----------------------------------------------------------------------------
(* Requests. *)

\* A handler of internal/accounts loads the row and calls the manager.
Begin(r, op) ==
    /\ req[r] = IdleReq
    /\ account
    /\ op # "restore"
    /\ req[Boot].op # "restore"      \* the server listens after Restore
    /\ req' = [req EXCEPT ![r] = [op |-> op, ses |-> None,
                                  at |-> IF op \in {"pair", "send"} THEN "ensure" ELSE "find"]]
    /\ overlapped' = (overlapped \/ \E q \in Requests : Active(q))
    /\ UNCHANGED <<slot, used, shown, client, binding, account, hand,
                   events, restarts, mislaid>>

Unchanged == UNCHANGED <<account, hand, history>>

Ensure(r) ==
    /\ At(r, "ensure")
    /\ IF req[r].op \in {"pair", "restore", "send"}
       THEN EnsureSession(r, "check", "return")
       ELSE EnsureSession(r, "remote", "unbind")
    /\ UNCHANGED binding
    /\ Unchanged

\* StartPairing, Restore, SendText and SendMedia look at the session they got;
\* a message needs nothing else of it, whether it can be sent or not.
Check(r) ==
    LET s == req[r].ses IN
    /\ At(r, "check")
    /\ \/ /\ link[s] = "in" \/ req[r].op = "send"
          /\ IF req[r].op = "pair" THEN Show("connected") ELSE UNCHANGED shown
          /\ Return(r)
          /\ UNCHANGED qr
       \/ /\ req[r].op = "restore"
          /\ link[s] = "open" \/ (dev[s] = None /\ link[s] # "in")
          /\ Return(r)
          /\ UNCHANGED <<shown, qr>>
       \/ /\ link[s] # "in" /\ dev[s] # None
          /\ req[r].op = "pair" \/ (req[r].op = "restore" /\ link[s] # "open")
          /\ Goto(r, "recheck")
          /\ UNCHANGED <<shown, qr>>
       \/ /\ req[r].op = "pair"
          /\ link[s] # "in" /\ dev[s] = None
          /\ IF link[s] = "open"
             THEN qr' = CancelQR(s) /\ Return(r)   \* GetQRChannel refuses
             ELSE qr' = [qr EXCEPT ![s] = "open"] /\ Goto(r, "qrdial")
          /\ UNCHANGED shown
    /\ UNCHANGED <<slot, used, dev, dead, link, stored, binding>>
    /\ Unchanged

\* connectExistingSession looks again.
Recheck(r) ==
    /\ At(r, "recheck")
    /\ \/ link[req[r].ses] = "in" /\ Return(r) /\ UNCHANGED shown
       \/ link[req[r].ses] # "in" /\ Show("reconnecting") /\ Goto(r, "dial")
    /\ UNCHANGED <<slot, used, client, binding>>
    /\ Unchanged

\* client.Connect for a paired device and for a QR channel.
Dial(r) ==
    LET s == req[r].ses IN
    /\ req[r].at \in {"dial", "qrdial"}
    /\ \/ /\ link[s] \in {"down", "lost"}
          /\ link' = [link EXCEPT ![s] = "open"]
          /\ IF At(r, "dial") THEN Return(r) ELSE Goto(r, "await")
          /\ UNCHANGED <<shown, qr>>
       \/ /\ Show("failed")
          /\ Return(r)
          /\ qr' = IF At(r, "dial") THEN qr ELSE CancelQR(s)
          /\ UNCHANGED link
    /\ UNCHANGED <<slot, used, dev, dead, stored, binding>>
    /\ Unchanged

\* awaitQRItem, then startQRFlow or startPairingCodeFlow.
AwaitItem(r) ==
    LET s == req[r].ses IN
    /\ At(r, "await")
    /\ \/ link[s] = "open" /\ qr[s] = "open" /\ Show("pairing") /\ UNCHANGED qr
       \/ Show("failed") /\ qr' = CancelQR(s)
    /\ Return(r)
    /\ UNCHANGED <<slot, used, dev, dead, link, stored, binding>>
    /\ Unchanged

\* Mutant of Find: DeleteAccount does not log out first.
FindNoLogout(r) ==
    /\ At(r, "find")
    /\ \/ req[r].op = "logout" /\ slot # None /\ Hold(r, slot, "remote")
       \/ req[r].op = "logout" /\ slot = None /\ binding # None /\ Goto(r, "ensure")
       \/ req[r].op = "delete" /\ Goto(r, "erase")
       \/ req[r].op = "logout" /\ slot = None /\ Return(r)
    /\ UNCHANGED <<slot, used, shown, client, binding>>
    /\ Unchanged

\* Logout looks for a session, then for a binding.  DeleteAccount goes on
\* whatever the logout returns.
Find(r) ==
    LET failed == IF req[r].op = "delete" THEN Goto(r, "erase") ELSE Return(r) IN
    /\ At(r, "find")
    /\ \/ slot # None /\ Hold(r, slot, "remote")
       \/ slot = None /\ binding # None /\ Goto(r, "ensure")
       \/ slot = None /\ failed      \* ErrSessionNotFound, or the load failed
    /\ UNCHANGED <<slot, used, shown, client, binding>>
    /\ Unchanged

\* cancelQR, then client.Logout when logged in; its failure is ignored.
RemoteLogout(r) ==
    LET s == req[r].ses IN
    /\ At(r, "remote")
    /\ qr' = CancelQR(s)
    /\ \/ link[s] = "in" /\ dev[s] # None
          /\ DeleteStore(s)
          /\ link' = [link EXCEPT ![s] = "down"]
       \/ UNCHANGED <<dev, dead, stored, link>>
    /\ Goto(r, "hangup")
    /\ UNCHANGED <<slot, used, shown, binding>>
    /\ Unchanged

\* Mutant of HangUp: Disconnect is not called.
HangUpForgotten(r) ==
    /\ At(r, "hangup")
    /\ Goto(r, "wipe")
    /\ UNCHANGED <<slot, used, shown, client, binding>>
    /\ Unchanged

HangUp(r) ==
    /\ At(r, "hangup")
    /\ link' = [link EXCEPT ![req[r].ses] = "down"]
    /\ Goto(r, "wipe")
    /\ UNCHANGED <<slot, used, shown, dev, dead, qr, stored, binding>>
    /\ Unchanged

\* Store.Delete when the device is still there; its failure is ignored.
Wipe(r) ==
    LET s == req[r].ses IN
    /\ At(r, "wipe")
    /\ (dev[s] # None /\ DeleteStore(s)) \/ UNCHANGED <<dev, dead, stored>>
    /\ Goto(r, "unbind")
    /\ UNCHANGED <<slot, used, shown, link, qr, binding>>
    /\ Unchanged

\* deleteDeviceBinding by the connector (which got no session when ensuring
\* one failed) and the second delete by Manager.Logout.
Unbind(r) ==
    /\ req[r].at \in {"unbind", "unbind2"}
    /\ \/ binding' = None /\ UNCHANGED mislaid
       \/ UNCHANGED binding /\ mislaid' = TRUE
    /\ IF At(r, "unbind")
       THEN Goto(r, IF req[r].ses = None THEN "unbind2" ELSE "mark")
       ELSE IF req[r].op = "delete" THEN Goto(r, "erase") ELSE Return(r)
    /\ UNCHANGED <<slot, used, shown, client, account, hand, events, restarts, overlapped>>

Mark(r) ==
    /\ At(r, "mark")
    /\ Show("logged_out")
    /\ Goto(r, "drop")
    /\ UNCHANGED <<slot, used, client, binding>>
    /\ Unchanged

\* removeSession goes by account: it drops whatever session is there now.
Drop(r) ==
    /\ At(r, "drop")
    /\ slot' = None /\ shown' = "none"
    /\ Goto(r, "unbind2")
    /\ UNCHANGED <<used, client, binding>>
    /\ Unchanged

\* DELETE FROM accounts cascades to session_credentials.  If it fails the account
\* stays, logged out.
Erase(r) ==
    /\ At(r, "erase")
    /\ \/ account' = FALSE /\ binding' = None
       \/ UNCHANGED <<account, binding>>
    /\ Return(r)
    /\ UNCHANGED <<slot, used, shown, client, hand, history>>

RequestStep(r) ==
    \/ \E op \in Ops : Begin(r, op)
    \/ Ensure(r) \/ Check(r) \/ Recheck(r) \/ Dial(r) \/ AwaitItem(r)
    \/ Find(r) \/ RemoteLogout(r) \/ HangUp(r) \/ Wipe(r) \/ Unbind(r)
    \/ Mark(r) \/ Drop(r) \/ Erase(r)

-----------------------------------------------------------------------------
(* The whatsmeow client (external): what the network does to a session's   *)
(* client, and the event it then delivers in a goroutine of its own.       *)

Deliver(kind, s) ==
    \E h \in Handlers :
        /\ hand[h] = IdleHand
        /\ hand' = [hand EXCEPT ![h] = [kind |-> kind, at |-> "start", ses |-> s, dev |-> None]]

Network == /\ events < MaxEvents
           /\ events' = events + 1
           /\ UNCHANGED <<slot, used, shown, binding, account, req, restarts, overlapped, mislaid>>

\* The server accepts the device.
Authenticate(s) ==
    /\ link[s] = "open" /\ dev[s] # None
    /\ link' = [link EXCEPT ![s] = "in"]
    /\ Deliver("Connected", s)
    /\ Network
    /\ UNCHANGED <<dev, dead, qr, stored>>

\* The phone scans the code: PairSuccess, and the success item of the channel.
PairDevice(s) ==
    /\ link[s] = "open" /\ dev[s] = None /\ ~dead[s] /\ qr[s] = "open"
    /\ dev' = [dev EXCEPT ![s] = s]
    /\ stored' = stored \cup {s}
    /\ qr' = [qr EXCEPT ![s] = "paired"]
    /\ Deliver("PairSuccess", s)
    /\ Network
    /\ UNCHANGED <<dead, link>>

\* consumeQRChannel: the remaining items.
QRItem(s) ==
    /\ \/ qr[s] = "paired" /\ Deliver("QRSuccess", s)
          /\ qr' = [qr EXCEPT ![s] = "none"] /\ UNCHANGED link
       \/ qr[s] = "open" /\ link[s] = "open" /\ Deliver("QRCode", s)
          /\ UNCHANGED <<qr, link>>
       \/ qr[s] = "open" /\ (Deliver("QRTimeout", s) \/ Deliver("QRError", s))
          /\ qr' = [qr EXCEPT ![s] = "none"]
          /\ link' = [link EXCEPT ![s] = "down"]
    /\ Network
    /\ UNCHANGED <<dev, dead, stored>>

\* The watcher of a cancelled channel closes it and hangs up an unpaired client.
QRWatcherStops(s) ==
    /\ qr[s] = "cancelled"
    /\ qr' = [qr EXCEPT ![s] = "none"]
    /\ link' = [link EXCEPT ![s] = IF dev[s] = None THEN "down" ELSE @]
    /\ UNCHANGED <<slot, used, shown, dev, dead, stored, binding, req>>
    /\ Unchanged

\* The connection breaks; EnableAutoReconnect dials again for a paired device.
Lose(s) ==
    /\ link[s] \in {"open", "in"}
    /\ link' = [link EXCEPT ![s] = IF dev[s] = None THEN "down" ELSE "lost"]
    /\ Deliver("Disconnected", s)
    /\ Network
    /\ UNCHANGED <<dev, dead, qr, stored>>

AutoReconnect(s) ==
    /\ link[s] = "lost"
    /\ link' = [link EXCEPT ![s] = "open"]
    /\ UNCHANGED <<slot, used, shown, dev, dead, qr, stored, binding, req>>
    /\ Unchanged

\* The phone unlinks the device, or another client takes the stream over.
Evict(s) ==
    /\ link[s] = "in"
    /\ link' = [link EXCEPT ![s] = "down"]
    /\ \/ DeleteStore(s) /\ Deliver("LoggedOut", s)
       \/ Deliver("StreamReplaced", s) /\ UNCHANGED <<dev, dead, stored>>
    /\ Network
    /\ UNCHANGED qr

ClientStep(s) == \/ Authenticate(s) \/ PairDevice(s) \/ QRItem(s) \/ QRWatcherStops(s)
                 \/ Lose(s) \/ AutoReconnect(s) \/ Evict(s)

-----------------------------------------------------------------------------
(* handleWhatsmeowEvent and handleQRChannelItem. *)

Snapshot == [Connected |-> "connected", PairSuccess |-> "pairing",
             LoggedOut |-> "logged_out", StreamReplaced |-> "failed",
             QRSuccess |-> "pairing", QRCode |-> "pairing",
             QRTimeout |-> "disconnected", QRError |-> "failed"]

Idle(h) == hand' = [hand EXCEPT ![h] = IdleHand]

\* Handlers know the account, not the session the event came from.
Meet(h) == mislaid' = (mislaid \/ slot # hand[h].ses)

HandlerUpdate(h) ==
    /\ hand[h].at = "start" /\ hand[h].kind # "Disconnected"
    /\ Show(Snapshot[hand[h].kind])
    /\ CASE hand[h].kind \in {"Connected", "PairSuccess"} -> hand' = [hand EXCEPT ![h].at = "read"]
         [] hand[h].kind = "LoggedOut" -> hand' = [hand EXCEPT ![h].at = "unbind"]
         [] OTHER -> Idle(h)
    /\ Meet(h)
    /\ UNCHANGED <<slot, used, client, binding, account, req, events, restarts, overlapped>>

\* Disconnected: the device is read before, and in another locked section than,
\* the snapshot is changed.  persistDeviceBinding: the same before the save.
HandlerRead(h) ==
    LET d == IF slot = None THEN None ELSE dev[slot] IN
    /\ hand[h].at = "read" \/ (hand[h].at = "start" /\ hand[h].kind = "Disconnected")
    /\ IF hand[h].kind # "Disconnected" /\ d = None
       THEN Idle(h)
       ELSE hand' = [hand EXCEPT ![h] = [kind |-> @.kind, at |-> "write", ses |-> @.ses, dev |-> d]]
    /\ Meet(h)
    /\ UNCHANGED <<slot, used, shown, client, binding, account, req, events, restarts, overlapped>>

HandlerDisconnected(h) ==
    /\ hand[h].at = "write" /\ hand[h].kind = "Disconnected"
    /\ Show(IF hand[h].dev = None THEN "disconnected" ELSE "reconnecting")
    /\ Idle(h)
    /\ Meet(h)
    /\ UNCHANGED <<slot, used, client, binding, account, req, events, restarts, overlapped>>

\* Mutant of HandlerSave: the device is read but not stored.
HandlerSaveForgotten(h) ==
    /\ hand[h].at = "write" /\ hand[h].kind # "Disconnected"
    /\ Idle(h)
    /\ UNCHANGED binding
    /\ Meet(h)
    /\ UNCHANGED <<slot, used, shown, client, account, req, events, restarts, overlapped>>

\* SaveDeviceBinding, refused by the foreign key when the account is gone.
HandlerSave(h) ==
    /\ hand[h].at = "write" /\ hand[h].kind # "Disconnected"
    /\ \/ account /\ binding' = hand[h].dev /\ Meet(h)
       \/ UNCHANGED binding /\ mislaid' = TRUE
    /\ Idle(h)
    /\ UNCHANGED <<slot, used, shown, client, account, req, events, restarts, overlapped>>

HandlerUnbind(h) ==
    /\ hand[h].at = "unbind"
    /\ \/ binding' = None /\ Meet(h)
       \/ UNCHANGED binding /\ mislaid' = TRUE
    /\ Idle(h)
    /\ UNCHANGED <<slot, used, shown, client, account, req, events, restarts, overlapped>>

HandlerStep(h) == \/ HandlerUpdate(h) \/ HandlerRead(h) \/ HandlerDisconnected(h)
                  \/ HandlerSave(h) \/ HandlerUnbind(h)

-----------------------------------------------------------------------------
\* The process dies; the next one restores the accounts it finds before it
\* serves requests.
Restart ==
    /\ restarts < MaxRestarts
    /\ restarts' = restarts + 1
    /\ slot' = None /\ shown' = "none"
    /\ link' = [s \in Sessions |-> "down"]
    /\ qr' = [s \in Sessions |-> "none"]
    /\ dev' = [s \in Sessions |-> None]
    /\ hand' = [h \in Handlers |-> IdleHand]
    /\ req' = [r \in Requests |->
                 IF r = Boot /\ account THEN Restoring ELSE IdleReq]
    /\ UNCHANGED <<used, dead, stored, binding, account, events, overlapped, mislaid>>

Next == \/ \E r \in Requests : RequestStep(r)
        \/ \E s \in Sessions : ClientStep(s)
        \/ \E h \in Handlers : HandlerStep(h)
        \/ Restart

Spec == Init /\ [][Next]_vars
-----------------------------------------------------------------------------
(* Properties. *)

TypeOK ==
    /\ slot \in Sessions \cup {None} /\ used \subseteq Sessions
    /\ dev \in [Sessions -> Sessions \cup {None}]
    /\ dead \in [Sessions -> BOOLEAN]
    /\ link \in [Sessions -> {"down", "lost", "open", "in"}]
    /\ qr \in [Sessions -> {"none", "open", "cancelled", "paired"}]
    /\ shown \in Status \cup {"none"} /\ (shown = "none" <=> slot = None)
    /\ stored \subseteq Sessions /\ binding \in Sessions \cup {None}
    /\ account \in BOOLEAN
    /\ req \in [Requests -> ReqState]
    /\ hand \in [Handlers -> HandState]
    /\ events \in 0..MaxEvents /\ restarts \in 0..MaxRestarts
    /\ overlapped \in BOOLEAN /\ mislaid \in BOOLEAN

(* As long as the requests on an account do not overlap, a client that is  *)
(* connected, or will reconnect by itself, belongs to the session in the   *)
(* map: no logout, failure, eviction or re-creation leaves one behind that *)
(* nobody can disconnect any more (Logout, ensureSession, StartPairing).   *)
NoOrphanClient == ~overlapped => \A s \in Sessions : Busy(s) => s = slot

(* Under the same condition an account that was deleted has no session, no *)
(* binding and no live client (DeleteAccount: "best-effort logout to avoid *)
(* leaving a live session around").                                        *)
DeletedAccountIsSilent ==
    ~overlapped /\ ~account =>
        slot = None /\ binding = None /\ \A s \in Sessions : ~Busy(s)

(* What the comment of DeleteAccount promises without the condition.       *)
NoLiveSessionAfterDelete == ~account => \A s \in Sessions : ~Busy(s)

(* The session in the map, unless it is marked for replacement, uses a     *)
(* device that the store has: it can reconnect (ensureSession, GetDevice). *)
SlotDeviceStored ==
    ~overlapped /\ slot # None /\ ~dead[slot] /\ dev[slot] # None => dev[slot] \in stored

(* When all handlers have run, a logged-in device is the bound one, so that *)
(* a restart finds it again (persistDeviceBinding, Restore).  It needs that *)
(* no binding write failed and no event handler outlived its session.       *)
BindingTracksDevice ==
    /\ ~overlapped /\ ~mislaid
    /\ \A h \in Handlers : hand[h] = IdleHand
    /\ \A r \in Requests : ~Active(r)
    /\ slot # None
    => (link[slot] = "in" => binding = dev[slot])
=============================================================================

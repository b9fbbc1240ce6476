----------------------- MODULE SessionConnectorProofs -----------------------
(***************************************************************************)
(* Proofs about SessionConnector: type correctness, and that requests      *)
(* which do not overlap never leave a live client outside the map.         *)
(***************************************************************************)
EXTENDS SessionConnector, TLAPS

\* A handler that runs has an event; a request that looks for a session has none.
HandKind == \A h \in Handlers :
               hand[h].at # "none" => hand[h].kind \in DOMAIN Snapshot \cup {"Disconnected"}

TypeInv == TypeOK /\ HandKind

(* The session a request works on is the one in the slot, and once it has  *)
(* hung up it stays down: only Dial brings a client up from nothing.       *)
Holding == {"check", "recheck", "dial", "qrdial", "await", "remote", "hangup", "wipe",
            "unbind", "mark", "drop"}
HungUp == {"wipe", "unbind", "mark", "drop"}

OneActive == \A r, q \in Requests : Active(r) /\ Active(q) => r = q
HoldsSlot == \A r \in Requests : req[r].at \in Holding => req[r].ses = slot
StartsEmpty == \A r \in Requests : req[r].at \in {"ensure", "find"} => req[r].ses = None
StaysDown == \A r \in Requests :
                req[r].at \in HungUp /\ slot # None => link[slot] = "down"
OnlySlotBusy == \A s \in Sessions : Busy(s) => s = slot
LostIsPaired == \A s \in Sessions : link[s] = "lost" => dev[s] # None

DeadIsWiped == \A s \in Sessions : dead[s] => dev[s] = None /\ s \in used
SlotUsed == slot # None => slot \in used
ActiveAt == \A r \in Requests : req[r].at # "none" => Active(r)

Always == SlotUsed /\ ActiveAt /\ StartsEmpty
Serial == /\ OneActive /\ HoldsSlot /\ StaysDown
          /\ OnlySlotBusy /\ LostIsPaired /\ DeadIsWiped

IInv == TypeInv /\ Always /\ (~overlapped => Serial)

-----------------------------------------------------------------------------
(* Type correctness.  First what the helpers of the connector produce. *)

LEMMA IdleTypes == IdleReq \in ReqState /\ Restoring \in ReqState /\ IdleHand \in HandState
  BY DEF IdleReq, Restoring, IdleHand, ReqState, HandState, Ops, Steps

LEMMA GotoType ==
  ASSUME req \in [Requests -> ReqState], NEW r \in Requests, NEW step \in Steps, Goto(r, step)
  PROVE  req' \in [Requests -> ReqState]
  BY DEF Goto, ReqState

LEMMA ReturnType ==
  ASSUME req \in [Requests -> ReqState], NEW r \in Requests, Return(r)
  PROVE  req' \in [Requests -> ReqState]
  BY IdleTypes DEF Return

LEMMA HoldType ==
  ASSUME req \in [Requests -> ReqState], NEW r \in Requests, NEW step \in Steps,
         NEW s \in Sessions \cup {None}, Hold(r, s, step)
  PROVE  req' \in [Requests -> ReqState]
  BY DEF Hold, ReqState

LEMMA CancelQRType ==
  ASSUME TypeOK, NEW s
  PROVE  CancelQR(s) \in [Sessions -> {"none", "open", "cancelled", "paired"}]
  BY DEF TypeOK, CancelQR

LEMMA DeleteStoreType ==
  ASSUME TypeOK, NEW s, DeleteStore(s)
  PROVE  /\ stored' \subseteq Sessions
         /\ dev' \in [Sessions -> Sessions \cup {None}]
         /\ dead' \in [Sessions -> BOOLEAN]
  BY DEF TypeOK, DeleteStore

LEMMA DeliverType ==
  ASSUME TypeInv, NEW s \in Sessions, NEW kind \in Kinds, Deliver(kind, s)
  PROVE  hand' \in [Handlers -> HandState] /\ HandKind'
<1> USE DEF TypeInv, TypeOK
<1>1. PICK h \in Handlers :
        hand' = [hand EXCEPT ![h] = [kind |-> kind, at |-> "start", ses |-> s, dev |-> None]]
  BY DEF Deliver
<1>2. hand' \in [Handlers -> HandState]
  BY <1>1 DEF HandState
<1>3. HandKind'
  BY <1>1 DEF HandKind, Snapshot, Kinds
<1>4. QED
  BY <1>2, <1>3

LEMMA InitTypeInv == Init => TypeInv
<1> SUFFICES ASSUME Init PROVE TypeInv
    OBVIOUS
<1>1. TypeOK
  <2>1. PICK d \in Sessions \cup {None} : used = {d} \ {None} /\ stored = {d} \ {None} /\ binding = d
    BY DEF Init
  <2>2. used \subseteq Sessions /\ stored \subseteq Sessions /\ binding \in Sessions \cup {None}
    BY <2>1
  <2>3. req \in [Requests -> ReqState] /\ hand \in [Handlers -> HandState]
    <3>1. /\ req = [r \in Requests |-> IF r = Boot THEN Restoring ELSE IdleReq]
          /\ hand = [h \in Handlers |-> IdleHand]
      BY DEF Init
    <3>2. QED
      BY <3>1, IdleTypes
  <2>4. /\ dev \in [Sessions -> Sessions \cup {None}]
        /\ dead \in [Sessions -> BOOLEAN]
        /\ link \in [Sessions -> {"down", "lost", "open", "in"}]
        /\ qr \in [Sessions -> {"none", "open", "cancelled", "paired"}]
    BY DEF Init
  <2>5. /\ slot = None /\ shown = "none" /\ events = 0 /\ restarts = 0
        /\ account \in BOOLEAN /\ overlapped \in BOOLEAN /\ mislaid \in BOOLEAN
    BY DEF Init
  <2>6. QED
    BY <2>2, <2>3, <2>4, <2>5, ConstantsAssumption DEF TypeOK, ConstantsAssumption
<1>2. HandKind
  BY DEF Init, HandKind, IdleHand
<1>3. QED
  BY <1>1, <1>2 DEF TypeInv

LEMMA StepTypeInv == TypeInv /\ [Next]_vars => TypeInv'
<1> SUFFICES ASSUME TypeInv, [Next]_vars PROVE TypeInv'
    OBVIOUS
<1> USE ConstantsAssumption, GotoType, HoldType, ReturnType, CancelQRType,
        DeleteStoreType, DeliverType, IdleTypes
    DEF ConstantsAssumption
<1>1. ASSUME NEW r \in Requests, RequestStep(r) PROVE TypeInv'
  <2>1. ASSUME NEW op \in Ops, Begin(r, op) PROVE TypeInv'
    <3>1. req' \in [Requests -> ReqState]
      BY <2>1 DEF Begin, TypeInv, TypeOK, ReqState, Ops, Steps
    <3>2. QED
      BY <2>1, <3>1 DEF Begin, TypeInv, TypeOK, HandKind, client
  <2>2. CASE Ensure(r)
    <3> USE <2>2 DEF TypeInv, TypeOK, Ensure, EnsureSession, Unchanged, history, client
    <3>1. req' \in [Requests -> ReqState]
      BY DEF Steps
    <3>2. QED
      BY <3>1 DEF BoundDevice, ShouldReset, HandKind, Status
  <2>3. CASE Check(r)
    <3> USE <2>3 DEF TypeInv, TypeOK, Check, Unchanged, history
    <3>1. req' \in [Requests -> ReqState]
      BY DEF Steps
    <3>2. QED
      BY <3>1 DEF HandKind, Status, Show
  <2>4. CASE Dial(r)
    <3> USE <2>4 DEF TypeInv, TypeOK, Dial, Unchanged, history
    <3>1. req' \in [Requests -> ReqState]
      BY DEF Steps
    <3>2. QED
      BY <3>1 DEF HandKind, Status, Show
  <2>5. CASE AwaitItem(r)
    BY <2>5 DEF TypeInv, TypeOK, AwaitItem, Unchanged, history, HandKind, Status, Show
  <2>6. CASE Find(r)
    <3> USE <2>6 DEF TypeInv, TypeOK, Find, Unchanged, history, client
    <3>1. req' \in [Requests -> ReqState]
      BY DEF Steps
    <3>2. QED
      BY <3>1 DEF HandKind
  <2>7. CASE RemoteLogout(r)
    <3> USE <2>7 DEF TypeInv, TypeOK, RemoteLogout, Unchanged, history
    <3>1. req' \in [Requests -> ReqState]
      BY DEF Steps
    <3>2. QED
      BY <3>1 DEF HandKind
  <2>8. CASE HangUp(r)
    <3> USE <2>8 DEF TypeInv, TypeOK, HangUp, Unchanged, history
    <3>1. req' \in [Requests -> ReqState]
      BY DEF Steps
    <3>2. QED
      BY <3>1 DEF HandKind
  <2>9. CASE Wipe(r)
    <3> USE <2>9 DEF TypeInv, TypeOK, Wipe, Unchanged, history
    <3>1. req' \in [Requests -> ReqState]
      BY DEF Steps
    <3>2. QED
      BY <3>1 DEF HandKind
  <2>10. CASE Unbind(r)
    <3> USE <2>10 DEF TypeInv, TypeOK, Unbind, client
    <3>1. req' \in [Requests -> ReqState]
      BY DEF Steps
    <3>2. QED
      BY <3>1 DEF HandKind
  <2>11. CASE Mark(r)
    <3> USE <2>11 DEF TypeInv, TypeOK, Mark, Unchanged, history, client
    <3>1. req' \in [Requests -> ReqState]
      BY DEF Steps
    <3>2. QED
      BY <3>1 DEF HandKind, Show, Status
  <2>12. CASE Drop(r)
    <3> USE <2>12 DEF TypeInv, TypeOK, Drop, Unchanged, history, client
    <3>1. req' \in [Requests -> ReqState]
      BY DEF Steps
    <3>2. QED
      BY <3>1 DEF HandKind
  <2>13. CASE Erase(r)
    BY <2>13 DEF Erase, TypeInv, TypeOK, HandKind, client, history
  <2>14. CASE Recheck(r)
    <3> USE <2>14 DEF TypeInv, TypeOK, Recheck, Unchanged, history, client
    <3>1. req' \in [Requests -> ReqState]
      BY DEF Steps
    <3>2. QED
      BY <3>1 DEF HandKind, Status, Show
  <2>15. QED
    BY <1>1, <2>1, <2>2, <2>3, <2>4, <2>5, <2>6, <2>7, <2>8, <2>9, <2>10,
       <2>11, <2>12, <2>13, <2>14 DEF RequestStep
<1>2. ASSUME NEW s \in Sessions, ClientStep(s) PROVE TypeInv'
  <2> USE DEF TypeInv, TypeOK, HandKind, Network, Kinds, Unchanged, history
  <2>1. CASE Authenticate(s)
    BY <2>1 DEF Authenticate
  <2>2. CASE PairDevice(s)
    BY <2>2 DEF PairDevice
  <2>3. CASE QRItem(s)
    BY <2>3 DEF QRItem
  <2>4. CASE QRWatcherStops(s)
    BY <2>4 DEF QRWatcherStops
  <2>5. CASE Lose(s)
    BY <2>5 DEF Lose
  <2>6. CASE AutoReconnect(s)
    BY <2>6 DEF AutoReconnect
  <2>7. CASE Evict(s)
    BY <2>7 DEF Evict
  <2> HIDE DEF TypeInv
  <2>8. QED
    BY <1>2, <2>1, <2>2, <2>3, <2>4, <2>5, <2>6, <2>7 DEF ClientStep
<1>3. ASSUME NEW h \in Handlers, HandlerStep(h) PROVE TypeInv'
  <2> USE DEF TypeInv, TypeOK, HandKind, client, Meet, Idle
  <2>1. CASE HandlerUpdate(h)
    <3> USE <2>1 DEF HandlerUpdate
    <3>1. hand' \in [Handlers -> HandState]
      BY DEF HandState
    <3>2. shown' \in Status \cup {"none"} /\ (shown' = "none" <=> slot' = None)
      BY DEF Show, Snapshot, Status
    <3>3. HandKind'
      BY DEF IdleHand, HandState
    <3>4. QED
      BY <3>1, <3>2, <3>3
  <2>2. CASE HandlerRead(h)
    <3> USE <2>2
    <3> DEFINE d == IF slot = None THEN None ELSE dev[slot]
    <3>0. /\ d \in Sessions \cup {None}
          /\ hand[h].at # "none"
          /\ \/ hand' = [hand EXCEPT ![h] = IdleHand]
             \/ hand' = [hand EXCEPT ![h] = [kind |-> hand[h].kind, at |-> "write",
                                            ses |-> hand[h].ses, dev |-> d]]
      BY DEF HandlerRead
    <3> HIDE DEF d
    <3>1. hand' \in [Handlers -> HandState]
      BY <3>0 DEF HandState
    <3>2. HandKind'
      BY <3>0 DEF IdleHand, HandState
    <3>3. QED
      BY <3>1, <3>2 DEF HandlerRead
  <2>3. CASE HandlerDisconnected(h)
    BY <2>3 DEF HandlerDisconnected, Show, Status, IdleHand
  <2>4. CASE HandlerSave(h)
    <3>1. hand[h].dev \in Sessions \cup {None}
      BY DEF HandState
    <3>2. QED
      BY <2>4, <3>1 DEF HandlerSave, IdleHand
  <2>5. CASE HandlerUnbind(h)
    BY <2>5 DEF HandlerUnbind, IdleHand
  <2> HIDE DEF TypeInv
  <2>6. QED
    BY <1>3, <2>1, <2>2, <2>3, <2>4, <2>5 DEF HandlerStep
<1>4. CASE Restart
  BY <1>4 DEF Restart, TypeInv, TypeOK, HandKind, IdleHand
<1>5. CASE UNCHANGED vars
  BY <1>5 DEF vars, TypeInv, TypeOK, HandKind
<1>6. QED
  BY <1>1, <1>2, <1>3, <1>4, <1>5 DEF Next

(* Every variable of the connector keeps its type; in particular a         *)
(* snapshot exists exactly while the map has a session (c.sessions,        *)
(* updateSnapshot, removeSession).                                         *)
THEOREM TypeCorrect == Spec => []TypeOK
<1>1. TypeInv => TypeOK
  BY DEF TypeInv
<1>2. QED
  BY <1>1, InitTypeInv, StepTypeInv, PTL DEF Spec

-----------------------------------------------------------------------------
(* The inductive invariant.  First how a request moves: the others do not, *)
(* and while requests do not overlap they are all idle.                    *)

LEMMA GotoAt ==
  ASSUME TypeInv, NEW r \in Requests, NEW step, Goto(r, step)
  PROVE  /\ req'[r].at = step /\ req'[r].ses = req[r].ses /\ req'[r].op = req[r].op
         /\ \A q \in Requests \ {r} : req'[q] = req[q]
  BY DEF Goto, TypeInv, TypeOK, ReqState

LEMMA HoldAt ==
  ASSUME TypeInv, NEW r \in Requests, NEW step, NEW s, Hold(r, s, step)
  PROVE  /\ req'[r].at = step /\ req'[r].ses = s /\ req'[r].op = req[r].op
         /\ \A q \in Requests \ {r} : req'[q] = req[q]
  BY DEF Hold, TypeInv, TypeOK, ReqState

LEMMA ReturnAt ==
  ASSUME TypeInv, NEW r \in Requests, Return(r)
  PROVE  /\ req'[r].at = "none" /\ req'[r].op = "none"
         /\ \A q \in Requests \ {r} : req'[q] = req[q]
  BY DEF Return, TypeInv, TypeOK, IdleReq

\* What is left to show of a step that only request r takes.
LEMMA LoneStep ==
  ASSUME IInv, NEW r \in Requests, Active(r), overlapped' = overlapped,
         \A q \in Requests \ {r} : req'[q] = req[q],
         req'[r].at # "none" => Active(r)',
         req'[r].at \in {"ensure", "find"} => req'[r].ses = None
  PROVE  /\ ActiveAt' /\ StartsEmpty'
         /\ ~overlapped' =>
              /\ OneActive'
              /\ HoldsSlot' <=> (req'[r].at \in Holding => req'[r].ses = slot')
              /\ StaysDown' <=>
                   (req'[r].at \in HungUp /\ slot' # None => link'[slot'] = "down")
<1> USE DEF IInv, Always
<1>1. ActiveAt'
  BY DEF ActiveAt, Active
<1>2. StartsEmpty'
  BY DEF StartsEmpty
<1>3. ASSUME ~overlapped'
      PROVE  /\ OneActive'
             /\ HoldsSlot' <=> (req'[r].at \in Holding => req'[r].ses = slot')
             /\ StaysDown' <=>
                  (req'[r].at \in HungUp /\ slot' # None => link'[slot'] = "down")
  <2>1. \A q \in Requests \ {r} : ~Active(q) /\ req[q].at = "none"
    BY <1>3 DEF Serial, OneActive, ActiveAt
  <2>2. \A q \in Requests \ {r} : ~Active(q)' /\ req'[q].at = "none"
    BY <2>1 DEF Active
  <2>3. OneActive'
    BY <2>2 DEF OneActive
  <2>4. HoldsSlot' <=> (req'[r].at \in Holding => req'[r].ses = slot')
    BY <2>2 DEF HoldsSlot, Holding
  <2>5. StaysDown' <=>
          (req'[r].at \in HungUp /\ slot' # None => link'[slot'] = "down")
    BY <2>2 DEF StaysDown, HungUp
  <2>6. QED
    BY <2>3, <2>4, <2>5
<1>4. QED
  BY <1>1, <1>2, <1>3

LEMMA FrameIInv ==
  ASSUME IInv, TypeInv', UNCHANGED <<slot, used, dev, dead, link, req, overlapped>>
  PROVE  IInv'
  BY DEF IInv, Always, Serial, DeadIsWiped, SlotUsed, ActiveAt, StartsEmpty, Active,
         OneActive, HoldsSlot, StaysDown, OnlySlotBusy, LostIsPaired, Busy

LEMMA InitIInv == Init => IInv
<1> SUFFICES ASSUME Init PROVE IInv
    OBVIOUS
<1>1. /\ slot = None /\ req = [r \in Requests |-> IF r = Boot THEN Restoring ELSE IdleReq]
      /\ dead = [s \in Sessions |-> FALSE] /\ link = [s \in Sessions |-> "down"]
  BY DEF Init
<1>2. \A r \in Requests : r = Boot \/ (~Active(r) /\ req[r].at = "none")
  BY <1>1 DEF Active, IdleReq, Ops
<1>3. ASSUME NEW r \in Requests, r = Boot
      PROVE  Active(r) /\ req[r].at = "ensure" /\ req[r].ses = None
  BY <1>1, <1>3 DEF Active, Restoring, IdleReq, Ops
<1>4. Always
  BY <1>1, <1>2, <1>3 DEF Always, SlotUsed, ActiveAt, StartsEmpty
<1>5. Serial
  BY <1>1, <1>2, <1>3
  DEF Serial, DeadIsWiped, OneActive, HoldsSlot, StaysDown, OnlySlotBusy, LostIsPaired, Busy, Holding, HungUp
<1>6. QED
  BY <1>4, <1>5, InitTypeInv DEF IInv

LEMMA RequestStepIInv ==
  ASSUME IInv, TypeInv', NEW r \in Requests, RequestStep(r)
  PROVE  IInv'
<1> USE GotoAt, HoldAt, ReturnAt, ConstantsAssumption DEF ConstantsAssumption, IInv
<1> DEFINE Kept == UNCHANGED <<slot, used, dev, dead, link>>
           Moved == /\ Active(r) /\ overlapped' = overlapped
                    /\ \A q \in Requests \ {r} : req'[q] = req[q]
                    /\ req'[r].at # "none" => Active(r)'
                    /\ req'[r].at \in {"ensure", "find"} => req'[r].ses = None
\* The data part of the invariant, when r moves and nothing else changes.
<1>1. ASSUME Kept, Moved,
             ~overlapped => /\ req'[r].at \in Holding => req'[r].ses = slot
                            /\ req'[r].at \in HungUp /\ slot # None => link[slot] = "down"
      PROVE  IInv'
  <2>1. SlotUsed'
    BY <1>1 DEF Always, SlotUsed
  <2>2. ~overlapped' => OnlySlotBusy' /\ LostIsPaired' /\ DeadIsWiped'
    BY <1>1 DEF Serial, OnlySlotBusy, LostIsPaired, DeadIsWiped, Busy
  <2>3. QED
    BY <1>1, <2>1, <2>2, LoneStep DEF Always, Serial
<1>2. ASSUME NEW op \in Ops, Begin(r, op) PROVE IInv'
  <2> USE <1>2 DEF Begin, client
  <2>2. /\ Active(r)' /\ req'[r].at \in {"ensure", "find"} /\ req'[r].ses = None
        /\ \A q \in Requests \ {r} : req'[q] = req[q]
    BY DEF Active, TypeInv, TypeOK
  <2>3. Always'
    BY <2>2 DEF Always, SlotUsed, ActiveAt, StartsEmpty, Active
  <2>4. ASSUME ~overlapped' PROVE Serial'
    <3>1. ~overlapped /\ \A q \in Requests : ~Active(q)
      BY <2>4 DEF TypeInv, TypeOK
    <3>2. \A q \in Requests \ {r} : ~Active(q)' /\ req'[q].at = "none"
      BY <2>2, <3>1 DEF Always, ActiveAt, Active
    <3>3. QED
      BY <2>2, <3>1, <3>2
      DEF Serial, OneActive, HoldsSlot, StaysDown, OnlySlotBusy, LostIsPaired, DeadIsWiped,
          Busy, Holding, HungUp
  <2>5. QED
    BY <2>3, <2>4
<1>3. CASE Check(r)
  <2> USE <1>3 DEF Check, Unchanged, history
  <2>1. Kept /\ overlapped' = overlapped /\ Active(r)
    BY DEF Always, ActiveAt, At
  <2>2. Return(r) \/ Goto(r, "recheck") \/ Goto(r, "qrdial")
    OBVIOUS
  <2>3. ~overlapped => req[r].ses = slot
    BY DEF Serial, HoldsSlot, Holding, At
  <2>4. QED
    BY <1>1, <2>1, <2>2, <2>3 DEF Active, Holding, HungUp
<1>4. CASE AwaitItem(r)
  <2> USE <1>4 DEF AwaitItem, Unchanged, history
  <2>1. Kept /\ overlapped' = overlapped /\ Active(r) /\ Return(r)
    BY DEF Always, ActiveAt, At
  <2>2. QED
    BY <1>1, <2>1 DEF Active, Holding, HungUp
<1>5. CASE Find(r)
  <2> USE <1>5 DEF Find, Unchanged, history, client
  <2>1. Kept /\ overlapped' = overlapped /\ Active(r) /\ req[r].ses = None
    BY DEF Always, ActiveAt, At, StartsEmpty
  <2>2. Hold(r, slot, "remote") \/ Goto(r, "ensure") \/ Goto(r, "erase") \/ Return(r)
    OBVIOUS
  <2>3. QED
    BY <1>1, <2>1, <2>2 DEF Active, Holding, HungUp
<1>6. CASE Unbind(r)
  <2> USE <1>6 DEF Unbind, client
  <2>1. Kept /\ overlapped' = overlapped /\ Active(r)
    BY DEF Always, ActiveAt, At
  <2>2. \/ At(r, "unbind") /\ (Goto(r, "unbind2") \/ Goto(r, "mark"))
        \/ Goto(r, "erase") \/ Return(r)
    OBVIOUS
  <2>3. QED
    BY <1>1, <2>1, <2>2 DEF Active, Holding, HungUp, At, Serial, HoldsSlot, StaysDown
<1>7. CASE Mark(r)
  <2> USE <1>7 DEF Mark, Unchanged, history, client
  <2>1. Kept /\ overlapped' = overlapped /\ Active(r) /\ Goto(r, "drop")
    BY DEF Always, ActiveAt, At
  <2>2. QED
    BY <1>1, <2>1 DEF Active, Holding, HungUp, At, Serial, HoldsSlot, StaysDown
<1>8. CASE Erase(r)
  <2> USE <1>8 DEF Erase, history, client
  <2>1. Kept /\ overlapped' = overlapped /\ Active(r) /\ Return(r)
    BY DEF Always, ActiveAt, At
  <2>2. QED
    BY <1>1, <2>1 DEF Active, Holding, HungUp
<1>9. CASE Ensure(r)
  <2> USE <1>9 DEF Ensure, Unchanged, history
  <2>1. Active(r) /\ req[r].ses = None /\ overlapped' = overlapped
    BY DEF Always, ActiveAt, StartsEmpty, At
  <2>2. PICK onOk \in {"check", "remote"}, onError \in {"return", "unbind"} :
          EnsureSession(r, onOk, onError)
    OBVIOUS
  <2>3. CASE ~ShouldReset(slot)
    <3>1. Kept /\ Hold(r, slot, onOk)
      BY <2>2, <2>3 DEF EnsureSession, client
    <3>2. slot # None
      BY <2>3 DEF ShouldReset
    <3>3. QED
      BY <1>1, <2>1, <3>1 DEF Active, Holding, HungUp
  <2>4. CASE ShouldReset(slot)
    <3>1. link' = [link EXCEPT ![slot] = IF @ = "lost" THEN @ ELSE "down"] /\ dead' = dead
      BY <2>2, <2>4 DEF EnsureSession
    <3>2. ~overlapped => \A s \in Sessions : link'[s] = "down"
      BY <2>4, <3>1 DEF ShouldReset, DeadIsWiped, Serial, LostIsPaired,
         OnlySlotBusy, Busy, TypeInv, TypeOK
    <3>3. ~overlapped => OnlySlotBusy' /\ LostIsPaired'
      BY <3>2 DEF OnlySlotBusy, LostIsPaired, Busy
    <3>4. ASSUME NEW s \in Sessions \ used, slot' = s, used' = used \cup {s},
                 dev' = [dev EXCEPT ![s] = BoundDevice], Hold(r, s, onOk)
          PROVE  IInv'
      <4>1. Moved /\ req'[r].at = onOk /\ req'[r].ses = slot'
        BY <2>1, <3>4 DEF Active
      <4>2. SlotUsed' /\ (~overlapped => DeadIsWiped')
        BY <3>1, <3>4 DEF Always, Serial, DeadIsWiped, SlotUsed, TypeInv, TypeOK
      <4>3. QED
        BY <2>1, <3>3, <4>1, <4>2, LoneStep DEF Always, Serial, Holding, HungUp
    <3>5. ASSUME slot' = None, UNCHANGED <<used, dev>>,
                 IF onError = "return" THEN Return(r) ELSE Goto(r, onError)
          PROVE  IInv'
      <4>1. Moved /\ (req'[r].at \in Holding => req'[r].ses = None)
        BY <2>1, <3>5 DEF Active, Holding
      <4>2. SlotUsed' /\ (~overlapped => DeadIsWiped')
        BY <3>1, <3>5 DEF Always, Serial, DeadIsWiped, SlotUsed
      <4>3. QED
        BY <3>3, <3>5, <4>1, <4>2, LoneStep DEF Always, Serial
    <3>6. \/ \E s \in Sessions \ used :
               /\ slot' = s /\ used' = used \cup {s}
               /\ dev' = [dev EXCEPT ![s] = BoundDevice] /\ Hold(r, s, onOk)
          \/ /\ slot' = None /\ UNCHANGED <<used, dev>>
             /\ IF onError = "return" THEN Return(r) ELSE Goto(r, onError)
      BY <2>2, <2>4 DEF EnsureSession
    <3>7. QED
      BY <3>4, <3>5, <3>6
  <2>5. QED
    BY <2>3, <2>4
<1>10. CASE Dial(r)
  <2> USE <1>10 DEF Dial, Unchanged, history
  <2>1. /\ UNCHANGED <<slot, used, dev, dead>> /\ overlapped' = overlapped /\ Active(r)
        /\ Return(r) \/ Goto(r, "await")
        /\ link' = link \/ link' = [link EXCEPT ![req[r].ses] = "open"]
    BY DEF Always, ActiveAt, At
  <2>2. Moved
    BY <2>1 DEF Active
  <2>3. ~overlapped => req[r].ses = slot
    BY DEF Serial, HoldsSlot, Holding
  <2>4. SlotUsed' /\ (~overlapped => DeadIsWiped')
    BY <2>1 DEF Always, Serial, DeadIsWiped, SlotUsed
  <2>5. ~overlapped => OnlySlotBusy' /\ LostIsPaired'
    BY <2>1, <2>3 DEF Serial, OnlySlotBusy, LostIsPaired, Busy, TypeInv, TypeOK
  <2>6. QED
    BY <2>1, <2>2, <2>3, <2>4, <2>5, LoneStep DEF Always, Serial, Holding, HungUp
<1>11. CASE HangUp(r)
  <2> USE <1>11 DEF HangUp, Unchanged, history
  <2>1. /\ UNCHANGED <<slot, used, dev, dead>> /\ overlapped' = overlapped /\ Active(r)
        /\ Goto(r, "wipe")
        /\ link' = [link EXCEPT ![req[r].ses] = "down"]
    BY DEF Always, ActiveAt, At
  <2>2. Moved
    BY <2>1 DEF Active
  <2>3. ~overlapped => req[r].ses = slot
    BY DEF Serial, HoldsSlot, Holding, At
  <2>4. SlotUsed' /\ (~overlapped => DeadIsWiped')
    BY <2>1 DEF Always, Serial, DeadIsWiped, SlotUsed
  <2>5. ~overlapped => OnlySlotBusy' /\ LostIsPaired'
    BY <2>1, <2>3 DEF Serial, OnlySlotBusy, LostIsPaired, Busy, TypeInv, TypeOK
  <2>6. ~overlapped /\ slot # None => link'[slot] = "down"
    BY <2>1, <2>3 DEF TypeInv, TypeOK
  <2>7. QED
    BY <2>1, <2>2, <2>3, <2>4, <2>5, <2>6, LoneStep DEF Always, Serial, Holding, HungUp
<1>12. CASE RemoteLogout(r)
  <2>1. /\ UNCHANGED <<slot, used>> /\ overlapped' = overlapped /\ Active(r)
        /\ Goto(r, "hangup")
        /\ \/ /\ dev[req[r].ses] # None
              /\ dev' = [dev EXCEPT ![req[r].ses] = None]
              /\ dead' = [dead EXCEPT ![req[r].ses] = TRUE]
              /\ link' = [link EXCEPT ![req[r].ses] = "down"]
           \/ UNCHANGED <<dev, dead, link>>
    BY <1>12 DEF RemoteLogout, Unchanged, history, DeleteStore, Always, ActiveAt, At
  <2>2. Moved
    BY <2>1 DEF Active
  <2>3. ~overlapped => req[r].ses = slot
    BY <1>12 DEF RemoteLogout, Serial, HoldsSlot, Holding, At
  <2>4. SlotUsed'
    BY <2>1 DEF Always, SlotUsed
  <2>7. ~overlapped => DeadIsWiped'
    BY <2>1, <2>3 DEF Always, Serial, DeadIsWiped, SlotUsed, TypeInv, TypeOK
  <2>5. ~overlapped => OnlySlotBusy' /\ LostIsPaired'
    BY <2>1, <2>3 DEF Serial, OnlySlotBusy, LostIsPaired, Busy, TypeInv, TypeOK
  <2>6. QED
    BY <2>1, <2>2, <2>3, <2>4, <2>5, <2>7, LoneStep DEF Always, Serial, Holding, HungUp
<1>13. CASE Wipe(r)
  <2>1. /\ UNCHANGED <<slot, used, link>> /\ overlapped' = overlapped /\ Active(r)
        /\ Goto(r, "unbind")
        /\ \/ /\ dev' = [dev EXCEPT ![req[r].ses] = None]
              /\ dead' = [dead EXCEPT ![req[r].ses] = TRUE]
           \/ UNCHANGED <<dev, dead>>
    BY <1>13 DEF Wipe, Unchanged, history, DeleteStore, Always, ActiveAt, At
  <2>2. Moved
    BY <2>1 DEF Active
  <2>3. ~overlapped => req[r].ses = slot /\ (slot # None => link[slot] = "down")
    BY <1>13 DEF Wipe, Serial, HoldsSlot, StaysDown, Holding, HungUp, At
  <2>4. SlotUsed'
    BY <2>1 DEF Always, SlotUsed
  <2>7. ~overlapped => DeadIsWiped'
    BY <2>1, <2>3 DEF Always, Serial, DeadIsWiped, SlotUsed, TypeInv, TypeOK
  <2>5. ~overlapped => OnlySlotBusy' /\ LostIsPaired'
    BY <2>1, <2>3 DEF Serial, OnlySlotBusy, LostIsPaired, Busy, TypeInv, TypeOK
  <2>6. QED
    BY <2>1, <2>2, <2>3, <2>4, <2>5, <2>7, LoneStep DEF Always, Serial, Holding, HungUp
<1>14. CASE Drop(r)
  <2> USE <1>14 DEF Drop, Unchanged, history, client
  <2>1. /\ slot' = None /\ UNCHANGED <<used, dev, dead, link>>
        /\ overlapped' = overlapped /\ Active(r) /\ Goto(r, "unbind2")
    BY DEF Always, ActiveAt, At
  <2>2. Moved
    BY <2>1 DEF Active
  <2>3. SlotUsed' /\ (~overlapped => DeadIsWiped')
    BY <2>1 DEF Always, Serial, DeadIsWiped, SlotUsed
  <2>4. ~overlapped => OnlySlotBusy' /\ LostIsPaired'
    BY <2>1 DEF Serial, StaysDown, HungUp, At, OnlySlotBusy, LostIsPaired, Busy
  <2>5. QED
    BY <2>1, <2>2, <2>3, <2>4, LoneStep DEF Always, Serial, Holding, HungUp
<1>15. CASE Recheck(r)
  <2> USE <1>15 DEF Recheck, Unchanged, history, client
  <2>1. Kept /\ overlapped' = overlapped /\ Active(r)
    BY DEF Always, ActiveAt, At
  <2>2. Return(r) \/ Goto(r, "dial")
    OBVIOUS
  <2>3. ~overlapped => req[r].ses = slot
    BY DEF Serial, HoldsSlot, Holding, At
  <2>4. QED
    BY <1>1, <2>1, <2>2, <2>3 DEF Active, Holding, HungUp
<1>16. QED
  BY <1>2, <1>3, <1>4, <1>5, <1>6, <1>7, <1>8, <1>9, <1>10, <1>11, <1>12,
     <1>13, <1>14, <1>15 DEF RequestStep

LEMMA ClientStepIInv ==
  ASSUME IInv, TypeInv', NEW s \in Sessions, ClientStep(s)
  PROVE  IInv'
<1> USE ConstantsAssumption DEF ConstantsAssumption, IInv
<1> DEFINE Same == UNCHANGED <<slot, used, req, overlapped>>
<1>1. ASSUME Same,
             ~overlapped => StaysDown' /\ OnlySlotBusy' /\ LostIsPaired' /\ DeadIsWiped'
      PROVE  IInv'
  BY <1>1 DEF Always, Serial, SlotUsed, ActiveAt, StartsEmpty, Active, OneActive, HoldsSlot
\* A step that leaves the devices alone and does not bring up a client that is down.
<1>2. ASSUME Same, UNCHANGED <<dev, dead>>,
             NEW v, link' = [link EXCEPT ![s] = v],
             link[s] = "down" => v = "down", v = "lost" => dev[s] # None
      PROVE  IInv'
  <2>1. ASSUME ~overlapped PROVE StaysDown' /\ OnlySlotBusy' /\ LostIsPaired' /\ DeadIsWiped'
    BY <1>2, <2>1
    DEF Serial, StaysDown, OnlySlotBusy, LostIsPaired, DeadIsWiped, Busy, TypeInv, TypeOK
  <2>2. QED
    BY <1>1, <1>2, <2>1
<1>3. CASE Authenticate(s)
  BY <1>2, <1>3 DEF Authenticate, Network
<1>4. CASE PairDevice(s)
  <2> USE <1>4 DEF PairDevice, Network
  <2>1. ~overlapped => StaysDown' /\ OnlySlotBusy' /\ LostIsPaired' /\ DeadIsWiped'
    BY DEF Serial, StaysDown, OnlySlotBusy, LostIsPaired, DeadIsWiped, Busy, TypeInv, TypeOK
  <2>2. QED
    BY <1>1, <2>1
<1>5. CASE QRItem(s)
  <2> USE <1>5 DEF QRItem, Network
  <2>1. CASE link' = link
    BY <2>1, FrameIInv
  <2>2. CASE link' = [link EXCEPT ![s] = "down"]
    BY <1>2, <2>2
  <2>3. QED
    BY <2>1, <2>2
<1>6. CASE QRWatcherStops(s)
  <2>1. link' = [link EXCEPT ![s] = IF dev[s] = None THEN "down" ELSE link[s]]
    BY <1>6 DEF QRWatcherStops
  <2>2. UNCHANGED <<slot, used, req, overlapped, dev, dead>>
    BY <1>6 DEF QRWatcherStops, Unchanged, history
  <2>3. QED
    BY <1>2, <2>1, <2>2
<1>7. CASE Lose(s)
  BY <1>2, <1>7 DEF Lose, Network
<1>8. CASE AutoReconnect(s)
  BY <1>2, <1>8 DEF AutoReconnect, Unchanged, history
<1>9. CASE Evict(s)
  <2> USE <1>9 DEF Evict, Network
  <2>1. CASE UNCHANGED <<dev, dead>>
    BY <1>2, <2>1
  <2>2. CASE DeleteStore(s)
    <3> USE <2>2 DEF DeleteStore
    <3>1. ~overlapped => StaysDown' /\ OnlySlotBusy' /\ LostIsPaired'
      BY DEF Serial, StaysDown, OnlySlotBusy, LostIsPaired, Busy, TypeInv, TypeOK
    <3>2. ~overlapped => DeadIsWiped'
      BY DEF Always, Serial, DeadIsWiped, OnlySlotBusy, SlotUsed, Busy, TypeInv, TypeOK
    <3>3. QED
      BY <1>1, <3>1, <3>2
  <2>3. QED
    BY <2>1, <2>2
<1>10. QED
  BY <1>3, <1>4, <1>5, <1>6, <1>7, <1>8, <1>9 DEF ClientStep

LEMMA RestartIInv ==
  ASSUME IInv, TypeInv', Restart
  PROVE  IInv'
<1> USE DEF Restart, IInv
<1>1. /\ slot' = None /\ link' = [s \in Sessions |-> "down"] /\ overlapped' = overlapped
      /\ dev' = [s \in Sessions |-> None] /\ dead' = dead /\ used' = used
      /\ req' = [r \in Requests |-> IF r = Boot /\ account THEN Restoring ELSE IdleReq]
  OBVIOUS
<1>2. \A r \in Requests :
         \/ r = Boot /\ Active(r)' /\ req'[r].at = "ensure" /\ req'[r].ses = None
         \/ ~Active(r)' /\ req'[r].at = "none"
  BY <1>1 DEF Active, Restoring, IdleReq, Ops
<1>3. Always'
  BY <1>1, <1>2 DEF Always, SlotUsed, ActiveAt, StartsEmpty
<1>4. ~overlapped => Serial'
  BY <1>1, <1>2
  DEF Serial, OneActive, HoldsSlot, StaysDown, OnlySlotBusy, LostIsPaired, DeadIsWiped,
      Busy, Holding, HungUp
<1>5. QED
  BY <1>1, <1>3, <1>4

LEMMA StepIInv == IInv /\ [Next]_vars => IInv'
<1> SUFFICES ASSUME IInv, [Next]_vars PROVE IInv'
  OBVIOUS
<1>1. TypeInv'
  BY StepTypeInv DEF IInv
<1>2. ASSUME NEW h \in Handlers, HandlerStep(h) PROVE IInv'
  BY <1>1, <1>2, FrameIInv
  DEF HandlerStep, HandlerUpdate, HandlerRead, HandlerDisconnected, HandlerSave,
      HandlerUnbind, client
<1>3. CASE UNCHANGED vars
  BY <1>1, <1>3, FrameIInv DEF vars
<1>4. QED
  BY <1>1, <1>2, <1>3, RequestStepIInv, ClientStepIInv, RestartIInv DEF Next

(* As long as the requests of an account do not overlap, no client that is *)
(* connected or reconnects by itself is left outside c.sessions            *)
(* (ensureSession, Logout, StartPairing).                                  *)
THEOREM NoOrphan == Spec => []NoOrphanClient
<1>1. IInv => NoOrphanClient
  BY DEF IInv, Serial, OnlySlotBusy, NoOrphanClient
<1>2. QED
  BY <1>1, InitIInv, StepIInv, PTL DEF Spec
-----------------------------------------------------------------------------
(* What a deletion leaves behind, and the device of the session in use.    *)

\* A request that has dropped the session, or found none, leaves the slot empty ...
SlotDropped == \A r \in Requests : req[r].at \in {"unbind2", "erase"} => slot = None

\* ... and when it deletes the account it is the last one.
NothingLeft == ~account => slot = None /\ binding = None /\ \A r \in Requests : ~Active(r)

SlotHolds == ~overlapped => SlotDropped /\ NothingLeft /\ SlotDeviceStored

\* While the requests do not overlap, the one that takes a step is alone.
LEMMA Alone ==
  ASSUME IInv, ~overlapped, NEW r \in Requests, req[r].at # "none",
         \A q \in Requests \ {r} : req'[q] = req[q]
  PROVE  \A q \in Requests \ {r} : ~Active(q)' /\ req'[q].at = "none"
<1>1. Active(r)
  BY DEF IInv, Always, ActiveAt
<1>2. \A q \in Requests \ {r} : ~Active(q) /\ req[q].at = "none"
  BY <1>1 DEF IInv, Always, Serial, OneActive, ActiveAt
<1>3. QED
  BY <1>2 DEF Active

LEMMA OverlappedStays == TypeInv /\ [Next]_vars /\ ~overlapped' => ~overlapped
<1> SUFFICES ASSUME TypeInv, [Next]_vars, ~overlapped' PROVE ~overlapped
  OBVIOUS
<1>1. ASSUME NEW r \in Requests, RequestStep(r) PROVE ~overlapped
  BY <1>1 DEF RequestStep, Begin, Ensure, Check, Recheck, Dial, AwaitItem, Find, RemoteLogout, HangUp,
              Wipe, Unbind, Mark, Drop, Erase, Unchanged, history
<1>2. ASSUME NEW s \in Sessions, ClientStep(s) PROVE ~overlapped
  BY <1>2 DEF ClientStep, Authenticate, PairDevice, QRItem, QRWatcherStops, Lose, AutoReconnect,
              Evict, Network, Unchanged, history
<1>3. ASSUME NEW h \in Handlers, HandlerStep(h) PROVE ~overlapped
  BY <1>3 DEF HandlerStep, HandlerUpdate, HandlerRead, HandlerDisconnected, HandlerSave,
              HandlerUnbind
<1>4. CASE Restart \/ UNCHANGED vars
  BY <1>4 DEF Restart, vars
<1>5. QED
  BY <1>1, <1>2, <1>3, <1>4 DEF Next

LEMMA InitSlotHolds == Init => SlotHolds
<1> SUFFICES ASSUME Init PROVE SlotHolds
  OBVIOUS
<1>1. slot = None /\ account = TRUE /\ req = [r \in Requests |-> IF r = Boot THEN Restoring ELSE IdleReq]
  BY DEF Init
<1>2. QED
  BY <1>1 DEF SlotHolds, SlotDropped, NothingLeft, SlotDeviceStored

\* A step of a request leaves the device of the session in the slot in the store.
LEMMA RequestKeepsDevice ==
  ASSUME IInv, IInv', ~overlapped, SlotHolds, NEW r \in Requests, RequestStep(r)
  PROVE  SlotDeviceStored'
<1> USE DEF SlotHolds, SlotDeviceStored
<1>1. CASE Ensure(r)
  <2>1. PICK onOk \in {"check", "remote"}, onError \in {"return", "unbind"} :
          EnsureSession(r, onOk, onError)
    BY <1>1 DEF Ensure
  <2>2. CASE ~ShouldReset(slot)
    BY <2>1, <2>2 DEF EnsureSession, client
  <2>3. CASE ShouldReset(slot)
    <3>1. stored' = stored
      BY <2>1, <2>3 DEF EnsureSession
    <3>2. ASSUME NEW s \in Sessions \ used, slot' = s, dev' = [dev EXCEPT ![s] = BoundDevice]
          PROVE  SlotDeviceStored'
      <4>1. dev'[s] = BoundDevice
        BY <3>2 DEF IInv, TypeInv, TypeOK
      <4>2. QED
        BY <3>1, <3>2, <4>1 DEF BoundDevice
    <3>3. QED
      BY <2>1, <2>3, <3>2 DEF EnsureSession
  <2>4. QED
    BY <2>2, <2>3
<1>2. CASE RemoteLogout(r) \/ Wipe(r)
  <2>1. slot' = slot /\ req[r].ses = slot
    BY <1>2 DEF RemoteLogout, Wipe, At, Holding, IInv, Serial, HoldsSlot
  <2>2. CASE DeleteStore(slot)
    BY <2>1, <2>2 DEF DeleteStore, IInv, TypeInv, TypeOK
  <2>3. CASE UNCHANGED <<dev, dead, stored>>
    BY <2>1, <2>3
  <2>4. QED
    BY <1>2, <2>1, <2>2, <2>3 DEF RemoteLogout, Wipe
<1>3. CASE Drop(r)
  BY <1>3 DEF Drop
<1>4. ASSUME UNCHANGED <<slot, dev, dead, stored>> PROVE SlotDeviceStored'
  BY <1>4
<1>5. QED
  BY <1>1, <1>2, <1>3, <1>4
  DEF RequestStep, Begin, Check, Recheck, Dial, AwaitItem, Find, HangUp, Unbind, Mark, Erase, client

LEMMA RequestSlotHolds ==
  ASSUME IInv, IInv', ~overlapped, SlotHolds, NEW r \in Requests, RequestStep(r)
  PROVE  SlotDropped' /\ NothingLeft'
<1> USE DEF SlotHolds
<1>1. ASSUME NEW op \in Ops, Begin(r, op) PROVE SlotDropped' /\ NothingLeft'
  <2>1. account /\ account' = account /\ slot' = slot
    BY <1>1 DEF Begin
  <2>2. req'[r].at \notin {"unbind2", "erase"} /\ \A q \in Requests \ {r} : req'[q] = req[q]
    BY <1>1 DEF Begin, IInv, TypeInv, TypeOK
  <2>3. QED
    BY <2>1, <2>2 DEF SlotDropped, NothingLeft
<1>2. ASSUME req[r].at # "none", \A q \in Requests \ {r} : req'[q] = req[q], account' = account,
             req'[r].at \in {"unbind2", "erase"} => slot' = None
      PROVE  SlotDropped' /\ NothingLeft'
  <2>1. Active(r)
    BY <1>2 DEF IInv, Always, ActiveAt
  <2>2. account
    BY <2>1 DEF NothingLeft
  <2>3. \A q \in Requests \ {r} : req'[q].at = "none"
    BY <1>2, Alone
  <2>4. QED
    BY <1>2, <2>2, <2>3 DEF SlotDropped, NothingLeft
<1> USE GotoAt, HoldAt, ReturnAt DEF IInv
<1>3. CASE Ensure(r)
  <2>1. PICK onOk \in {"check", "remote"}, onError \in {"return", "unbind"} :
          EnsureSession(r, onOk, onError)
    BY <1>3 DEF Ensure
  <2>3. req'[r].at \notin {"unbind2", "erase"} /\ \A q \in Requests \ {r} : req'[q] = req[q]
    <3>1. (\E s2 : Hold(r, s2, onOk)) \/ Return(r) \/ Goto(r, "unbind")
      BY <2>1 DEF EnsureSession
    <3>2. QED
      BY <3>1
  <2>4. req[r].at # "none" /\ account' = account
    BY <1>3 DEF Ensure, At, Unchanged
  <2>5. QED
    BY <1>2, <2>3, <2>4
<1>4. CASE Check(r) \/ Recheck(r) \/ Dial(r) \/ AwaitItem(r)
  <2>1. req[r].at # "none" /\ account' = account
    BY <1>4 DEF Check, Recheck, Dial, AwaitItem, At, Unchanged
  <2>2. Return(r) \/ Goto(r, "recheck") \/ Goto(r, "dial") \/ Goto(r, "qrdial") \/ Goto(r, "await")
    BY <1>4 DEF Check, Recheck, Dial, AwaitItem
  <2>3. QED
    BY <1>2, <2>1, <2>2
<1>5. CASE Find(r)
  <2>1. req[r].at # "none" /\ account' = account /\ slot' = slot
    BY <1>5 DEF Find, At, Unchanged
  <2>2. \/ Return(r) \/ Goto(r, "ensure") \/ Hold(r, slot, "remote")
        \/ slot = None /\ Goto(r, "erase")
    BY <1>5 DEF Find
  <2>3. QED
    BY <1>2, <2>1, <2>2
<1>6. CASE RemoteLogout(r) \/ HangUp(r) \/ Wipe(r) \/ Mark(r) \/ Drop(r)
  <2>1. req[r].at # "none" /\ account' = account
    BY <1>6 DEF RemoteLogout, HangUp, Wipe, Mark, Drop, At, Unchanged
  <2>2. \/ Goto(r, "hangup") \/ Goto(r, "wipe") \/ Goto(r, "unbind") \/ Goto(r, "drop")
        \/ slot' = None /\ Goto(r, "unbind2")
    BY <1>6 DEF RemoteLogout, HangUp, Wipe, Mark, Drop
  <2>3. QED
    BY <1>2, <2>1, <2>2
<1>7. CASE Unbind(r)
  <2>1. req[r].at # "none" /\ account' = account /\ slot' = slot
    BY <1>7 DEF Unbind
  <2>2. CASE At(r, "unbind")
    <3>1. req[r].ses = slot
      BY <2>2 DEF At, Serial, HoldsSlot, Holding
    <3>2. (slot = None /\ Goto(r, "unbind2")) \/ Goto(r, "mark")
      BY <1>7, <2>2, <3>1 DEF Unbind
    <3>3. QED
      BY <1>2, <2>1, <3>2
  <2>3. CASE ~At(r, "unbind")
    <3>1. slot = None
      BY <1>7, <2>3 DEF Unbind, At, SlotDropped
    <3>2. Goto(r, "erase") \/ Return(r)
      BY <1>7, <2>3 DEF Unbind
    <3>3. QED
      BY <1>2, <2>1, <3>1, <3>2
  <2>4. QED
    BY <2>2, <2>3
<1>8. CASE Erase(r)
  <2>1. /\ req[r].at # "none" /\ Return(r) /\ slot = None /\ slot' = None
        /\ account' = account \/ binding' = None
    BY <1>8 DEF Erase, At, SlotDropped
  <2>2. CASE account' = account
    BY <1>2, <2>1, <2>2
  <2>3. CASE binding' = None
    <3>1. \A q \in Requests \ {r} : ~Active(q)' /\ req'[q].at = "none"
      BY <2>1, Alone
    <3>2. ~Active(r)'
      BY <2>1 DEF Active, Ops
    <3>3. QED
      BY <2>1, <2>3, <3>1, <3>2 DEF SlotDropped, NothingLeft
  <2>4. QED
    BY <2>1, <2>2, <2>3
<1>9. QED
  BY <1>1, <1>3, <1>4, <1>5, <1>6, <1>7, <1>8 DEF RequestStep

LEMMA ClientSlotHolds ==
  ASSUME IInv, ~overlapped, SlotHolds, NEW s \in Sessions, ClientStep(s)
  PROVE  SlotDropped' /\ NothingLeft' /\ SlotDeviceStored'
<1> USE DEF SlotHolds
<1>1. UNCHANGED <<slot, binding, account, req>>
  BY DEF ClientStep, Authenticate, PairDevice, QRItem, QRWatcherStops, Lose, AutoReconnect,
         Evict, Network, Unchanged
<1>2. SlotDropped' /\ NothingLeft'
  BY <1>1 DEF SlotDropped, NothingLeft, Active
<1>3. SlotDeviceStored'
  <2> USE <1>1 DEF SlotDeviceStored, IInv, TypeInv, TypeOK
  <2>1. CASE PairDevice(s)
    BY <2>1 DEF PairDevice
  <2>2. CASE Evict(s)
    <3>1. s = slot
      BY <2>2 DEF Evict, Serial, OnlySlotBusy, Busy
    <3>2. QED
      BY <2>2, <3>1 DEF Evict, DeleteStore
  <2>3. CASE UNCHANGED <<dev, dead, stored>>
    BY <2>3
  <2>4. QED
    BY <2>1, <2>2, <2>3
    DEF ClientStep, Authenticate, QRItem, QRWatcherStops, Lose, AutoReconnect
<1>4. QED
  BY <1>2, <1>3

LEMMA StepSlotHolds ==
  ASSUME IInv, IInv', SlotHolds, [Next]_vars
  PROVE  SlotHolds'
<1> SUFFICES ASSUME ~overlapped' PROVE SlotDropped' /\ NothingLeft' /\ SlotDeviceStored'
  BY DEF SlotHolds
<1>0. ~overlapped
  BY OverlappedStays DEF IInv
<1>1. ASSUME NEW h \in Handlers, HandlerStep(h)
      PROVE  SlotDropped' /\ NothingLeft' /\ SlotDeviceStored'
  <2>1. UNCHANGED <<slot, dev, dead, stored, account, req>> /\ (binding' # binding => account \/ binding' = None)
    BY <1>1 DEF HandlerStep, HandlerUpdate, HandlerRead, HandlerDisconnected, HandlerSave,
                HandlerUnbind, client
  <2>2. QED
    BY <1>0, <2>1 DEF SlotHolds, SlotDropped, NothingLeft, SlotDeviceStored, Active
<1>2. CASE Restart
  <2>1. slot' = None /\ UNCHANGED <<account, binding>>
    BY <1>2 DEF Restart
  <2>2. ~account => \A r \in Requests : ~Active(r)'
    BY <1>2 DEF Restart, Active, IdleReq, Ops
  <2>3. QED
    BY <1>0, <2>1, <2>2 DEF SlotHolds, SlotDropped, NothingLeft, SlotDeviceStored
<1>3. CASE UNCHANGED vars
  BY <1>0, <1>3 DEF vars, SlotHolds, SlotDropped, NothingLeft, SlotDeviceStored, Active
<1>4. QED
  BY <1>0, <1>1, <1>2, <1>3, RequestKeepsDevice, RequestSlotHolds, ClientSlotHolds DEF Next

(* As long as the requests of an account do not overlap, its deletion      *)
(* leaves no session in c.sessions, no binding and no live client behind   *)
(* (DeleteAccount, Logout).                                                *)
THEOREM DeletionIsSilent == Spec => []DeletedAccountIsSilent
<1>1. IInv /\ SlotHolds => DeletedAccountIsSilent
  BY ConstantsAssumption
  DEF ConstantsAssumption, IInv, Serial, OnlySlotBusy, SlotHolds, NothingLeft, DeletedAccountIsSilent
<1>2. IInv /\ SlotHolds /\ [Next]_vars => (IInv /\ SlotHolds)'
  BY StepIInv, StepSlotHolds
<1>3. QED
  BY <1>1, <1>2, InitIInv, InitSlotHolds, PTL DEF Spec

(* Under the same condition a session that will not be replaced works with *)
(* a device of the store (ensureSession, loadDeviceBinding).               *)
THEOREM SlotDeviceKept == Spec => []SlotDeviceStored
<1>1. SlotHolds => SlotDeviceStored
  BY DEF SlotHolds, SlotDeviceStored
<1>2. IInv /\ SlotHolds /\ [Next]_vars => (IInv /\ SlotHolds)'
  BY StepIInv, StepSlotHolds
<1>3. QED
  BY <1>1, <1>2, InitIInv, InitSlotHolds, PTL DEF Spec
-----------------------------------------------------------------------------
(* The binding of a device that is logged in.                              *)

\* An event is handled by a goroutine of a session that exists, a code is
\* shown for one; what is logged in is paired.
FromUsed == \A h \in Handlers : hand[h].at # "none" => hand[h].ses \in used
CodeUsed == \A s \in Sessions : qr[s] # "none" => s \in used
InIsPaired == \A s \in Sessions : link[s] = "in" => dev[s] # None

\* Only the handler of a LoggedOut unbinds, after the client gave up its device.
UnbindsDead ==
    \A h \in Handlers :
        hand[h].kind = "LoggedOut" \/ hand[h].at = "unbind"
          => hand[h].ses \in Sessions /\ dead[hand[h].ses]

\* A handler that saves has the device its session has, or had to the last.
SavesDevice ==
    \A h \in Handlers :
        hand[h].at = "write" /\ hand[h].kind # "Disconnected" /\ hand[h].ses = slot /\ slot # None
          => (hand[h].dev # None /\ hand[h].dev = dev[slot]) \/ dead[slot]

\* The handler of the Connected of this session is still to save its device.
WillSave(h) ==
    /\ hand[h].kind = "Connected" /\ hand[h].ses = slot
    /\ hand[h].at \in {"start", "read"} \/ (hand[h].at = "write" /\ hand[h].dev = dev[slot])

BoundOrPending ==
    slot # None /\ link[slot] = "in" => binding = dev[slot] \/ \E h \in Handlers : WillSave(h)

Tracking == /\ FromUsed /\ CodeUsed /\ InIsPaired /\ UnbindsDead
            /\ ~mislaid => SavesDevice /\ BoundOrPending

TrackHolds == ~overlapped => Tracking

LEMMA InitTrackHolds == Init => TrackHolds
BY DEF Init, TrackHolds, Tracking, FromUsed, CodeUsed, InIsPaired, UnbindsDead, SavesDevice,
       BoundOrPending, IdleHand

\* A request leaves the handlers alone.  It changes the device of no session
\* that is logged in, and unbinds only what is not.
LEMMA RequestTracks ==
  ASSUME IInv, IInv', SlotHolds, TrackHolds, ~overlapped, ~overlapped',
         NEW r \in Requests, RequestStep(r)
  PROVE  Tracking'
<1> USE DEF TrackHolds, Tracking
<1>1. UNCHANGED hand /\ used \subseteq used' /\ (mislaid => mislaid')
  BY DEF RequestStep, Begin, Ensure, EnsureSession, Check, Recheck, Dial, AwaitItem, Find, RemoteLogout, HangUp,
         Wipe, Unbind, Mark, Drop, Erase, Unchanged, history
<1>2. FromUsed'
  BY <1>1 DEF FromUsed
\* Steps that keep the sessions and the binding.
<1>3. ASSUME UNCHANGED <<slot, dev, dead, link, qr, binding>>
      PROVE  Tracking'
  BY <1>1, <1>2, <1>3 DEF CodeUsed, InIsPaired, UnbindsDead, SavesDevice, BoundOrPending, WillSave
<1>4. CASE \/ \E op \in Ops : Begin(r, op)
           \/ Find(r) \/ Mark(r) \/ Recheck(r)
  BY <1>3, <1>4 DEF Begin, Find, Mark, Recheck, client
<1>5. CASE Check(r) \/ AwaitItem(r)
  <2>1. req[r].ses = slot /\ (slot # None => slot \in used)
    BY <1>5 DEF Check, AwaitItem, At, Holding, IInv, Serial, HoldsSlot, Always, SlotUsed
  <2>2. /\ UNCHANGED <<slot, used, dev, dead, link, binding, mislaid>>
        /\ qr' = qr \/ qr' = CancelQR(slot) \/ qr' = [qr EXCEPT ![slot] = "open"]
    BY <1>5, <2>1 DEF Check, AwaitItem, Unchanged, history
  <2>3. CodeUsed'
    <3>1. \A s \in Sessions : qr'[s] # "none" => qr[s] # "none" \/ s = slot
      BY <2>2 DEF CancelQR, IInv, TypeInv, TypeOK
    <3>2. QED
      BY <2>1, <2>2, <3>1, ConstantsAssumption DEF ConstantsAssumption, CodeUsed
  <2>4. QED
    BY <1>1, <1>2, <2>2, <2>3 DEF InIsPaired, UnbindsDead, SavesDevice, BoundOrPending, WillSave
<1>6. CASE Dial(r) \/ HangUp(r)
  <2>1. req[r].ses = slot
    BY <1>6 DEF Dial, HangUp, At, Holding, IInv, Serial, HoldsSlot
  <2>2. /\ UNCHANGED <<slot, used, dev, dead, binding, mislaid>>
        /\ qr' = qr \/ qr' = CancelQR(slot)
        /\ \A s \in Sessions : link'[s] = "in" => link[s] = "in"
    BY <1>6, <2>1 DEF Dial, HangUp, Unchanged, history, IInv, TypeInv, TypeOK
  <2>3. CodeUsed'
    BY <2>2 DEF CodeUsed, CancelQR, IInv, TypeInv, TypeOK
  <2>4. slot # None => slot \in Sessions
    BY DEF IInv, TypeInv, TypeOK
  <2>5. QED
    BY <1>1, <1>2, <2>2, <2>3, <2>4 DEF InIsPaired, UnbindsDead, SavesDevice, BoundOrPending, WillSave
<1>7. CASE RemoteLogout(r) \/ Wipe(r)
  <2>1. req[r].ses = slot /\ (At(r, "wipe") /\ slot # None => link[slot] = "down")
    BY <1>7 DEF RemoteLogout, Wipe, At, Holding, HungUp, IInv, Serial, HoldsSlot, StaysDown
  <2>2. /\ UNCHANGED <<slot, used, binding, mislaid>>
        /\ qr' = qr \/ qr' = CancelQR(slot)
        /\ \/ UNCHANGED <<dev, dead, link>>
           \/ DeleteStore(slot) /\ link' = [link EXCEPT ![slot] = "down"]
           \/ DeleteStore(slot) /\ (slot # None => link[slot] = "down") /\ link' = link
    BY <1>7, <2>1 DEF RemoteLogout, Wipe, Unchanged, history
  <2>3. CodeUsed'
    BY <2>2 DEF CodeUsed, CancelQR, IInv, TypeInv, TypeOK
  <2>4. slot # None => slot \in Sessions
    BY DEF IInv, TypeInv, TypeOK
  <2>5. InIsPaired'
    <3>1. slot # None => link'[slot] = "down" \/ UNCHANGED <<dev, link>>
      BY <2>2, <2>4 DEF IInv, TypeInv, TypeOK
    <3>2. \A s \in Sessions : s # slot => dev'[s] = dev[s] /\ link'[s] = link[s]
      BY <2>2 DEF DeleteStore, IInv, TypeInv, TypeOK
    <3>3. QED
      BY <3>1, <3>2, ConstantsAssumption DEF ConstantsAssumption, InIsPaired
  <2>6. UnbindsDead'
    BY <1>1, <2>2 DEF UnbindsDead, DeleteStore, IInv, TypeInv, TypeOK
  <2>7. ~mislaid' => SavesDevice'
    BY <1>1, <2>2, <2>4 DEF SavesDevice, DeleteStore, IInv, TypeInv, TypeOK
  <2>8. ~mislaid' => BoundOrPending'
    BY <1>1, <2>2, <2>4 DEF BoundOrPending, WillSave, DeleteStore, IInv, TypeInv, TypeOK
  <2>9. QED
    BY <1>2, <2>3, <2>5, <2>6, <2>7, <2>8
<1>8. CASE Unbind(r)
  <2>1. slot # None => link[slot] = "down"
    BY <1>8 DEF Unbind, IInv, Serial, StaysDown, HungUp, SlotHolds, SlotDropped
  <2>2. UNCHANGED <<slot, used, dev, dead, link, qr>>
    BY <1>8 DEF Unbind, client
  <2>3. QED
    BY <1>1, <1>2, <2>1, <2>2 DEF CodeUsed, InIsPaired, UnbindsDead, SavesDevice, BoundOrPending
<1>9. CASE Drop(r) \/ Erase(r)
  <2>1. slot' = None /\ UNCHANGED <<dev, dead, link, qr>>
    BY <1>9 DEF Drop, Erase, client, At, SlotHolds, SlotDropped
  <2>2. QED
    BY <1>1, <1>2, <2>1 DEF CodeUsed, InIsPaired, UnbindsDead, SavesDevice, BoundOrPending
<1>10. CASE Ensure(r)
  <2>1. PICK onOk \in {"check", "remote"}, onError \in {"return", "unbind"} :
          EnsureSession(r, onOk, onError)
    BY <1>10 DEF Ensure
  <2>2. UNCHANGED <<binding, mislaid>>
    BY <1>10 DEF Ensure, Unchanged, history
  <2>3. CASE ~ShouldReset(slot)
    BY <1>3, <2>1, <2>2, <2>3 DEF EnsureSession, client
  <2>4. CASE ShouldReset(slot)
    <3>1. /\ link' = [link EXCEPT ![slot] = IF @ = "lost" THEN @ ELSE "down"]
          /\ dead' = dead /\ qr' = CancelQR(slot)
      BY <2>1, <2>4 DEF EnsureSession
    <3>2. \A s \in Sessions : link'[s] # "in"
      BY <2>4, <3>1 DEF IInv, Serial, OnlySlotBusy, Busy, TypeInv, TypeOK
    <3>3. CodeUsed' /\ InIsPaired' /\ UnbindsDead'
      BY <1>1, <3>1, <3>2 DEF CodeUsed, CancelQR, InIsPaired, UnbindsDead, IInv, TypeInv, TypeOK
    <3>4. slot' = None \/ slot' \in Sessions \ used
      BY <2>1, <2>4 DEF EnsureSession
    <3>5. SavesDevice'
      BY <1>1, <3>4 DEF SavesDevice, FromUsed
    <3>6. BoundOrPending'
      BY <3>2, <3>4 DEF BoundOrPending
    <3>7. QED
      BY <1>2, <3>3, <3>5, <3>6
  <2>5. QED
    BY <2>3, <2>4
<1>11. QED
  BY <1>4, <1>5, <1>6, <1>7, <1>8, <1>9, <1>10 DEF RequestStep

\* The network delivers an event: one more goroutine, at its start.
LEMMA Delivered ==
  ASSUME TypeInv, NEW s \in Sessions, NEW kind \in Kinds, Deliver(kind, s)
  PROVE  \E h \in Handlers :
           /\ hand[h] = IdleHand
           /\ hand'[h].kind = kind /\ hand'[h].at = "start" /\ hand'[h].ses = s
           /\ \A g \in Handlers : g # h => hand'[g] = hand[g]
BY DEF Deliver, TypeInv, TypeOK

LEMMA ClientTracks ==
  ASSUME IInv, IInv', TrackHolds, ~overlapped, NEW s \in Sessions, ClientStep(s)
  PROVE  Tracking'
<1> USE DEF TrackHolds, Tracking
<1>1. UNCHANGED <<slot, used, binding, mislaid>>
  BY DEF ClientStep, Authenticate, PairDevice, QRItem, QRWatcherStops, Lose, AutoReconnect,
         Evict, Network, Unchanged, history
<1>2. s \in used /\ (Busy(s) => s = slot)
  <2>1. Busy(s) => s = slot
    BY DEF IInv, Serial, OnlySlotBusy
  <2>2. qr[s] # "none" => s \in used
    BY DEF CodeUsed
  <2>3. Busy(s) \/ qr[s] # "none"
    BY DEF ClientStep, Authenticate, PairDevice, QRItem, QRWatcherStops, Lose, AutoReconnect,
           Evict, Busy
  <2>4. QED
    BY <2>1, <2>2, <2>3, ConstantsAssumption DEF ConstantsAssumption, IInv, Always, SlotUsed
<1>3. CodeUsed'
  <2>1. \A t \in Sessions : t # s => qr'[t] = qr[t]
    BY DEF ClientStep, Authenticate, PairDevice, QRItem, QRWatcherStops, Lose, AutoReconnect,
           Evict, IInv, TypeInv, TypeOK
  <2>2. QED
    BY <1>1, <1>2, <2>1 DEF CodeUsed
\* Only one goroutine starts, and only Authenticate logs a client in.
<1>4. ASSUME NEW kind \in Kinds, Deliver(kind, s), kind = "LoggedOut" => dead'[s],
             \A t \in Sessions : (dead[t] => dead'[t]) /\ (dead'[t] \/ dev[t] = None \/ dev'[t] = dev[t]),
             \A t \in Sessions : link'[t] = "in" =>
                 dev'[t] = dev[t] /\ dev[t] # None
                 /\ (link[t] = "in" \/ (t = s /\ kind = "Connected"))
      PROVE  Tracking'
  <2>1. PICK h \in Handlers :
           /\ hand[h] = IdleHand
           /\ hand'[h].kind = kind /\ hand'[h].at = "start" /\ hand'[h].ses = s
           /\ \A g \in Handlers : g # h => hand'[g] = hand[g]
    BY <1>4, Delivered DEF IInv
  <2>2. slot # None => slot \in Sessions
    BY DEF IInv, TypeInv, TypeOK
  <2>3. FromUsed' /\ InIsPaired'
    BY <1>1, <1>2, <1>4, <2>1 DEF FromUsed, InIsPaired
  <2>4. UnbindsDead'
    BY <1>4, <2>1 DEF UnbindsDead
  <2>5. ~mislaid => SavesDevice'
    BY <1>1, <1>4, <2>1, <2>2 DEF SavesDevice
  <2>6. ~mislaid => BoundOrPending'
    <3> SUFFICES ASSUME ~mislaid, slot # None, link'[slot] = "in"
                 PROVE  binding = dev'[slot] \/ \E g \in Handlers : WillSave(g)'
      BY <1>1 DEF BoundOrPending
    <3>1. CASE link[slot] = "in"
      <4>1. binding = dev[slot] \/ \E g \in Handlers : WillSave(g)
        BY <3>1 DEF BoundOrPending
      <4>2. ASSUME NEW g \in Handlers, WillSave(g) PROVE WillSave(g)'
        BY <1>1, <1>4, <2>1, <2>2, <4>2 DEF WillSave, IdleHand
      <4>3. QED
        BY <1>4, <2>2, <4>1, <4>2
    <3>2. CASE link[slot] # "in"
      <4>1. WillSave(h)'
        BY <1>1, <1>4, <2>1, <2>2, <3>2 DEF WillSave
      <4>2. QED
        BY <4>1
    <3>3. QED
      BY <3>1, <3>2
  <2>7. QED
    BY <1>1, <1>3, <2>3, <2>4, <2>5, <2>6
\* Neither: the goroutines and the devices stay, and nobody logs in.
<1>5. ASSUME UNCHANGED <<hand, dev, dead>>, \A t \in Sessions : link'[t] = "in" => link[t] = "in"
      PROVE  Tracking'
  <2>1. slot # None => slot \in Sessions
    BY DEF IInv, TypeInv, TypeOK
  <2>2. QED
    BY <1>1, <1>3, <1>5, <2>1
    DEF FromUsed, InIsPaired, UnbindsDead, SavesDevice, BoundOrPending, WillSave
<1> USE DEF IInv, TypeInv, TypeOK
<1>6. CASE Authenticate(s)
  <2>1. Deliver("Connected", s) /\ "Connected" \in Kinds
    BY <1>6 DEF Authenticate, Kinds
  <2>2. /\ UNCHANGED <<dev, dead>>
        /\ \A t \in Sessions : link'[t] = "in" => dev[t] # None /\ (link[t] = "in" \/ t = s)
    BY <1>6 DEF Authenticate, InIsPaired
  <2>3. QED
    BY <1>4, <2>1, <2>2
<1>7. CASE PairDevice(s)
  <2>1. Deliver("PairSuccess", s) /\ "PairSuccess" \in Kinds
    BY <1>7 DEF PairDevice, Kinds
  <2>2. /\ dead' = dead /\ link' = link /\ dev[s] = None /\ link[s] = "open"
        /\ \A t \in Sessions : t # s => dev'[t] = dev[t]
    BY <1>7 DEF PairDevice
  <2>3. \A t \in Sessions : link[t] = "in" => t # s /\ dev[t] # None
    BY <2>2 DEF InIsPaired
  <2>4. QED
    BY <1>4, <2>1, <2>2, <2>3
<1>8. CASE QRItem(s) \/ Lose(s)
  <2>1. PICK kind \in {"QRSuccess", "QRCode", "QRTimeout", "QRError", "Disconnected"} : Deliver(kind, s)
    BY <1>8 DEF QRItem, Lose
  <2>2. kind \in Kinds /\ kind # "LoggedOut"
    BY DEF Kinds
  <2>3. /\ UNCHANGED <<dev, dead>>
        /\ \A t \in Sessions : link'[t] = "in" => link[t] = "in" /\ dev[t] # None
    BY <1>8 DEF QRItem, Lose, InIsPaired
  <2>4. QED
    BY <1>4, <2>1, <2>2, <2>3
<1>9. CASE QRWatcherStops(s) \/ AutoReconnect(s)
  <2>1. /\ UNCHANGED <<hand, dev, dead>> /\ \A t \in Sessions : link'[t] = "in" => link[t] = "in"
    BY <1>9 DEF QRWatcherStops, AutoReconnect, Unchanged
  <2>2. QED
    BY <1>5, <2>1
<1>10. CASE Evict(s)
  <2>1. PICK kind \in {"LoggedOut", "StreamReplaced"} :
          /\ Deliver(kind, s)
          /\ kind = "LoggedOut" => DeleteStore(s)
          /\ kind = "StreamReplaced" => UNCHANGED <<dev, dead, stored>>
    BY <1>10 DEF Evict
  <2>2. kind \in Kinds /\ kind # "Connected"
    BY DEF Kinds
  <2>3. /\ kind = "LoggedOut" => dead'[s]
        /\ \A t \in Sessions : (dead[t] => dead'[t]) /\ (dead'[t] \/ dev'[t] = dev[t])
    BY <2>1 DEF DeleteStore
  <2>4. \A t \in Sessions : link'[t] = "in" => link[t] = "in" /\ t # s /\ dev[t] # None /\ dev'[t] = dev[t]
    BY <1>10, <2>1 DEF Evict, DeleteStore, InIsPaired
  <2>5. QED
    BY <1>4, <2>1, <2>2, <2>3, <2>4
<1>11. QED
  BY <1>6, <1>7, <1>8, <1>9, <1>10 DEF ClientStep

\* A handler moves on, or ends; the others stay.
LEMMA HandlerTracks ==
  ASSUME IInv, IInv', TrackHolds, ~overlapped, NEW h \in Handlers, HandlerStep(h)
  PROVE  Tracking'
<1> USE DEF TrackHolds, Tracking
<1>1. UNCHANGED <<slot, used, dev, dead, link, qr>>
  BY DEF HandlerStep, HandlerUpdate, HandlerRead, HandlerDisconnected, HandlerSave,
         HandlerUnbind, client
<1>2. ~mislaid' => ~mislaid /\ slot = hand[h].ses
  BY DEF HandlerStep, HandlerUpdate, HandlerRead, HandlerDisconnected, HandlerSave,
         HandlerUnbind, Meet
<1>3. hand \in [Handlers -> HandState] /\ (slot # None => slot \in Sessions)
      /\ (slot # None => dev[slot] \in Sessions \cup {None})
  BY DEF IInv, TypeInv, TypeOK
<1>4. /\ \A g \in Handlers : g # h => hand'[g] = hand[g]
      /\ \/ hand'[h] = IdleHand
         \/ hand[h].at # "none" /\ hand'[h].ses = hand[h].ses /\ hand'[h].kind = hand[h].kind
  BY <1>3 DEF HandlerStep, HandlerUpdate, HandlerRead, HandlerDisconnected, HandlerSave,
         HandlerUnbind, Idle, HandState
<1>5. FromUsed' /\ CodeUsed' /\ InIsPaired'
  BY <1>1, <1>4 DEF FromUsed, CodeUsed, InIsPaired, IdleHand
<1>6. UnbindsDead'
  <2>1. hand'[h].at = "unbind" => hand'[h].kind = "LoggedOut"
    BY <1>3 DEF HandlerStep, HandlerUpdate, HandlerRead, HandlerDisconnected, HandlerSave,
           HandlerUnbind, Idle, IdleHand, HandState
  <2>2. QED
    BY <1>1, <1>4, <2>1 DEF UnbindsDead, IdleHand
<1>7. ~mislaid' => SavesDevice'
  <2>1. hand'[h].at = "write" /\ hand'[h].kind # "Disconnected" /\ slot # None
          => hand'[h].dev = dev[slot] /\ dev[slot] # None
    BY <1>3 DEF HandlerStep, HandlerUpdate, HandlerRead, HandlerDisconnected, HandlerSave,
           HandlerUnbind, Idle, IdleHand, HandState
  <2>2. QED
    BY <1>1, <1>2, <1>4, <2>1 DEF SavesDevice
<1>8. ~mislaid' => BoundOrPending'
  <2> SUFFICES ASSUME ~mislaid', slot # None, link[slot] = "in"
               PROVE  binding' = dev[slot] \/ \E g \in Handlers : WillSave(g)'
    BY <1>1 DEF BoundOrPending
  <2>1. ~mislaid /\ slot = hand[h].ses /\ dev[slot] # None /\ ~dead[slot]
    BY <1>2, <1>3 DEF InIsPaired, IInv, Serial, DeadIsWiped
  <2>2. binding = dev[slot] \/ \E g \in Handlers : WillSave(g)
    BY <2>1 DEF BoundOrPending
  <2>3. ASSUME NEW g \in Handlers, g # h, WillSave(g) PROVE WillSave(g)'
    BY <1>1, <1>4, <2>3 DEF WillSave
  <2>4. CASE HandlerUpdate(h)
    <3>1. binding' = binding
      BY <2>4 DEF HandlerUpdate
    <3>5. hand[h].kind = "Connected" => hand'[h].at = "read"
      <4>1. ASSUME hand[h].kind = "Connected" PROVE hand' = [hand EXCEPT ![h].at = "read"]
        BY <2>4, <4>1 DEF HandlerUpdate
      <4>2. QED
        BY <1>3, <4>1 DEF HandState
    <3>2. hand[h].kind = "Connected" => WillSave(h)'
      BY <1>1, <1>4, <2>1, <3>5 DEF WillSave, IdleHand
    <3>3. WillSave(h) => WillSave(h)'
      BY <3>2 DEF WillSave
    <3>4. QED
      BY <2>2, <2>3, <3>1, <3>3
  <2>5. CASE HandlerRead(h)
    <3>1. binding' = binding
          /\ (hand[h].kind = "Connected" => /\ hand'[h].at = "write" /\ hand'[h].dev = dev[slot]
                                            /\ hand'[h].kind = "Connected" /\ hand'[h].ses = hand[h].ses)
      BY <1>3, <2>1, <2>5 DEF HandlerRead, HandState
    <3>2. WillSave(h) => WillSave(h)'
      BY <1>1, <2>1, <3>1 DEF WillSave
    <3>3. QED
      BY <2>2, <2>3, <3>1, <3>2
  <2>6. CASE HandlerDisconnected(h)
    <3>1. binding' = binding /\ ~WillSave(h)
      BY <2>6 DEF HandlerDisconnected, WillSave
    <3>2. QED
      BY <2>2, <2>3, <3>1
  <2>7. CASE HandlerSave(h)
    <3>1. mislaid' = TRUE \/ binding' = hand[h].dev
      BY <2>7 DEF HandlerSave
    <3>2. hand[h].dev = dev[slot]
      BY <2>1, <2>7 DEF HandlerSave, SavesDevice
    <3>3. QED
      BY <3>1, <3>2
  <2>8. CASE HandlerUnbind(h)
    <3>1. dead[slot]
      BY <2>1, <2>8 DEF HandlerUnbind, UnbindsDead
    <3>2. QED
      BY <2>1, <3>1
  <2>9. QED
    BY <2>4, <2>5, <2>6, <2>7, <2>8 DEF HandlerStep
<1>9. QED
  BY <1>5, <1>6, <1>7, <1>8

LEMMA StepTrackHolds ==
  ASSUME IInv, IInv', SlotHolds, TrackHolds, [Next]_vars
  PROVE  TrackHolds'
<1> SUFFICES ASSUME ~overlapped' PROVE Tracking'
  BY DEF TrackHolds
<1>0. ~overlapped
  BY OverlappedStays DEF IInv
<1>1. CASE Restart
  <2>1. /\ slot' = None /\ link' = [s \in Sessions |-> "down"] /\ qr' = [s \in Sessions |-> "none"]
        /\ hand' = [h \in Handlers |-> IdleHand]
    BY <1>1 DEF Restart
  <2>2. QED
    BY <2>1 DEF Tracking, FromUsed, CodeUsed, InIsPaired, UnbindsDead, SavesDevice, BoundOrPending, IdleHand
<1>2. CASE UNCHANGED vars
  BY <1>0, <1>2 DEF vars, TrackHolds, Tracking, FromUsed, CodeUsed, InIsPaired, UnbindsDead, SavesDevice,
                    BoundOrPending, WillSave
<1>3. QED
  BY <1>0, <1>1, <1>2, RequestTracks, ClientTracks, HandlerTracks DEF Next

(* Under the same condition, and when no binding write failed and no event *)
(* handler outlived its session, a device that is logged in is the bound   *)
(* one as soon as the handlers have run, so that a restart finds it again  *)
(* (persistDeviceBinding, handleWhatsmeowEvent, Logout, Restore).          *)
THEOREM BindingFollowsDevice == Spec => []BindingTracksDevice
<1>1. TrackHolds => BindingTracksDevice
  BY DEF TrackHolds, Tracking, BoundOrPending, WillSave, BindingTracksDevice, IdleHand
<1>2. IInv /\ SlotHolds /\ TrackHolds /\ [Next]_vars => (IInv /\ SlotHolds /\ TrackHolds)'
  BY StepIInv, StepSlotHolds, StepTrackHolds
<1>3. QED
  BY <1>1, <1>2, InitIInv, InitSlotHolds, InitTrackHolds, PTL DEF Spec
=============================================================================

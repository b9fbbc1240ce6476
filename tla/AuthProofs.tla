----------------------------- MODULE AuthProofs -----------------------------
(***************************************************************************)
(* Proofs about UserAdmin and AuthSessions: administrators that work one   *)
(* after the other never remove the last of them, change only what was     *)
(* asked for and leave every regular user a permission; the logins and the *)
(* middleware leave that to them, and nobody comes through the middleware  *)
(* without a reason.                                                       *)
(***************************************************************************)
EXTENDS AuthSessions, TLAPS

Updating == {"read", "another", "existing", "write"}

\* A request knows its caller and its user, and what it will write.
Wellformed ==
    \A r \in Requests :
        /\ req[r].at # "idle" => req[r].user \in Users /\ req[r].by \in Users
        /\ req[r].at \in {"create", "write"} => req[r].role \in {"admin", "user"}
        /\ req[r].at \in Updating => Exists(req[r].user)

\* Working alone means that nobody else is working.
Alone == \A r, s \in Requests : req[r].at # "idle" /\ req[s].at # "idle" => r = s

\* The caller is the administrator the middleware saw until the row is written.
CallerIsAdmin == \A r \in Requests : req[r].at \in Updating => Admin(req[r].by)

\* A caller does not disable itself.
CallerStaysActive ==
    \A r \in Requests :
        req[r].at \in {"another", "existing", "write"} /\ req[r].user = req[r].by
          => req[r].status # "disabled"

\* Whoever is demoted leaves another administrator.
OtherLeft(u) == \E v \in Users \ {u} : Admin(v)

DemotionChecked ==
    \A r \in Requests :
        /\ req[r].at = "existing" /\ Demotes(r) => OtherLeft(req[r].user)
        /\ req[r].at = "write" =>
             OtherLeft(req[r].user) \/ (req[r].role = "admin" /\ req[r].newActive)

\* What is written back is what the table holds, or what was asked for.
WrittenBack ==
    \A r \in Requests :
        req[r].at = "write" =>
            req[r].newActive = (IF req[r].status = Keep THEN active[req[r].user]
                                                       ELSE req[r].status = "active")

Serial == Alone /\ CallerIsAdmin /\ CallerStaysActive /\ DemotionChecked /\ WrittenBack /\ AdminRemains

IInv == TypeOK /\ Wellformed /\ (~overlapped => Serial)

-----------------------------------------------------------------------------
LEMMA IdleTyped == Idle \in Request /\ Idle.at = "idle"
BY DEF Idle, Request, Steps, Keep

\* A request that moves leaves the others where they are.
LEMMA Moves ==
  ASSUME req \in [Requests -> Request], NEW r \in Requests, NEW q \in Request,
         req' = [req EXCEPT ![r] = q]
  PROVE  /\ req' \in [Requests -> Request] /\ req'[r] = q
         /\ \A s \in Requests : s # r => req'[s] = req[s]
OBVIOUS

LEMMA GotoMoves ==
  ASSUME req \in [Requests -> Request], NEW r \in Requests, NEW step \in Steps, Goto(r, step)
  PROVE  /\ req' \in [Requests -> Request]
         /\ req'[r].at = step /\ req'[r].by = req[r].by /\ req'[r].user = req[r].user
         /\ req'[r].role = req[r].role /\ req'[r].status = req[r].status
         /\ req'[r].newActive = req[r].newActive
         /\ \A s \in Requests : s # r => req'[s] = req[s]
BY DEF Goto, Request, Steps

LEMMA EndMoves ==
  ASSUME req \in [Requests -> Request], NEW r \in Requests, End(r)
  PROVE  /\ req' \in [Requests -> Request]
         /\ req'[r].at = "idle"
         /\ \A s \in Requests : s # r => req'[s] = req[s]
<1>1. QED
  BY IdleTyped, Moves DEF End

LEMMA ThenPermissionsMoves ==
  ASSUME req \in [Requests -> Request], NEW r \in Requests, NEW step \in Steps,
         ThenPermissions(r, step)
  PROVE  /\ req' \in [Requests -> Request]
         /\ req'[r].at = step /\ req'[r].by = req[r].by /\ req'[r].user = req[r].user
         /\ \A s \in Requests : s # r => req'[s] = req[s]
<1> DEFINE q == [at |-> step, by |-> req[r].by, user |-> req[r].user, role |-> Keep, status |-> Keep,
                 given |-> req[r].given, perms |-> req[r].perms, newActive |-> FALSE]
<1>1. q \in Request
  BY DEF Request, Keep
<1>2. req' = [req EXCEPT ![r] = q]
  BY DEF ThenPermissions
<1>3. req'[r] = q /\ req' \in [Requests -> Request] /\ \A s \in Requests : s # r => req'[s] = req[s]
  BY <1>1, <1>2, Moves
<1>4. QED
  BY <1>3

LEMMA InitIInv == Init => IInv
<1> SUFFICES ASSUME Init PROVE IInv
    OBVIOUS
<1>1. PICK u \in Users : role = [v \in Users |-> IF v = u THEN "admin" ELSE "none"]
  BY DEF Init
<1>2. \A r \in Requests : req[r].at = "idle"
  BY IdleTyped DEF Init
<1>3. TypeOK
  <2>1. role \in [Users -> {"none", "admin", "user"}]
    BY <1>1
  <2>2. active \in [Users -> BOOLEAN] /\ permissions \in [Users -> SUBSET Permissions]
    BY DEF Init
  <2>3. req \in [Requests -> Request]
    BY IdleTyped DEF Init
  <2>4. begun \in 0..MaxRequests
    BY ConstantsAssumption DEF Init, ConstantsAssumption
  <2>5. overlapped \in BOOLEAN /\ cut \in BOOLEAN
    BY Zenon DEF Init
  <2>6. QED
    BY <2>1, <2>2, <2>3, <2>4, <2>5 DEF TypeOK
<1>4. AdminRemains
  BY <1>1 DEF Init, AdminRemains, Admin
<1>5. Wellformed
  BY <1>2 DEF Wellformed, Updating
<1>6. Alone /\ CallerIsAdmin /\ CallerStaysActive /\ DemotionChecked /\ WrittenBack
  BY <1>2 DEF Alone, CallerIsAdmin, CallerStaysActive, DemotionChecked, WrittenBack, Updating
<1>7. QED
  BY <1>3, <1>4, <1>5, <1>6 DEF IInv, Serial

-----------------------------------------------------------------------------
(* What each action does to the request and to the table. *)

LEMMA AdmitStep ==
  ASSUME TypeOK, NEW r \in Requests, NEW by \in Users, Admit(r, by)
  PROVE  /\ UNCHANGED <<role, active, permissions, cut>> /\ begun' \in 0..MaxRequests
         /\ overlapped' \in BOOLEAN
         /\ ~overlapped' => ~overlapped /\ \A s \in Requests : req[s].at = "idle"
<1>1. begun' \in 0..MaxRequests
  BY ConstantsAssumption DEF Admit, TypeOK, ConstantsAssumption
<1>2. UNCHANGED <<role, active, permissions, cut>>
  BY DEF Admit, table
<1>3. overlapped' = (overlapped \/ \E s \in Requests : req[s] # Idle)
  BY DEF Admit
<1>4. overlapped' \in BOOLEAN
  BY <1>3, Zenon DEF TypeOK
<1>5. ASSUME ~overlapped', NEW s \in Requests PROVE ~overlapped /\ req[s].at = "idle"
  BY <1>3, <1>5, IdleTyped
<1>6. ~overlapped' => ~overlapped
  BY <1>3
<1>7. QED
  BY <1>1, <1>2, <1>4, <1>5, <1>6

LEMMA BeginCreateStep ==
  ASSUME TypeOK, NEW r \in Requests, BeginCreate(r)
  PROVE  /\ req' \in [Requests -> Request] /\ UNCHANGED <<role, active, permissions, cut>>
         /\ begun' \in 0..MaxRequests /\ overlapped' \in BOOLEAN
         /\ ~overlapped' => ~overlapped /\ \A s \in Requests : req[s].at = "idle"
         /\ req'[r].at = "create" /\ req'[r].user \in Users /\ req'[r].by \in Users
         /\ req'[r].role \in {"admin", "user"}
         /\ \A s \in Requests : s # r => req'[s] = req[s]
<1>1. PICK by \in Users, u \in Users, ro \in {"admin", "user"}, ac \in BOOLEAN, ps \in SUBSET Permissions :
        /\ Admit(r, by)
        /\ req' = [req EXCEPT ![r] =
              [at |-> "create", by |-> by, user |-> u, role |-> ro, status |-> Keep, given |-> TRUE,
               perms |-> IF ro = "user" /\ ps = {} THEN Permissions ELSE ps, newActive |-> ac]]
  BY DEF BeginCreate
<1> DEFINE q == [at |-> "create", by |-> by, user |-> u, role |-> ro, status |-> Keep, given |-> TRUE,
               perms |-> IF ro = "user" /\ ps = {} THEN Permissions ELSE ps, newActive |-> ac]
<1>2. q \in Request
  BY DEF Request, Steps, Keep
<1>3. /\ req' \in [Requests -> Request] /\ req'[r] = q
      /\ \A s \in Requests : s # r => req'[s] = req[s]
  BY <1>1, <1>2, Moves DEF TypeOK
<1>4. /\ UNCHANGED <<role, active, permissions, cut>> /\ begun' \in 0..MaxRequests
      /\ overlapped' \in BOOLEAN
      /\ ~overlapped' => ~overlapped /\ \A s \in Requests : req[s].at = "idle"
  BY <1>1, AdmitStep
<1>5. QED
  BY <1>3, <1>4

LEMMA BeginUpdateStep ==
  ASSUME TypeOK, NEW r \in Requests, BeginUpdate(r)
  PROVE  /\ req' \in [Requests -> Request] /\ UNCHANGED <<role, active, permissions, cut>>
         /\ begun' \in 0..MaxRequests /\ overlapped' \in BOOLEAN
         /\ ~overlapped' => ~overlapped /\ \A s \in Requests : req[s].at = "idle"
         /\ req'[r].at = "read" /\ req'[r].user \in Users /\ req'[r].by \in Users
         /\ Exists(req'[r].user) /\ Admin(req'[r].by)
         /\ \A s \in Requests : s # r => req'[s] = req[s]
<1>1. PICK by \in Users, u \in Users, ro \in {Keep, "admin", "user"}, st \in {Keep, "active", "disabled"},
           gi \in BOOLEAN, ps \in SUBSET Permissions :
        /\ Exists(u)
        /\ ~gi => ps = {}
        /\ Admit(r, by)
        /\ req' = [req EXCEPT ![r] = [at |-> "read", by |-> by, user |-> u, role |-> ro, status |-> st,
                                      given |-> gi, perms |-> ps, newActive |-> FALSE]]
  BY DEF BeginUpdate
<1> DEFINE q == [at |-> "read", by |-> by, user |-> u, role |-> ro, status |-> st,
                 given |-> gi, perms |-> ps, newActive |-> FALSE]
<1>2. q \in Request
  BY DEF Request, Steps, Keep
<1>3. /\ req' \in [Requests -> Request] /\ req'[r] = q
      /\ \A s \in Requests : s # r => req'[s] = req[s]
  BY <1>1, <1>2, Moves DEF TypeOK
<1>4. /\ UNCHANGED <<role, active, permissions, cut>> /\ begun' \in 0..MaxRequests
      /\ overlapped' \in BOOLEAN
      /\ ~overlapped' => ~overlapped /\ \A s \in Requests : req[s].at = "idle"
  BY <1>1, AdmitStep
<1>5. Exists(u) /\ Admin(by)
  BY <1>1 DEF Admit
<1>6. QED
  BY <1>3, <1>4, <1>5

LEMMA ReadTargetStep ==
  ASSUME TypeOK, Wellformed, NEW r \in Requests, ReadTarget(r)
  PROVE  /\ req' \in [Requests -> Request]
         /\ UNCHANGED <<role, active, permissions, begun, overlapped, cut>>
         /\ req[r].at = "read"
         /\ \/ req'[r].at = "idle"
            \/ /\ req'[r].at = IF Demotes(r) THEN "another" ELSE "existing"
               /\ req'[r].by = req[r].by /\ req'[r].user = req[r].user
               /\ req'[r].role = req[r].role /\ req'[r].status = req[r].status
               /\ ~DisablesSelf(r)
         /\ \A s \in Requests : s # r => req'[s] = req[s]
<1>1. /\ UNCHANGED <<role, active, permissions, begun, overlapped, cut>> /\ req[r].at = "read"
      /\ req \in [Requests -> Request]
  BY DEF ReadTarget, table, TypeOK
<1>2. CASE End(r)
  BY <1>1, <1>2, EndMoves
<1> DEFINE default == ~req[r].given /\ req[r].role = "user" /\ permissions[req[r].user] = {}
           q == [at |-> IF Demotes(r) THEN "another" ELSE "existing",
                 by |-> req[r].by, user |-> req[r].user, role |-> req[r].role, status |-> req[r].status,
                 given |-> req[r].given \/ default,
                 perms |-> IF default THEN Permissions ELSE req[r].perms, newActive |-> FALSE]
<1>3. CASE ~End(r)
  <2>1. req' = [req EXCEPT ![r] = q] /\ ~DisablesSelf(r)
    BY <1>1, <1>3 DEF ReadTarget
  <2>2. (req[r].given \/ default) \in BOOLEAN
    BY <1>1 DEF Request
  <2>3. q \in Request
    <3> HIDE DEF default
    <3>1. QED
      BY <1>1, <2>2 DEF Request, Steps
  <2>4. /\ req' \in [Requests -> Request] /\ req'[r] = q
        /\ \A s \in Requests : s # r => req'[s] = req[s]
    BY <1>1, <2>1, <2>3, Moves
  <2>5. QED
    BY <1>1, <2>1, <2>4
<1>4. QED
  BY <1>2, <1>3

LEMMA ReadExistingStep ==
  ASSUME TypeOK, Wellformed, NEW r \in Requests, ReadExisting(r)
  PROVE  /\ req' \in [Requests -> Request]
         /\ UNCHANGED <<role, active, permissions, begun, overlapped, cut>>
         /\ req[r].at = "existing"
         /\ req'[r].at = "write" /\ req'[r].by = req[r].by /\ req'[r].user = req[r].user
         /\ req'[r].role = RoleAfter(r) /\ req'[r].role \in {"admin", "user"}
         /\ req'[r].status = req[r].status /\ req'[r].newActive = NewActive(r)
         /\ \A s \in Requests : s # r => req'[s] = req[s]
<1> DEFINE q == [at |-> "write", by |-> req[r].by, user |-> req[r].user, role |-> RoleAfter(r),
                 status |-> req[r].status, given |-> req[r].given,
                 perms |-> IF req[r].given THEN req[r].perms ELSE permissions[req[r].user],
                 newActive |-> NewActive(r)]
<1>1. /\ UNCHANGED <<role, active, permissions, begun, overlapped, cut>> /\ req[r].at = "existing"
      /\ req \in [Requests -> Request] /\ req[r].user \in Users /\ Exists(req[r].user)
  BY DEF ReadExisting, table, TypeOK, Wellformed, Updating
<1>2. RoleAfter(r) \in {"admin", "user"}
  BY <1>1 DEF RoleAfter, Exists, TypeOK, Request, Keep
<1>3. NewActive(r) \in BOOLEAN
  BY <1>1 DEF NewActive, TypeOK
<1>4. req' = [req EXCEPT ![r] = q]
  BY DEF ReadExisting
<1>5. q \in Request
  BY <1>1, <1>2, <1>3 DEF Request, Steps, TypeOK
<1>6. /\ req' \in [Requests -> Request] /\ req'[r] = q
      /\ \A s \in Requests : s # r => req'[s] = req[s]
  BY <1>1, <1>4, <1>5, Moves
<1>7. QED
  BY <1>1, <1>2, <1>6

LEMMA InsertUserStep ==
  ASSUME TypeOK, Wellformed, NEW r \in Requests, InsertUser(r)
  PROVE  /\ req' \in [Requests -> Request] /\ UNCHANGED <<permissions, begun, overlapped, cut>>
         /\ role' \in [Users -> {"none", "admin", "user"}] /\ active' \in [Users -> BOOLEAN]
         /\ req[r].at = "create" /\ req'[r].at \in {"idle", "clear"}
         /\ req'[r].at = "clear" => req'[r].by = req[r].by /\ req'[r].user = req[r].user
         /\ \A u \in Users : Exists(u) => role'[u] = role[u] /\ active'[u] = active[u]
         /\ \A s \in Requests : s # r => req'[s] = req[s]
<1>1. /\ UNCHANGED <<permissions, begun, overlapped, cut>> /\ req[r].at = "create"
      /\ req \in [Requests -> Request] /\ req[r] \in Request
      /\ req[r].user \in Users /\ req[r].role \in {"admin", "user"}
  BY DEF InsertUser, TypeOK, Wellformed
<1>2. req[r].newActive \in BOOLEAN
  BY <1>1 DEF Request
<1>3. CASE Exists(req[r].user)
  <2>1. End(r) /\ UNCHANGED <<role, active>>
    BY <1>3 DEF InsertUser
  <2>2. QED
    BY <1>1, <2>1, EndMoves DEF TypeOK
<1>4. CASE ~Exists(req[r].user)
  <2>1. /\ role' = [role EXCEPT ![req[r].user] = req[r].role]
        /\ active' = [active EXCEPT ![req[r].user] = req[r].newActive]
        /\ End(r) \/ ThenPermissions(r, "clear")
    BY <1>4 DEF InsertUser
  <2>2. /\ role' \in [Users -> {"none", "admin", "user"}]
        /\ \A u \in Users : Exists(u) => role'[u] = role[u] /\ active'[u] = active[u]
    BY <1>1, <1>4, <2>1 DEF TypeOK
  <2>3. active' \in [Users -> BOOLEAN]
    BY <1>1, <1>2, <2>1 DEF TypeOK
  <2>4. CASE End(r)
    BY <1>1, <2>2, <2>3, <2>4, EndMoves
  <2>5. CASE ThenPermissions(r, "clear")
    <3>1. "clear" \in Steps
      BY DEF Steps
    <3>2. QED
      BY <1>1, <2>2, <2>3, <2>5, <3>1, ThenPermissionsMoves
  <2>6. QED
    BY <2>1, <2>4, <2>5
<1>5. QED
  BY <1>3, <1>4

LEMMA RegisterStep ==
  ASSUME TypeOK, NEW u \in Users, Register(u)
  PROVE  /\ role' \in [Users -> {"none", "admin", "user"}] /\ active' \in [Users -> BOOLEAN]
         /\ permissions' \in [Users -> SUBSET Permissions]
         /\ UNCHANGED <<req, begun, overlapped, cut>>
         /\ role'[u] = "user"
         /\ \A v \in Users : Exists(v) => role'[v] = role[v] /\ active'[v] = active[v]
         /\ \A v \in Users : v # u => role'[v] = role[v]
BY DEF Register, TypeOK, Exists

LEMMA EnsureAnotherAdminStep ==
  ASSUME TypeOK, NEW r \in Requests, EnsureAnotherAdmin(r)
  PROVE  /\ req' \in [Requests -> Request]
         /\ UNCHANGED <<role, active, permissions, begun, overlapped, cut>>
         /\ req[r].at = "another"
         /\ \/ req'[r].at = "idle"
            \/ /\ req'[r].at = "existing" /\ OtherLeft(req[r].user)
               /\ req'[r].by = req[r].by /\ req'[r].user = req[r].user
               /\ req'[r].role = req[r].role /\ req'[r].status = req[r].status
         /\ \A s \in Requests : s # r => req'[s] = req[s]
<1>1. /\ UNCHANGED <<role, active, permissions, begun, overlapped, cut>> /\ req[r].at = "another"
      /\ req \in [Requests -> Request]
  BY DEF EnsureAnotherAdmin, table, TypeOK
<1>2. CASE End(r)
  BY <1>1, <1>2, EndMoves
<1>3. CASE Goto(r, "existing") /\ OtherLeft(req[r].user)
  <2>1. "existing" \in Steps
    BY DEF Steps
  <2>2. QED
    BY <1>1, <1>3, <2>1, GotoMoves
<1>4. QED
  BY <1>2, <1>3 DEF EnsureAnotherAdmin, OtherLeft

LEMMA WriteUserStep ==
  ASSUME TypeOK, Wellformed, NEW r \in Requests, WriteUser(r)
  PROVE  /\ req' \in [Requests -> Request] /\ UNCHANGED <<permissions, begun, overlapped, cut>>
         /\ req[r].at = "write" /\ req[r].user \in Users
         /\ role' = [role EXCEPT ![req[r].user] = req[r].role]
         /\ active' = [active EXCEPT ![req[r].user] = req[r].newActive]
         /\ role' \in [Users -> {"none", "admin", "user"}] /\ active' \in [Users -> BOOLEAN]
         /\ \A u \in Users : Exists(u) => role'[u] # "none"
         /\ req'[r].at = "back" /\ req'[r].by = req[r].by /\ req'[r].user = req[r].user
         /\ \A s \in Requests : s # r => req'[s] = req[s]
<1>1. /\ UNCHANGED <<permissions, begun, overlapped, cut>> /\ req[r].at = "write"
      /\ req \in [Requests -> Request] /\ req[r] \in Request
      /\ req[r].user \in Users /\ req[r].role \in {"admin", "user"}
      /\ role' = [role EXCEPT ![req[r].user] = req[r].role]
      /\ active' = [active EXCEPT ![req[r].user] = req[r].newActive]
      /\ ThenPermissions(r, "back")
  BY DEF WriteUser, TypeOK, Wellformed
<1>2. req[r].newActive \in BOOLEAN
  BY <1>1 DEF Request
<1>3. active' \in [Users -> BOOLEAN]
  BY <1>1, <1>2 DEF TypeOK
<1>4. role' \in [Users -> {"none", "admin", "user"}] /\ \A u \in Users : Exists(u) => role'[u] # "none"
  BY <1>1 DEF TypeOK, Exists
<1>5. "back" \in Steps
  BY DEF Steps
<1>6. QED
  BY <1>1, <1>3, <1>4, <1>5, ThenPermissionsMoves

\* What is left of a request is about the permissions.
LEMMA PermissionsStep ==
  ASSUME TypeOK, Wellformed, NEW r \in Requests,
         ReadBack(r) \/ ClearPermissions(r) \/ InsertPermission(r) \/ Fail(r)
  PROVE  /\ req' \in [Requests -> Request] /\ permissions' \in [Users -> SUBSET Permissions]
         /\ UNCHANGED <<role, active, begun, overlapped>> /\ cut' \in BOOLEAN
         /\ req'[r].at \in {"idle", "clear", "insert"}
         /\ req'[r].at # "idle" => /\ req[r].at # "idle"
                                  /\ req'[r].by = req[r].by /\ req'[r].user = req[r].user
         /\ \A s \in Requests : s # r => req'[s] = req[s]
<1>1. /\ req \in [Requests -> Request] /\ req[r] \in Request /\ cut \in BOOLEAN
      /\ permissions \in [Users -> SUBSET Permissions]
      /\ "clear" \in Steps /\ "insert" \in Steps
  BY DEF TypeOK, Steps
<1>2. CASE ReadBack(r)
  <2>1. /\ UNCHANGED <<role, active, permissions, begun, overlapped, cut>> /\ req[r].at = "back"
        /\ Goto(r, "clear") \/ End(r)
    BY <1>2 DEF ReadBack, table
  <2>2. QED
    BY <1>1, <2>1, GotoMoves, EndMoves
<1>3. CASE ClearPermissions(r)
  <2>1. /\ UNCHANGED <<role, active, begun, overlapped, cut>> /\ req[r].at = "clear"
        /\ permissions' = [permissions EXCEPT ![req[r].user] = {}]
        /\ Goto(r, "insert") \/ End(r)
    BY <1>3 DEF ClearPermissions
  <2>2. permissions' \in [Users -> SUBSET Permissions]
    BY <1>1, <2>1
  <2>3. QED
    BY <1>1, <2>1, <2>2, GotoMoves, EndMoves
<1>4. CASE InsertPermission(r)
  <2>1. PICK p \in req[r].perms :
           /\ permissions' = [permissions EXCEPT ![req[r].user] = @ \cup {p}]
           /\ End(r) \/ req' = [req EXCEPT ![r].perms = @ \ {p}]
    BY <1>4 DEF InsertPermission
  <2>2. UNCHANGED <<role, active, begun, overlapped, cut>> /\ req[r].at = "insert"
    BY <1>4 DEF InsertPermission
  <2>3. req[r].perms \in SUBSET Permissions
    BY <1>1 DEF Request
  <2>4. permissions' \in [Users -> SUBSET Permissions]
    BY <1>1, <2>1, <2>3
  <2>5. CASE End(r)
    BY <1>1, <2>2, <2>4, <2>5, EndMoves
  <2>6. CASE req' = [req EXCEPT ![r].perms = @ \ {p}]
    <3>1. /\ req' \in [Requests -> Request] /\ req'[r].at = "insert"
          /\ req'[r].by = req[r].by /\ req'[r].user = req[r].user
          /\ \A s \in Requests : s # r => req'[s] = req[s]
      BY <1>1, <2>2, <2>3, <2>6 DEF Request
    <3>2. QED
      BY <1>1, <2>2, <2>4, <3>1
  <2>7. QED
    BY <2>1, <2>5, <2>6
<1>5. CASE Fail(r)
  <2>1. /\ UNCHANGED <<role, active, permissions, begun, overlapped>> /\ End(r)
        /\ cut' = (cut \/ req[r].at \in {"back", "clear", "insert"})
    BY <1>5 DEF Fail, table
  <2>2. cut' \in BOOLEAN
    BY <2>1, Zenon
  <2>3. QED
    BY <1>1, <2>1, <2>2, EndMoves
<1>6. QED
  BY <1>2, <1>3, <1>4, <1>5

-----------------------------------------------------------------------------
(* The invariant is inductive. *)

LEMMA StepWellformed ==
  ASSUME TypeOK, Wellformed, [Next]_vars
  PROVE  TypeOK' /\ Wellformed'
<1>1. ASSUME NEW r \in Requests, BeginCreate(r) PROVE TypeOK' /\ Wellformed'
  BY <1>1, BeginCreateStep DEF TypeOK, Wellformed, Updating, Exists
<1>2. ASSUME NEW r \in Requests, InsertUser(r) PROVE TypeOK' /\ Wellformed'
  BY <1>2, InsertUserStep DEF TypeOK, Wellformed, Updating, Exists
<1>3. ASSUME NEW r \in Requests, BeginUpdate(r) PROVE TypeOK' /\ Wellformed'
  BY <1>3, BeginUpdateStep DEF TypeOK, Wellformed, Updating, Exists
<1>4. ASSUME NEW r \in Requests, ReadTarget(r) PROVE TypeOK' /\ Wellformed'
  BY <1>4, ReadTargetStep DEF TypeOK, Wellformed, Updating, Exists
<1>5. ASSUME NEW r \in Requests, EnsureAnotherAdmin(r) PROVE TypeOK' /\ Wellformed'
  BY <1>5, EnsureAnotherAdminStep DEF TypeOK, Wellformed, Updating, Exists
<1>6. ASSUME NEW r \in Requests, ReadExisting(r) PROVE TypeOK' /\ Wellformed'
  BY <1>6, ReadExistingStep DEF TypeOK, Wellformed, Updating, Exists
<1>7. ASSUME NEW r \in Requests, WriteUser(r) PROVE TypeOK' /\ Wellformed'
  BY <1>7, WriteUserStep DEF TypeOK, Wellformed, Updating, Exists
<1>8. ASSUME NEW r \in Requests, ReadBack(r) \/ ClearPermissions(r) \/ InsertPermission(r) \/ Fail(r)
      PROVE  TypeOK' /\ Wellformed'
  BY <1>8, PermissionsStep DEF TypeOK, Wellformed, Updating, Exists
<1>9. ASSUME NEW u \in Users, Register(u) PROVE TypeOK' /\ Wellformed'
  <2>1. TypeOK'
    BY <1>9, RegisterStep DEF TypeOK
  <2>2. \A v \in Users : Exists(v) => Exists(v)'
    BY <1>9, RegisterStep DEF Exists
  <2>3. QED
    BY <1>9, <2>1, <2>2, RegisterStep DEF Wellformed, Updating
<1>10. CASE UNCHANGED vars
  BY <1>10 DEF vars, TypeOK, Wellformed, Updating, Exists
<1>11. QED
  BY <1>1, <1>2, <1>3, <1>4, <1>5, <1>6, <1>7, <1>8, <1>9, <1>10 DEF Next, Step

\* A request that begins finds the others idle.
LEMMA BeginSerial ==
  ASSUME TypeOK, NEW r \in Requests, BeginCreate(r) \/ BeginUpdate(r),
         ~overlapped => Serial, ~overlapped'
  PROVE  Serial'
<1>1. /\ UNCHANGED <<role, active>> /\ ~overlapped
      /\ \A s \in Requests : s # r => req'[s].at = "idle"
      /\ req'[r].at \in {"create", "read"}
      /\ req'[r].at = "read" => req'[r].by \in Users /\ Admin(req'[r].by)
  BY BeginCreateStep, BeginUpdateStep
<1>2. Alone' /\ CallerIsAdmin'
  BY <1>1 DEF Alone, CallerIsAdmin, Updating, Admin
<1>3. CallerStaysActive' /\ DemotionChecked' /\ WrittenBack'
  BY <1>1 DEF CallerStaysActive, DemotionChecked, WrittenBack
<1>4. AdminRemains'
  BY <1>1 DEF Serial, AdminRemains, Admin
<1>5. QED
  BY <1>2, <1>3, <1>4 DEF Serial

\* The reads of UpdateUser and what follows the write leave the table alone.
LEMMA ReadSerial ==
  ASSUME TypeOK, Wellformed, Serial, NEW r \in Requests,
         \/ ReadTarget(r) \/ EnsureAnotherAdmin(r) \/ ReadExisting(r)
         \/ ReadBack(r) \/ ClearPermissions(r) \/ InsertPermission(r) \/ Fail(r)
  PROVE  Serial'
<1>1. /\ UNCHANGED <<role, active>>
      /\ \A s \in Requests : s # r => req'[s] = req[s]
      /\ req'[r].at \in {"idle", "another", "existing", "write", "clear", "insert"}
      /\ req'[r].at # "idle" => /\ req[r].at # "idle"
                               /\ req'[r].by = req[r].by /\ req'[r].user = req[r].user
      /\ req'[r].at \in Updating => req[r].at \in Updating /\ req'[r].status = req[r].status
  BY ReadTargetStep, EnsureAnotherAdminStep, ReadExistingStep, PermissionsStep DEF Updating
<1>2. Alone'
  BY <1>1 DEF Serial, Alone
<1>3. CallerIsAdmin'
  BY <1>1 DEF Serial, CallerIsAdmin, Admin, Updating
<1>4. AdminRemains'
  BY <1>1 DEF Serial, AdminRemains, Admin
<1>5. ASSUME NEW s \in Requests, s # r
      PROVE  /\ req'[s].at \in {"another", "existing", "write"} /\ req'[s].user = req'[s].by
                   => req'[s].status # "disabled"
             /\ req'[s].at = "existing" /\ Demotes(s)' => OtherLeft(req[s].user)'
             /\ req'[s].at = "write" =>
                  OtherLeft(req[s].user)' \/ (req'[s].role = "admin" /\ req'[s].newActive)
             /\ req'[s].at = "write" =>
                  req'[s].newActive = (IF req'[s].status = Keep THEN active'[req'[s].user]
                                                                ELSE req'[s].status = "active")
  BY <1>1, <1>5 DEF Serial, CallerStaysActive, DemotionChecked, WrittenBack, Demotes, OtherLeft, Admin
<1>6. CallerStaysActive'
  <2>1. req'[r].at \in {"another", "existing", "write"} /\ req'[r].user = req'[r].by
          => req'[r].status # "disabled"
    BY ReadTargetStep, EnsureAnotherAdminStep, ReadExistingStep, PermissionsStep
       DEF Serial, CallerStaysActive, DisablesSelf
  <2>2. QED
    BY <1>5, <2>1 DEF CallerStaysActive
<1>7. WrittenBack'
  <2>1. req'[r].at = "write" =>
            /\ ReadExisting(r)
            /\ req'[r].newActive = NewActive(r) /\ req'[r].status = req[r].status
    BY ReadTargetStep, EnsureAnotherAdminStep, ReadExistingStep, PermissionsStep
  <2>2. req'[r].at = "write" =>
            req'[r].newActive = (IF req'[r].status = Keep THEN active'[req'[r].user]
                                                          ELSE req'[r].status = "active")
    BY <1>1, <2>1 DEF NewActive
  <2>3. QED
    BY <1>5, <2>2 DEF WrittenBack
<1>8. DemotionChecked'
  <2>1. req'[r].at = "existing" /\ Demotes(r)' => OtherLeft(req[r].user)'
    <3>1. CASE ReadTarget(r)
      BY <1>1, <3>1, ReadTargetStep DEF Demotes
    <3>2. CASE EnsureAnotherAdmin(r)
      BY <1>1, <3>2, EnsureAnotherAdminStep DEF OtherLeft, Admin
    <3>3. CASE ~ReadTarget(r) /\ ~EnsureAnotherAdmin(r)
      BY <3>3, ReadExistingStep, PermissionsStep
    <3>4. QED
      BY <3>1, <3>2, <3>3
  <2>2. req'[r].at = "write" =>
            OtherLeft(req[r].user)' \/ (req'[r].role = "admin" /\ req'[r].newActive)
    <3>1. CASE ReadExisting(r)
      <4>1. /\ req[r].at = "existing" /\ req'[r].user = req[r].user
            /\ req'[r].role = RoleAfter(r) /\ req'[r].newActive = NewActive(r)
            /\ req[r].user \in Users /\ req[r].by \in Users
        BY <3>1, ReadExistingStep DEF Wellformed
      <4>2. CASE req[r].user # req[r].by
        <5>1. Admin(req[r].by)
          BY <4>1 DEF Serial, CallerIsAdmin, Updating
        <5>2. QED
          BY <1>1, <4>1, <4>2, <5>1 DEF OtherLeft, Admin
      <4>3. CASE req[r].user = req[r].by /\ Demotes(r)
        BY <1>1, <4>1, <4>3 DEF Serial, DemotionChecked, OtherLeft, Admin
      <4>4. CASE req[r].user = req[r].by /\ ~Demotes(r)
        <5>1. Admin(req[r].user) /\ req[r].status # "disabled"
          BY <4>1, <4>4 DEF Serial, CallerIsAdmin, CallerStaysActive, Updating
        <5>2. req[r].status \in {Keep, "active"} /\ req[r].role \in {Keep, "admin"}
          <6>1. req[r].status \in {Keep, "active", "disabled"} /\ req[r].role \in {Keep, "admin", "user"}
            BY DEF TypeOK, Request
          <6>2. QED
            BY <5>1, <6>1, <4>4 DEF Demotes, Admin
        <5>3. RoleAfter(r) = "admin" /\ NewActive(r)
          BY <5>1, <5>2 DEF RoleAfter, NewActive, Admin
        <5>4. QED
          BY <4>1, <5>3
      <4>5. QED
        BY <4>2, <4>3, <4>4
    <3>2. CASE ~ReadExisting(r)
      BY <3>2, ReadTargetStep, EnsureAnotherAdminStep, PermissionsStep
    <3>3. QED
      BY <3>1, <3>2
  <2>3. QED
    BY <1>5, <2>1, <2>2 DEF DemotionChecked
<1>9. QED
  BY <1>2, <1>3, <1>4, <1>6, <1>7, <1>8 DEF Serial

\* A new user does not take an administrator away.
LEMMA NewUserSerial ==
  ASSUME TypeOK, Wellformed, Serial,
         (\E r \in Requests : InsertUser(r)) \/ (\E u \in Users : Register(u))
  PROVE  Serial'
<1>1. AdminRemains'
  BY InsertUserStep, RegisterStep DEF Serial, AdminRemains, Admin, Exists
<1>2. ASSUME NEW r \in Requests, InsertUser(r) PROVE Serial'
  <2>1. \A s \in Requests : s # r => req'[s].at = "idle"
    BY <1>2, InsertUserStep DEF Serial, Alone
  <2>2. req'[r].at \in {"idle", "clear"}
    BY <1>2, InsertUserStep
  <2>3. QED
    BY <1>1, <2>1, <2>2 DEF Serial, Alone, CallerIsAdmin, CallerStaysActive, DemotionChecked,
                            WrittenBack, Updating
<1>3. ASSUME NEW u \in Users, Register(u) PROVE Serial'
  <2>1. /\ req' = req /\ role'[u] = "user"
        /\ \A v \in Users : Admin(v) => Admin(v)'
        /\ \A v \in Users : Exists(v) => active'[v] = active[v]
        /\ \A v \in Users : role'[v] = "admin" => role[v] = "admin"
    BY <1>3, RegisterStep DEF Admin, Exists
  <2>2. Alone' /\ CallerStaysActive'
    BY <2>1 DEF Serial, Alone, CallerStaysActive
  <2>3. CallerIsAdmin'
    BY <2>1 DEF Serial, CallerIsAdmin, Wellformed, Updating
  <2>4. WrittenBack'
    BY <2>1 DEF Serial, WrittenBack, Wellformed, Updating
  <2>5. \A v \in Users : OtherLeft(v) => OtherLeft(v)'
    BY <2>1 DEF OtherLeft
  <2>6. DemotionChecked'
    BY <2>1, <2>5 DEF Serial, DemotionChecked, Demotes, Wellformed
  <2>7. QED
    BY <1>1, <2>2, <2>3, <2>4, <2>6 DEF Serial
<1>4. QED
  BY <1>2, <1>3

\* The row that is written leaves an administrator.
LEMMA WriteSerial ==
  ASSUME TypeOK, Wellformed, Serial, NEW r \in Requests, WriteUser(r)
  PROVE  Serial'
<1>1. /\ \A s \in Requests : s # r => req'[s].at = "idle"
      /\ req'[r].at = "back"
  BY WriteUserStep DEF Serial, Alone
<1>2. AdminRemains'
  <2>1. CASE OtherLeft(req[r].user)
    BY <2>1, WriteUserStep DEF OtherLeft, AdminRemains, Admin, TypeOK
  <2>2. CASE req[r].role = "admin" /\ req[r].newActive
    BY <2>2, WriteUserStep DEF AdminRemains, Admin, TypeOK
  <2>3. QED
    BY <2>1, <2>2, WriteUserStep DEF Serial, DemotionChecked
<1>3. QED
  BY <1>1, <1>2 DEF Serial, Alone, CallerIsAdmin, CallerStaysActive, DemotionChecked, WrittenBack, Updating

LEMMA StepIInv ==
  ASSUME IInv, [Next]_vars
  PROVE  IInv'
<1>1. TypeOK' /\ Wellformed' /\ TypeOK /\ Wellformed
  BY StepWellformed DEF IInv
<1> SUFFICES ASSUME ~overlapped' PROVE Serial'
  BY <1>1 DEF IInv
<1>2. ASSUME NEW r \in Requests, Step(r) PROVE Serial'
  <2>1. CASE BeginCreate(r) \/ BeginUpdate(r)
    BY <1>1, <2>1, BeginSerial DEF IInv
  <2>2. CASE ~(BeginCreate(r) \/ BeginUpdate(r))
    <3>1. overlapped' = overlapped
      BY <1>1, <1>2, <2>2, InsertUserStep, ReadTargetStep, EnsureAnotherAdminStep, ReadExistingStep,
         WriteUserStep, PermissionsStep DEF Step
    <3>2. Serial
      BY <3>1 DEF IInv
    <3>3. QED
      BY <1>1, <1>2, <2>2, <3>2, ReadSerial, NewUserSerial, WriteSerial DEF Step
  <2>3. QED
    BY <2>1, <2>2
<1>3. ASSUME NEW u \in Users, Register(u) PROVE Serial'
  BY <1>1, <1>3, RegisterStep, NewUserSerial DEF IInv
<1>4. CASE UNCHANGED vars
  BY <1>4 DEF IInv, Serial, vars, Alone, CallerIsAdmin, CallerStaysActive, DemotionChecked, WrittenBack,
              AdminRemains, Admin, OtherLeft, Demotes
<1>5. QED
  BY <1>2, <1>3, <1>4 DEF Next

-----------------------------------------------------------------------------
(* The state of every table and request is of its type, and administrators *)
(* whose requests of internal/auth never overlap always leave one of them  *)
(* active: UpdateUser refuses to remove the last.                          *)
THEOREM AdminIsLeft == Spec => [](TypeOK /\ AdminRemainsAlone)
<1>1. IInv => TypeOK /\ AdminRemainsAlone
  BY DEF IInv, Serial, AdminRemainsAlone
<1>2. QED
  BY <1>1, InitIInv, StepIInv, PTL DEF Spec

\* The role and the status that one step may give to a user.
AsAskedStep ==
    ~overlapped' =>
      \A u \in Users : Exists(u) =>
        /\ role'[u] # role[u] =>
             \E r \in Requests : req[r].at = "write" /\ req[r].user = u /\ req[r].role = role'[u]
        /\ active'[u] # active[u] =>
             \E r \in Requests : req[r].user = u /\ req[r].status =
                                   (IF active'[u] THEN "active" ELSE "disabled")

LEMMA IInvAsAsked ==
  ASSUME IInv, [Next]_vars
  PROVE  AsAskedStep
<1>1. TypeOK /\ Wellformed
  BY DEF IInv
<1> SUFFICES ASSUME ~overlapped', NEW u \in Users, Exists(u)
             PROVE /\ role'[u] # role[u] =>
                        \E r \in Requests : req[r].at = "write" /\ req[r].user = u /\ req[r].role = role'[u]
                   /\ active'[u] # active[u] =>
                        \E r \in Requests : req[r].user = u /\ req[r].status =
                                   (IF active'[u] THEN "active" ELSE "disabled")
  BY DEF AsAskedStep
<1>2. ASSUME NEW r \in Requests, WriteUser(r)
      PROVE  \/ role'[u] = role[u] /\ active'[u] = active[u]
             \/ /\ req[r].at = "write" /\ req[r].user = u /\ req[r].role = role'[u]
                /\ active'[u] # active[u] => req[r].status = (IF active'[u] THEN "active" ELSE "disabled")
  <2>1. /\ req[r].at = "write" /\ req[r].user \in Users /\ overlapped' = overlapped
        /\ role' = [role EXCEPT ![req[r].user] = req[r].role]
        /\ active' = [active EXCEPT ![req[r].user] = req[r].newActive]
    BY <1>1, <1>2, WriteUserStep
  <2>2. req[r].newActive = (IF req[r].status = Keep THEN active[req[r].user] ELSE req[r].status = "active")
    BY <2>1 DEF IInv, Serial, WrittenBack
  <2>3. req[r].status \in {Keep, "active", "disabled"} /\ req[r].newActive \in BOOLEAN
    BY <1>1 DEF TypeOK, Request
  <2>4. role \in [Users -> {"none", "admin", "user"}] /\ active \in [Users -> BOOLEAN]
    BY <1>1 DEF TypeOK
  <2>5. CASE req[r].user # u
    BY <2>1, <2>4, <2>5
  <2>6. CASE req[r].user = u
    <3>1. role'[u] = req[r].role /\ active'[u] = req[r].newActive
      BY <2>1, <2>4, <2>6
    <3>2. active'[u] # active[u] => req[r].status = (IF active'[u] THEN "active" ELSE "disabled")
      BY <2>2, <2>3, <2>4, <2>6, <3>1
    <3>3. QED
      BY <2>1, <2>6, <3>1, <3>2
  <2>7. QED
    BY <2>5, <2>6
<1>3. CASE ~(\E r \in Requests : WriteUser(r))
  <2>1. role'[u] = role[u] /\ active'[u] = active[u]
    BY <1>1, <1>3, BeginCreateStep, BeginUpdateStep, InsertUserStep, ReadTargetStep, ReadExistingStep,
       EnsureAnotherAdminStep, PermissionsStep, RegisterStep DEF Next, Step, vars
  <2>2. QED
    BY <2>1
<1>4. QED
  BY <1>2, <1>3

(* UpdateUser writes every column of the row back each time, yet working   *)
(* alone it changes a role or a status only to what its input asks for.    *)
THEOREM OnlyAsAsked == Spec => AsAsked
<1>1. IInv /\ [Next]_vars => [AsAskedStep]_vars
  BY IInvAsAsked
<1>2. AsAsked <=> [][AsAskedStep]_vars
  BY PTL DEF AsAsked, AsAskedStep
<1>3. QED
  BY <1>1, <1>2, InitIInv, StepIInv, PTL DEF Spec
-----------------------------------------------------------------------------
(* The permissions of regular users.                                       *)

Rewriting == {"back", "clear", "insert"}

\* The user whose permissions a request rewrites exists, and a regular one
\* will get some.
Permits(r) ==
    /\ req[r].at = "create" /\ req[r].role = "user" => req[r].perms # {}
    /\ req[r].at \in {"another", "existing"} /\ RoleAfter(r) = "user" =>
         IF req[r].given THEN req[r].perms # {} ELSE permissions[req[r].user] # {}
    /\ req[r].at = "write" /\ req[r].role = "user" => req[r].perms # {}
    /\ req[r].at \in Rewriting =>
         Exists(req[r].user) /\ (role[req[r].user] = "user" => req[r].perms # {})

\* A regular user without any is one whose permissions are being rewritten.
OnlyRewritten ==
    \A u \in Users : role[u] = "user" /\ permissions[u] = {} =>
        \E r \in Requests : req[r].at \in Rewriting /\ req[r].user = u

Permitted == (\A r \in Requests : Permits(r)) /\ OnlyRewritten

PermitInv == ~overlapped /\ ~cut => Permitted

LEMMA InitPermit == Init => PermitInv
<1> SUFFICES ASSUME Init PROVE Permitted
  BY DEF PermitInv
<1>1. \A r \in Requests : req[r].at = "idle"
  BY IdleTyped DEF Init
<1>2. \A u \in Users : role[u] # "user"
  BY DEF Init
<1>3. QED
  BY <1>1, <1>2 DEF Permitted, Permits, OnlyRewritten, Rewriting

\* A step of the only request, when no other user's row or permissions change.
LEMMA LonePermits ==
  ASSUME Alone, Permitted, NEW r \in Requests, req[r].at # "idle",
         \A s \in Requests : s # r => req'[s] = req[s],
         \A u \in Users : u # req[r].user => role'[u] = role[u] /\ permissions'[u] = permissions[u],
         req'[r].at # "idle" => req'[r].user = req[r].user,
         Permits(r)',
         role'[req[r].user] = "user" /\ permissions'[req[r].user] = {} => req'[r].at \in Rewriting
  PROVE  Permitted'
<1>1. \A s \in Requests : s # r => req[s].at = "idle" /\ req'[s].at = "idle"
  BY DEF Alone
<1>2. \A s \in Requests : Permits(s)'
  BY <1>1 DEF Permits, Rewriting
<1>3. ASSUME NEW u \in Users, role'[u] = "user", permissions'[u] = {}
      PROVE  \E s \in Requests : req'[s].at \in Rewriting /\ req'[s].user = u
  <2>1. u = req[r].user
    BY <1>1, <1>3 DEF Permitted, OnlyRewritten, Rewriting
  <2>2. QED
    BY <1>3, <2>1 DEF Rewriting
<1>4. QED
  BY <1>2, <1>3 DEF Permitted, OnlyRewritten

\* As long as it has not written the row, every regular user has permissions.
LEMMA BeforeRewriting ==
  ASSUME Alone, Permitted, NEW r \in Requests, req[r].at \notin Rewriting \cup {"idle"}
  PROVE  \A u \in Users : role[u] = "user" => permissions[u] # {}
BY DEF Alone, Permitted, OnlyRewritten, Rewriting

LEMMA BeginPermits ==
  ASSUME IInv, PermitInv, NEW r \in Requests, BeginCreate(r) \/ BeginUpdate(r), ~overlapped', ~cut'
  PROVE  Permitted'
<1>1. /\ UNCHANGED <<role, active, permissions, cut>>
      /\ ~overlapped /\ \A s \in Requests : req[s].at = "idle"
      /\ \A s \in Requests : s # r => req'[s] = req[s]
      /\ req'[r].at \in {"create", "read"}
  BY BeginCreateStep, BeginUpdateStep DEF IInv
<1>2. \A u \in Users : role[u] = "user" => permissions[u] # {}
  BY <1>1 DEF PermitInv, Permitted, OnlyRewritten, Rewriting
<1>3. BeginCreate(r) /\ req'[r].role = "user" => req'[r].perms # {}
  BY ConstantsAssumption DEF BeginCreate, ConstantsAssumption, IInv, TypeOK
<1>4. BeginUpdate(r) => req'[r].at = "read"
  BY BeginUpdateStep DEF IInv
<1>5. \A s \in Requests : Permits(s)'
  BY <1>1, <1>3, <1>4 DEF Permits, Rewriting
<1>6. QED
  BY <1>1, <1>2, <1>5 DEF Permitted, OnlyRewritten

LEMMA ReadTargetPermits ==
  ASSUME IInv, Serial, Permitted, NEW r \in Requests, ReadTarget(r)
  PROVE  Permitted'
<1> DEFINE u == req[r].user
           default == ~req[r].given /\ req[r].role = "user" /\ permissions[u] = {}
<1>1. /\ UNCHANGED <<role, permissions>> /\ req[r].at = "read"
      /\ \A s \in Requests : s # r => req'[s] = req[s]
      /\ req'[r].at # "idle" => req'[r].user = u /\ req'[r].role = req[r].role
      /\ req'[r].at \in {"idle", "another", "existing"}
      /\ u \in Users
  BY ReadTargetStep DEF IInv, Wellformed
<1>2. \A v \in Users : role[v] = "user" => permissions[v] # {}
  BY <1>1, BeforeRewriting DEF Serial, Rewriting
<1>3. ASSUME req'[r].at # "idle"
      PROVE  /\ ~(req[r].given /\ RoleAfter(r) = "user" /\ req[r].perms = {})
             /\ req'[r].given = (req[r].given \/ default)
             /\ req'[r].perms = IF default THEN Permissions ELSE req[r].perms
  <2>1. ~End(r)
    BY <1>3, EndMoves DEF IInv, TypeOK
  <2>2. QED
    BY <2>1 DEF ReadTarget, IInv, TypeOK
<1>4. req'[r].at # "idle" => RoleAfter(r)' = RoleAfter(r)
  BY <1>1 DEF RoleAfter
<1>5. req'[r].at # "idle" /\ RoleAfter(r) = "user" =>
        IF req'[r].given THEN req'[r].perms # {} ELSE permissions[u] # {}
  <2> SUFFICES ASSUME req'[r].at # "idle", RoleAfter(r) = "user"
               PROVE  IF req'[r].given THEN req'[r].perms # {} ELSE permissions[u] # {}
    OBVIOUS
  <2>1. CASE req[r].given
    BY <1>3, <2>1
  <2>2. CASE default
    BY <1>3, <2>2, ConstantsAssumption DEF ConstantsAssumption
  <2>3. CASE ~req[r].given /\ ~default
    <3>1. permissions[u] # {}
      BY <1>1, <1>2, <2>3 DEF RoleAfter
    <3>2. ~req'[r].given
      BY <1>3, <2>3
    <3>3. QED
      BY <3>1, <3>2
  <2>4. QED
    BY <2>1, <2>2, <2>3
<1>6. Permits(r)'
  BY <1>1, <1>4, <1>5 DEF Permits, Rewriting
<1>7. QED
  BY <1>1, <1>2, <1>6, LonePermits DEF Serial

LEMMA ReadPermits ==
  ASSUME IInv, Serial, Permitted, NEW r \in Requests, EnsureAnotherAdmin(r) \/ ReadExisting(r)
  PROVE  Permitted'
<1>1. /\ UNCHANGED <<role, permissions>> /\ req[r].at \in {"another", "existing"}
      /\ \A s \in Requests : s # r => req'[s] = req[s]
      /\ req'[r].at # "idle" => req'[r].user = req[r].user
      /\ req[r].user \in Users
  BY EnsureAnotherAdminStep, ReadExistingStep DEF IInv, Wellformed
<1>2. \A v \in Users : role[v] = "user" => permissions[v] # {}
  BY <1>1, BeforeRewriting DEF Serial, Rewriting
<1>3. RoleAfter(r) = "user" =>
        IF req[r].given THEN req[r].perms # {} ELSE permissions[req[r].user] # {}
  BY <1>1 DEF Permitted, Permits
<1>4. CASE EnsureAnotherAdmin(r)
  <2>1. \/ req'[r].at = "idle"
        \/ /\ req'[r].at = "existing" /\ req'[r].role = req[r].role
           /\ req'[r].given = req[r].given /\ req'[r].perms = req[r].perms
    BY <1>4, EndMoves DEF EnsureAnotherAdmin, Goto, IInv, TypeOK, Request
  <2>2. Permits(r)'
    BY <1>1, <1>3, <2>1 DEF Permits, RoleAfter, Rewriting
  <2>3. QED
    BY <1>1, <1>2, <2>2, LonePermits DEF Serial
<1>5. CASE ReadExisting(r)
  <2>1. /\ req'[r].at = "write" /\ req'[r].role = RoleAfter(r)
        /\ req'[r].perms = IF req[r].given THEN req[r].perms ELSE permissions[req[r].user]
    BY <1>5 DEF ReadExisting, IInv, TypeOK
  <2>2. Permits(r)'
    BY <1>3, <2>1 DEF Permits, Rewriting
  <2>3. QED
    BY <1>1, <1>2, <2>2, LonePermits DEF Serial
<1>6. QED
  BY <1>4, <1>5

\* The row is written, by an update or for a new user.
LEMMA RowPermits ==
  ASSUME IInv, Serial, Permitted, NEW r \in Requests, WriteUser(r) \/ InsertUser(r)
  PROVE  Permitted'
<1> DEFINE u == req[r].user
<1>1. /\ permissions' = permissions /\ req[r].at \in {"write", "create"}
      /\ \A s \in Requests : s # r => req'[s] = req[s]
      /\ req'[r].at # "idle" => req'[r].user = u
      /\ req'[r].at \in {"idle", "back", "clear"}
      /\ u \in Users /\ req[r].role \in {"admin", "user"}
  BY WriteUserStep, InsertUserStep DEF IInv, Wellformed
<1>2. \A v \in Users : role[v] = "user" => permissions[v] # {}
  BY <1>1, BeforeRewriting DEF Serial, Rewriting
<1>3. req[r].role = "user" => req[r].perms # {}
  BY <1>1 DEF Permitted, Permits
<1>4. \/ role' = role /\ End(r)
      \/ role' = [role EXCEPT ![u] = req[r].role] /\ End(r) /\ req[r].role # "user"
      \/ \E step \in {"back", "clear"} :
           role' = [role EXCEPT ![u] = req[r].role] /\ ThenPermissions(r, step)
  BY DEF WriteUser, InsertUser
<1>5. req'[r].at # "idle" => req'[r].perms = req[r].perms /\ role'[u] = req[r].role
  <2>1. ASSUME ~End(r) PROVE req'[r].perms = req[r].perms /\ role'[u] = req[r].role
    BY <1>1, <1>4, <2>1 DEF ThenPermissions, IInv, TypeOK
  <2>2. QED
    BY <2>1, EndMoves DEF IInv, TypeOK
<1>6. Permits(r)'
  BY <1>1, <1>3, <1>5 DEF Permits, Rewriting, Exists
<1>7. \A v \in Users : v # u => role'[v] = role[v]
  BY <1>4 DEF IInv, TypeOK
<1>8. role'[u] = "user" /\ permissions[u] = {} => req'[r].at \in Rewriting
  <2>1. CASE req'[r].at = "idle"
    <3>1. role'[u] = role[u] \/ role'[u] # "user"
      <4>1. CASE End(r)
        BY <1>1, <1>4, <4>1 DEF ThenPermissions, End, Idle, IInv, TypeOK
      <4>2. CASE ~End(r)
        BY <1>4, <2>1, <4>2, ThenPermissionsMoves DEF IInv, TypeOK, Steps
      <4>3. QED
        BY <4>1, <4>2
    <3>2. QED
      BY <1>1, <1>2, <3>1
  <2>2. QED
    BY <1>1, <2>1 DEF Rewriting
<1>9. QED
  BY <1>1, <1>6, <1>7, <1>8, LonePermits DEF Serial

LEMMA RewritePermits ==
  ASSUME IInv, Serial, Permitted, NEW r \in Requests,
         ReadBack(r) \/ ClearPermissions(r) \/ InsertPermission(r)
  PROVE  Permitted'
<1> DEFINE u == req[r].user
<1>1. /\ role' = role /\ req[r].at # "idle" /\ req \in [Requests -> Request]
      /\ \A s \in Requests : s # r => req'[s] = req[s]
      /\ req'[r].at # "idle" => req'[r].user = u
      /\ req'[r].at \in {"idle", "clear", "insert"}
      /\ u \in Users /\ permissions \in [Users -> SUBSET Permissions]
  <2>1. req[r].at # "idle"
    BY DEF ReadBack, ClearPermissions, InsertPermission
  <2>2. QED
    BY <2>1, PermissionsStep DEF IInv, Wellformed, TypeOK
<1>2. req[r].at \in Rewriting => Exists(u) /\ (role[u] = "user" => req[r].perms # {})
  BY DEF Permitted, Permits
<1>3. CASE ReadBack(r)
  <2>1. /\ permissions' = permissions /\ req[r].at = "back"
        /\ \/ role[u] # "user" /\ req'[r].at = "idle"
           \/ req'[r].at = "clear" /\ req'[r].perms = req[r].perms
    BY <1>1, <1>3, EndMoves DEF ReadBack, Goto, table, Request
  <2>2. Permits(r)'
    BY <1>1, <1>2, <2>1 DEF Permits, Rewriting, Exists
  <2>3. QED
    BY <1>1, <2>1, <2>2, LonePermits DEF Serial, Rewriting
<1>4. CASE ClearPermissions(r)
  <2>1. /\ permissions' = [permissions EXCEPT ![u] = {}] /\ req[r].at = "clear"
        /\ \/ req[r].perms = {} /\ req'[r].at = "idle"
           \/ req[r].perms # {} /\ req'[r].at = "insert" /\ req'[r].perms = req[r].perms
    BY <1>1, <1>4, EndMoves DEF ClearPermissions, Goto, Request
  <2>2. Permits(r)'
    BY <1>1, <1>2, <2>1 DEF Permits, Rewriting, Exists
  <2>3. QED
    BY <1>1, <1>2, <2>1, <2>2, LonePermits DEF Serial, Rewriting
<1>5. CASE InsertPermission(r)
  <2>1. PICK p \in req[r].perms :
           /\ permissions' = [permissions EXCEPT ![u] = @ \cup {p}]
           /\ IF req[r].perms = {p} THEN End(r)
              ELSE req' = [req EXCEPT ![r].perms = @ \ {p}]
    BY <1>5 DEF InsertPermission
  <2>2. /\ permissions'[u] # {} /\ req[r].at = "insert"
        /\ \A v \in Users : v # u => permissions'[v] = permissions[v]
    BY <1>1, <1>5, <2>1 DEF InsertPermission
  <2>3. req'[r].at # "idle" => req'[r].perms # {} /\ req'[r].at = "insert"
    <3>1. CASE req[r].perms = {p}
      BY <1>1, <2>1, <3>1, EndMoves
    <3>2. CASE req[r].perms # {p}
      <4>1. req'[r].perms = req[r].perms \ {p} /\ req'[r].at = "insert"
        BY <1>1, <2>1, <2>2, <3>2 DEF Request
      <4>2. QED
        BY <3>2, <4>1
    <3>3. QED
      BY <3>1, <3>2
  <2>4. Permits(r)'
    BY <1>1, <1>2, <2>2, <2>3 DEF Permits, Rewriting, Exists
  <2>5. QED
    BY <1>1, <2>2, <2>4, LonePermits DEF Serial
<1>6. QED
  BY <1>3, <1>4, <1>5

\* A request that ends early, in no rewrite, leaves the table as it was.
LEMMA FailPermits ==
  ASSUME IInv, Serial, Permitted, NEW r \in Requests, Fail(r), ~cut'
  PROVE  Permitted'
<1>1. /\ role' = role /\ permissions' = permissions /\ req[r].at \notin Rewriting
      /\ req' = [req EXCEPT ![r] = Idle] /\ req \in [Requests -> Request]
  BY DEF Fail, End, Rewriting, table, IInv, TypeOK
<1>2. req'[r].at = "idle" /\ \A s \in Requests : s # r => req'[s] = req[s]
  BY <1>1 DEF Idle
<1>3. ASSUME NEW s \in Requests PROVE Permits(s)'
  <2>1. CASE s = r
    BY <1>2, <2>1 DEF Permits, Rewriting, Updating
  <2>2. CASE s # r
    BY <1>1, <1>2, <2>2 DEF Permitted, Permits, RoleAfter, Exists
  <2>3. QED
    BY <2>1, <2>2
<1>4. OnlyRewritten'
  BY <1>1, <1>2 DEF Permitted, OnlyRewritten
<1>5. QED
  BY <1>3, <1>4 DEF Permitted

LEMMA RegisterPermits ==
  ASSUME IInv, Permitted, NEW u \in Users, Register(u)
  PROVE  Permitted'
<1>1. /\ req' = req /\ ~Exists(u)
      /\ \A v \in Users : v # u => role'[v] = role[v] /\ permissions'[v] = permissions[v]
      /\ permissions'[u] = Permissions
  BY DEF Register, IInv, TypeOK
<1>2. ASSUME NEW r \in Requests PROVE Permits(r)'
  <2>1. req[r].at \in Updating \cup Rewriting => req[r].user \in Users /\ req[r].user # u
    BY <1>1 DEF IInv, Wellformed, Permitted, Permits, Updating, Rewriting, Exists
  <2>2. QED
    BY <1>1, <2>1 DEF Permitted, Permits, RoleAfter, Exists, Updating
<1>3. OnlyRewritten'
  BY <1>1, ConstantsAssumption DEF ConstantsAssumption, Permitted, OnlyRewritten
<1>4. QED
  BY <1>2, <1>3 DEF Permitted

LEMMA StepPermit ==
  ASSUME IInv, PermitInv, [Next]_vars
  PROVE  PermitInv'
<1>1. TypeOK /\ Wellformed
  BY DEF IInv
<1> SUFFICES ASSUME ~overlapped', ~cut' PROVE Permitted'
  BY DEF PermitInv
<1>2. ASSUME NEW r \in Requests, Step(r) PROVE Permitted'
  <2>1. CASE BeginCreate(r) \/ BeginUpdate(r)
    BY <2>1, BeginPermits
  <2>2. CASE ~(BeginCreate(r) \/ BeginUpdate(r))
    <3>1. overlapped' = overlapped
      BY <1>1, <1>2, <2>2, InsertUserStep, ReadTargetStep, EnsureAnotherAdminStep, ReadExistingStep,
         WriteUserStep, PermissionsStep DEF Step
    <3>2. ~cut
      BY <1>2, <2>2 DEF Step, InsertUser, ReadTarget, EnsureAnotherAdmin, ReadExisting, WriteUser,
                        ReadBack, ClearPermissions, InsertPermission, Fail
    <3>3. Serial /\ Permitted
      BY <3>1, <3>2 DEF IInv, PermitInv
    <3>4. QED
      BY <1>2, <2>2, <3>3, ReadTargetPermits, ReadPermits, RowPermits, RewritePermits, FailPermits DEF Step
  <2>3. QED
    BY <2>1, <2>2
<1>3. ASSUME NEW u \in Users, Register(u) PROVE Permitted'
  <2>1. ~overlapped /\ ~cut
    BY <1>3 DEF Register
  <2>2. QED
    BY <1>3, <2>1, RegisterPermits DEF PermitInv
<1>4. CASE UNCHANGED vars
  BY <1>4 DEF vars, PermitInv, Permitted, Permits, OnlyRewritten, RoleAfter, Exists
<1>5. QED
  BY <1>2, <1>3, <1>4 DEF Next

(* Between requests every regular user has some permission, unless a       *)
(* request was cut short or two overlapped, although UpdateUser deletes    *)
(* the permissions and inserts them one by one (replaceUserPermissions).   *)
THEOREM UsersStayPermitted == Spec => []UsersArePermitted
<1>1. PermitInv => UsersArePermitted
  BY IdleTyped DEF PermitInv, Permitted, OnlyRewritten, Rewriting, UsersArePermitted
<1>2. IInv /\ PermitInv /\ [Next]_vars => (IInv /\ PermitInv)'
  BY StepIInv, StepPermit
<1>3. QED
  BY <1>1, <1>2, InitIInv, InitPermit, PTL DEF Spec

-----------------------------------------------------------------------------
(* Logins, registrations and the middleware beside the administrators.     *)

Deciding == {"session", "permissions"}

\* Tokens that were never given out have no row and do not expire.
GivenOut == \A t \in Tokens : t \in open \cup expired => owner[t] # NoUser

\* What is true of a request was noted, and the statements saw some of that.
Noted(v) ==
    /\ visit[v].at # "idle" => visit[v].token \in Tokens /\ owner[visit[v].token] \in Users
    /\ visit[v].at \in Deciding => Facts(v) \subseteq held[v]
    /\ visit[v].at = "session" /\ ~visit[v].late /\ visit[v].token \in open => "session" \in held[v]
    /\ visit[v].at = "permissions" =>
         /\ "session" \in held[v]
         /\ visit[v].active => "active" \in held[v]
         /\ visit[v].role = "admin" => "path" \in held[v]
    /\ visit[v].at = "admitted" => {"session", "active", "path"} \subseteq held[v]

AccessIInv == IInv /\ AccessTypeOK /\ GivenOut /\ \A v \in Visits : Noted(v)

-----------------------------------------------------------------------------
\* Every step of the whole is one of the administrators, or none of theirs.
LEMMA AccessIsAdmin == [AccessNext]_<<vars, accessVars>> => [Next]_vars
<1> SUFFICES ASSUME AccessStep \/ UNCHANGED <<vars, accessVars>> PROVE [Next]_vars
  BY DEF AccessNext
<1>1. ASSUME NEW l \in Logins, NEW u \in Users, SignUp(l, u) PROVE Next
  BY <1>1 DEF SignUp, Next
<1>2. ASSUME NEW r \in Requests, Step(r) PROVE Next
  BY <1>2 DEF Next
<1>3. ASSUME NEW v \in Visits, Arrive(v) \/ LoadUser(v) \/ LoadPermissions(v) \/ Leave(v)
      PROVE  UNCHANGED vars
  BY <1>3 DEF Arrive, LoadUser, LoadPermissions, Leave
<1>4. ASSUME NEW t \in Tokens, Logout(t) \/ ExpireSession(t) PROVE UNCHANGED vars
  BY <1>4 DEF Logout, ExpireSession
<1>5. ASSUME NEW l \in Logins,
             CreateSession(l) \/ LoseLogin(l) \/ \E u \in Users : Login(l, u)
      PROVE  UNCHANGED vars
  BY <1>5 DEF CreateSession, LoseLogin, Login
<1>6. QED
  BY <1>1, <1>2, <1>3, <1>4, <1>5 DEF AccessStep

LEMMA AccessInitIInv == AccessInit => AccessIInv
<1> SUFFICES ASSUME AccessInit PROVE AccessIInv
  OBVIOUS
<1>1. IInv
  BY InitIInv DEF AccessInit
<1>2. AccessTypeOK
  BY <1>1, AccessConstants DEF AccessInit, AccessTypeOK, IInv, NoVisit, Visit, Paths
<1>3. GivenOut /\ \A v \in Visits : Noted(v)
  BY DEF AccessInit, GivenOut, Noted, NoVisit, Visit, Deciding
<1>4. QED
  BY <1>1, <1>2, <1>3 DEF AccessIInv

-----------------------------------------------------------------------------
\* A request that does not move keeps its reasons: a token that was given out
\* is not opened again, and keeps its user.
LEMMA Waits ==
  ASSUME Observe, NEW v \in Visits, Noted(v), visit'[v] = visit[v],
         \A t \in Tokens : owner[t] # NoUser => owner'[t] = owner[t] /\ (t \in open' => t \in open)
  PROVE  Noted(v)'
<1>1. CASE visit[v].at \in Deciding
  <2>1. held'[v] = held[v] \cup Facts(v)'
    BY <1>1 DEF Observe, Deciding
  <2>2. visit[v].token \in Tokens /\ owner[visit[v].token] \in Users
    BY <1>1 DEF Noted, Deciding
  <2>3. owner'[visit[v].token] = owner[visit[v].token]
        /\ (visit[v].token \in open' => visit[v].token \in open)
    BY <2>2, ConstantsAssumption DEF ConstantsAssumption
  <2>4. QED
    BY <1>1, <2>1, <2>2, <2>3 DEF Noted, Deciding
<1>2. CASE visit[v].at = "admitted"
  <2>1. held'[v] = held[v]
    BY <1>2 DEF Observe
  <2>2. QED
    BY <1>2, <2>1, ConstantsAssumption DEF Noted, Deciding, ConstantsAssumption
<1>3. CASE visit[v].at \notin Deciding \cup {"admitted"}
  BY <1>3, ConstantsAssumption DEF Noted, Deciding, ConstantsAssumption
<1>4. QED
  BY <1>1, <1>2, <1>3

LEMMA HeldTyped == Observe /\ held \in [Visits -> SUBSET {"session", "active", "path"}]
                     => held' \in [Visits -> SUBSET {"session", "active", "path"}]
BY DEF Observe, Facts

\* Steps that leave the middleware alone.
LEMMA OutsideSteps ==
  ASSUME AccessIInv, Observe, IInv', UNCHANGED visit,
         owner' \in [Tokens -> Users \cup {NoUser}], open' \subseteq Tokens, expired' \subseteq Tokens,
         login' \in [Logins -> Users \cup {NoUser}], GivenOut',
         \A t \in Tokens : owner[t] # NoUser => owner'[t] = owner[t] /\ (t \in open' => t \in open)
  PROVE  AccessIInv'
<1>1. AccessTypeOK'
  BY HeldTyped DEF AccessIInv, AccessTypeOK, IInv
<1>2. ASSUME NEW v \in Visits PROVE Noted(v)'
  BY <1>2, Waits DEF AccessIInv
<1>3. QED
  BY <1>1, <1>2 DEF AccessIInv
LEMMA LoginKept ==
  ASSUME AccessIInv, Observe, IInv', NEW l \in Logins,
         CreateSession(l) \/ LoseLogin(l) \/ \E u \in Users : Login(l, u) \/ SignUp(l, u)
  PROVE  AccessIInv'
<1> USE DEF AccessIInv, AccessTypeOK
<1>1. CASE CreateSession(l)
  <2>1. PICK t \in Tokens : /\ owner[t] = NoUser
                            /\ owner' = [owner EXCEPT ![t] = login[l]]
                            /\ open' = open \cup {t}
    BY <1>1 DEF CreateSession
  <2>2. login[l] \in Users /\ UNCHANGED <<expired, visit>>
        /\ login' \in [Logins -> Users \cup {NoUser}]
    BY <1>1 DEF CreateSession
  <2>3. owner' \in [Tokens -> Users \cup {NoUser}] /\ open' \subseteq Tokens
    BY <2>1, <2>2
  <2>4. \A s \in Tokens : owner[s] # NoUser => owner'[s] = owner[s] /\ (s \in open' => s \in open)
    BY <2>1, <2>2
  <2>5. GivenOut'
    BY <2>1, <2>2, ConstantsAssumption DEF GivenOut, ConstantsAssumption
  <2>6. QED
    BY <2>2, <2>3, <2>4, <2>5, OutsideSteps
<1>2. CASE LoseLogin(l) \/ \E u \in Users : Login(l, u) \/ SignUp(l, u)
  <2>1. UNCHANGED <<owner, open, expired, visit>> /\ login' \in [Logins -> Users \cup {NoUser}]
    BY <1>2 DEF LoseLogin, Login, SignUp
  <2>2. GivenOut'
    BY <2>1 DEF GivenOut
  <2>3. QED
    BY <2>1, <2>2, OutsideSteps
<1>3. QED
  BY <1>1, <1>2

LEMMA TokenKept ==
  ASSUME AccessIInv, Observe, IInv', NEW t \in Tokens, Logout(t) \/ ExpireSession(t)
  PROVE  AccessIInv'
<1>1. UNCHANGED <<owner, login, visit>> /\ open' \subseteq open /\ expired' \subseteq Tokens
  BY DEF AccessIInv, AccessTypeOK, Logout, ExpireSession
<1>2. GivenOut'
  BY DEF AccessIInv, GivenOut, Logout, ExpireSession
<1>3. QED
  BY <1>1, <1>2, OutsideSteps DEF AccessIInv, AccessTypeOK

LEMMA AdminKept ==
  ASSUME AccessIInv, Observe, IInv', UNCHANGED <<owner, open, expired, login, visit>>
  PROVE  AccessIInv'
<1>1. GivenOut'
  BY DEF AccessIInv, GivenOut
<1>2. QED
  BY <1>1, OutsideSteps DEF AccessIInv, AccessTypeOK

-----------------------------------------------------------------------------
(* The steps of a request in the middleware. *)

VisitType == [at : {"idle", "session", "permissions", "admitted"}, token : Tokens \cup {NoToken},
              path : Paths, late : BOOLEAN, role : {"none", "admin", "user"}, active : BOOLEAN]

LEMMA InsideSteps ==
  ASSUME AccessIInv, Observe, IInv', NEW v \in Visits, NEW w \in VisitType,
         visit' = [visit EXCEPT ![v] = w], UNCHANGED <<owner, open, expired, login>>,
         Noted(v)'
  PROVE  AccessIInv'
<1>1. visit \in [Visits -> VisitType]
  BY DEF AccessIInv, AccessTypeOK, VisitType
<1>2. visit' \in [Visits -> VisitType]
  BY <1>1
<1>3. AccessTypeOK'
  BY <1>2, HeldTyped DEF AccessIInv, AccessTypeOK, IInv, VisitType
<1>4. ASSUME NEW x \in Visits, x # v PROVE Noted(x)'
  <2>1. visit'[x] = visit[x]
    BY <1>1, <1>4
  <2>2. QED
    BY <2>1, Waits DEF AccessIInv
<1>5. GivenOut'
  BY DEF AccessIInv, GivenOut
<1>6. QED
  BY <1>3, <1>4, <1>5 DEF AccessIInv

LEMMA RefuseKept ==
  ASSUME AccessIInv, Observe, IInv', NEW v \in Visits, Refuse(v),
         UNCHANGED <<owner, open, expired, login>>
  PROVE  AccessIInv'
<1>1. visit' = [visit EXCEPT ![v] = NoVisit] /\ NoVisit \in VisitType /\ NoVisit.at = "idle"
  BY DEF Refuse, NoVisit, Visit, VisitType, Paths
<1>2. visit'[v] = NoVisit
  BY <1>1 DEF AccessIInv, AccessTypeOK
<1>3. Noted(v)'
  BY <1>1, <1>2 DEF Noted, Deciding
<1>4. QED
  BY <1>1, <1>3, InsideSteps

LEMMA ArriveKept ==
  ASSUME AccessIInv, Observe, IInv', NEW v \in Visits, Arrive(v)
  PROVE  AccessIInv'
<1>1. PICK t \in Tokens, p \in Paths :
          /\ owner[t] # NoUser
          /\ visit' = [visit EXCEPT ![v] = Visit("session", t, p, t \in expired, "none", FALSE)]
  BY DEF Arrive
<1> DEFINE w == Visit("session", t, p, t \in expired, "none", FALSE)
<1>2. w \in VisitType /\ w.at = "session" /\ w.token = t /\ w.late = (t \in expired)
  BY DEF VisitType, Visit
<1>3. visit'[v] = w
  BY <1>1 DEF AccessIInv, AccessTypeOK
<1>4. UNCHANGED <<owner, open, expired, login>> /\ owner[t] \in Users
  BY <1>1 DEF Arrive, AccessIInv, AccessTypeOK
<1>5. held'[v] = held[v] \cup Facts(v)'
  BY <1>2, <1>3 DEF Observe
<1>6. t \in open /\ t \notin expired => "session" \in held'[v]
  BY <1>2, <1>3, <1>4, <1>5 DEF Facts
<1>7. Noted(v)'
  BY <1>2, <1>3, <1>4, <1>5, <1>6 DEF Noted, Deciding
<1>8. QED
  BY <1>1, <1>2, <1>4, <1>7, InsideSteps

LEMMA LoadUserKept ==
  ASSUME AccessIInv, Observe, IInv', NEW v \in Visits, LoadUser(v)
  PROVE  AccessIInv'
<1> DEFINE u == owner[visit[v].token]
           w == Visit("permissions", visit[v].token, visit[v].path, FALSE, role[u], active[u])
<1>1. CASE Live(v)
  <2>1. /\ visit[v].at = "session" /\ visit[v] \in VisitType
        /\ visit[v].token \in Tokens /\ u \in Users
        /\ visit' = [visit EXCEPT ![v] = w] /\ UNCHANGED <<owner, open, expired, login>>
    BY <1>1 DEF LoadUser, AccessIInv, AccessTypeOK, VisitType, Noted
  <2>2. role[u] \in {"none", "admin", "user"} /\ active[u] \in BOOLEAN
    BY <2>1 DEF AccessIInv, AccessTypeOK, TypeOK
  <2>3. w \in VisitType /\ w.at = "permissions" /\ w.token = visit[v].token
        /\ w.role = role[u] /\ w.active = active[u]
    BY <2>1, <2>2 DEF VisitType, Visit
  <2>4. visit'[v] = w
    BY <2>1 DEF AccessIInv, AccessTypeOK
  <2>5. held'[v] = held[v] \cup Facts(v)'
    BY <2>3, <2>4 DEF Observe
  <2>6. "session" \in held[v]
    BY <1>1, <2>1 DEF AccessIInv, Noted, Live
  <2>7. Facts(v) \subseteq held[v]
    BY <2>1 DEF AccessIInv, Noted, Deciding
  <2>8. /\ active[u] => "active" \in held[v]
        /\ role[u] = "admin" => "path" \in held[v]
    BY <2>7 DEF Facts, CanAccessPath
  <2>9. Noted(v)'
    BY <2>1, <2>3, <2>4, <2>5, <2>6, <2>8 DEF Noted, Deciding
  <2>10. QED
    BY <2>1, <2>3, <2>9, InsideSteps
<1>2. CASE ~Live(v)
  BY <1>2, RefuseKept DEF LoadUser
<1>3. QED
  BY <1>1, <1>2

LEMMA LoadPermissionsKept ==
  ASSUME AccessIInv, Observe, IInv', NEW v \in Visits, LoadPermissions(v)
  PROVE  AccessIInv'
<1> DEFINE u == owner[visit[v].token]
           w == [visit[v] EXCEPT !.at = "admitted"]
<1>1. CASE visit[v].active /\ CanAccessPath(visit[v].role, permissions[u], visit[v].path)
  <2>1. /\ visit[v].at = "permissions" /\ visit[v] \in VisitType
        /\ visit[v].token \in Tokens /\ u \in Users
        /\ visit' = [visit EXCEPT ![v] = w] /\ UNCHANGED <<owner, open, expired, login>>
    BY <1>1 DEF LoadPermissions, AccessIInv, AccessTypeOK, VisitType, Noted
  <2>2. w \in VisitType /\ w.at = "admitted" /\ w.token = visit[v].token
    BY <2>1 DEF VisitType
  <2>3. visit'[v] = w
    BY <2>1 DEF AccessIInv, AccessTypeOK
  <2>4. held'[v] = held[v]
    BY <2>2, <2>3 DEF Observe
  <2>5. Facts(v) \subseteq held[v] /\ "session" \in held[v] /\ "active" \in held[v]
    BY <1>1, <2>1 DEF AccessIInv, Noted, Deciding
  <2>6. "path" \in held[v]
    BY <1>1, <2>1, <2>5 DEF AccessIInv, Noted, Facts, CanAccessPath
  <2>7. Noted(v)'
    BY <2>1, <2>2, <2>3, <2>4, <2>5, <2>6 DEF Noted, Deciding
  <2>8. QED
    BY <2>1, <2>2, <2>7, InsideSteps
<1>2. CASE ~(visit[v].active /\ CanAccessPath(visit[v].role, permissions[u], visit[v].path))
  BY <1>2, RefuseKept DEF LoadPermissions
<1>3. QED
  BY <1>1, <1>2

LEMMA AccessStepIInv ==
  ASSUME AccessIInv, [AccessNext]_<<vars, accessVars>>
  PROVE  AccessIInv'
<1>1. IInv'
  BY AccessIsAdmin, StepIInv DEF AccessIInv
<1>2. CASE AccessNext
  <2>1. Observe
    BY <1>2 DEF AccessNext
  <2>2. ASSUME NEW r \in Requests, Step(r) /\ UNCHANGED <<owner, open, expired, login, visit>>
        PROVE  AccessIInv'
    BY <1>1, <2>1, <2>2, AdminKept
  <2>3. ASSUME NEW v \in Visits, Leave(v) PROVE AccessIInv'
    BY <1>1, <2>1, <2>3, RefuseKept DEF Leave
  <2>4. QED
    BY <1>1, <1>2, <2>1, <2>2, <2>3, LoginKept, TokenKept, ArriveKept, LoadUserKept, LoadPermissionsKept
    DEF AccessNext, AccessStep
<1>3. CASE UNCHANGED <<vars, accessVars>>
  BY <1>1, <1>3 DEF AccessIInv, AccessTypeOK, IInv, GivenOut, Noted, Facts, accessVars, vars
<1>4. QED
  BY <1>2, <1>3

-----------------------------------------------------------------------------
(* Logins, registrations and the middleware of internal/auth leave the     *)
(* users to the administrators: beside them, too, administrators that work *)
(* one after the other never remove the last one.                          *)
THEOREM AdminIsLeftBesideAccess == AccessSpec => Spec /\ []AdminRemainsAlone
<1>1. AccessInit => Init
  BY DEF AccessInit
<1>2. AccessSpec => Spec
  BY <1>1, AccessIsAdmin, PTL DEF AccessSpec, Spec
<1>3. QED
  BY <1>2, AdminIsLeft, PTL

(* A request that comes through the middleware had an open session, an     *)
(* active user and the right to its path, each at some moment since it     *)
(* arrived, although the middleware reads them in two statements           *)
(* (UserFromToken, attachPermissions).                                     *)
THEOREM AdmissionHasReason == AccessSpec => [](AccessTypeOK /\ AdmittedWithReason)
<1>1. AccessIInv => AccessTypeOK /\ AdmittedWithReason
  BY DEF AccessIInv, AccessTypeOK, Noted, AdmittedWithReason
<1>2. QED
  BY <1>1, AccessInitIInv, AccessStepIInv, PTL DEF AccessSpec
=============================================================================

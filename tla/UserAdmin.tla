------------------------------ MODULE UserAdmin ------------------------------
(***************************************************************************)
(* internal/auth: the users, their role, status and permissions, and the   *)
(* requests of administrators that create and update them.                 *)
(*                                                                         *)
(* UpdateUser checks and writes in separate statements, without a          *)
(* transaction: it reads the user, may list all users to see that another  *)
(* administrator is left, reads the user again, writes back every column   *)
(* and rewrites the permissions row by row.  The middleware decides once,  *)
(* before all that, that the caller is an administrator.                   *)
(***************************************************************************)
EXTENDS Naturals

CONSTANTS
    Users,
    Requests,     \* requests that are served at the same time
    Permissions,  \* all of them: DefaultUserPermissions
    MaxRequests,  \* bound: requests of administrators that are begun
    NoUser        \* nobody

ASSUME ConstantsAssumption == NoUser \notin Users /\ Permissions # {} /\ MaxRequests \in Nat

VARIABLES
    role,        \* users.role; "none": there is no such user
    active,      \* users.status = 'active'
    permissions, \* user_permissions
    req,         \* what each request is doing
    begun,       \* history: requests begun so far
    overlapped,  \* history: two requests ran at the same time
    cut          \* history: a request failed while it rewrote permissions

vars == <<role, active, permissions, req, begun, overlapped, cut>>
table == <<role, active, permissions>>

Keep == "keep"   \* a field that the input leaves out
Idle == [at |-> "idle", by |-> NoUser, user |-> NoUser, role |-> Keep, status |-> Keep,
         given |-> FALSE, perms |-> {}, newActive |-> FALSE]

Exists(u) == role[u] # "none"
Admin(u) == role[u] = "admin" /\ active[u]

\* Bootstrap has created the first administrator.
Init ==
    /\ \E u \in Users : role = [v \in Users |-> IF v = u THEN "admin" ELSE "none"]
    /\ active = [v \in Users |-> role[v] = "admin"]
    /\ permissions = [v \in Users |-> {}]
    /\ req = [r \in Requests |-> Idle]
    /\ begun = 0 /\ overlapped = FALSE /\ cut = FALSE

-----------------------------------------------------------------------------
Goto(r, step) == req' = [req EXCEPT ![r].at = step]
End(r) == req' = [req EXCEPT ![r] = Idle]

\* The row is written; what is left to do is about the permissions.
ThenPermissions(r, step) ==
    req' = [req EXCEPT ![r] = [at |-> step, by |-> @.by, user |-> @.user, role |-> Keep, status |-> Keep,
                               given |-> @.given, perms |-> @.perms, newActive |-> FALSE]]

\* The middleware and RequireAdmin let the request in.
Admit(r, by) ==
    /\ req[r] = Idle
    /\ Admin(by)
    /\ begun < MaxRequests
    /\ begun' = begun + 1
    /\ overlapped' = (overlapped \/ \E s \in Requests : req[s] # Idle)
    /\ UNCHANGED <<table, cut>>

(* createUser for an administrator, and Register. *)

BeginCreate(r) ==
    \E by, u \in Users, ro \in {"admin", "user"}, ac \in BOOLEAN, ps \in SUBSET Permissions :
        /\ ~Exists(u)
        /\ Admit(r, by)
        /\ req' = [req EXCEPT ![r] =
              [at |-> "create", by |-> by, user |-> u, role |-> ro, status |-> Keep, given |-> TRUE,
               perms |-> IF ro = "user" /\ ps = {} THEN Permissions ELSE ps, newActive |-> ac]]

\* The INSERT may meet an e-mail that is taken by now.
InsertUser(r) ==
    LET u == req[r].user IN
    /\ req[r].at = "create"
    /\ IF Exists(u) THEN End(r) /\ UNCHANGED <<role, active>>
       ELSE /\ role' = [role EXCEPT ![u] = req[r].role]
            /\ active' = [active EXCEPT ![u] = req[r].newActive]
            /\ IF req[r].role = "user" THEN ThenPermissions(r, "clear") ELSE End(r)
    /\ UNCHANGED <<permissions, begun, overlapped, cut>>

\* Register runs in one transaction.
Register(u) ==
    /\ ~Exists(u)
    /\ role' = [role EXCEPT ![u] = "user"]
    /\ active' = [active EXCEPT ![u] = TRUE]
    /\ permissions' = [permissions EXCEPT ![u] = Permissions]
    /\ UNCHANGED <<req, begun, overlapped, cut>>

-----------------------------------------------------------------------------
(* UpdateUser of the service ... *)

BeginUpdate(r) ==
    \E by, u \in Users, ro \in {Keep, "admin", "user"}, st \in {Keep, "active", "disabled"},
       gi \in BOOLEAN, ps \in SUBSET Permissions :
        /\ Exists(u)
        /\ ~gi => ps = {}
        /\ Admit(r, by)
        /\ req' = [req EXCEPT ![r] = [at |-> "read", by |-> by, user |-> u, role |-> ro, status |-> st,
                                      given |-> gi, perms |-> ps, newActive |-> FALSE]]

DisablesSelf(r) == req[r].status = "disabled" /\ req[r].user = req[r].by
Demotes(r) == req[r].role = "user" /\ role[req[r].user] = "admin"

RoleAfter(r) == IF req[r].role = Keep THEN role[req[r].user] ELSE req[r].role

\* The first GetUserByID and the checks that need what it read; the
\* administrator that is to be left is looked for in the next step.
ReadTarget(r) ==
    LET u == req[r].user IN
    /\ req[r].at = "read"
    /\ IF \/ DisablesSelf(r)
          \/ (req[r].given /\ RoleAfter(r) = "user" /\ req[r].perms = {})
         THEN End(r)
         ELSE LET default == ~req[r].given /\ req[r].role = "user" /\ permissions[u] = {} IN
              req' = [req EXCEPT ![r] =
                 [at |-> IF Demotes(r) THEN "another" ELSE "existing",
                  by |-> @.by, user |-> u, role |-> @.role, status |-> @.status,
                  given |-> @.given \/ default, perms |-> IF default THEN Permissions ELSE @.perms,
                  newActive |-> FALSE]]
    /\ UNCHANGED <<table, begun, overlapped, cut>>

\* Mutant of EnsureAnotherAdmin: the one to be demoted counts as well.
EnsureAnyAdmin(r) ==
    /\ req[r].at = "another"
    /\ IF \E v \in Users : Admin(v) THEN Goto(r, "existing") ELSE End(r)
    /\ UNCHANGED <<table, begun, overlapped, cut>>

EnsureAnotherAdmin(r) ==
    /\ req[r].at = "another"
    /\ IF \E v \in Users \ {req[r].user} : Admin(v) THEN Goto(r, "existing") ELSE End(r)
    /\ UNCHANGED <<table, begun, overlapped, cut>>

(* ... and of the repository. *)

\* Mutant of NewActive: a status that was left out is the default one.
NewActiveByDefault(r) == req[r].status # "disabled"

NewActive(r) == IF req[r].status = Keep THEN active[req[r].user] ELSE req[r].status = "active"

\* The second GetUserByID: what the input leaves out is written back as read.
ReadExisting(r) ==
    LET u == req[r].user IN
    /\ req[r].at = "existing"
    /\ req' = [req EXCEPT ![r] = [at |-> "write", by |-> @.by, user |-> u, role |-> RoleAfter(r),
                                  status |-> @.status, given |-> @.given,
                                  perms |-> IF @.given THEN @.perms ELSE permissions[u],
                                  newActive |-> NewActive(r)]]
    /\ UNCHANGED <<table, begun, overlapped, cut>>

WriteUser(r) ==
    LET u == req[r].user IN
    /\ req[r].at = "write"
    /\ role' = [role EXCEPT ![u] = req[r].role]
    /\ active' = [active EXCEPT ![u] = req[r].newActive]
    /\ ThenPermissions(r, "back")
    /\ UNCHANGED <<permissions, begun, overlapped, cut>>

\* Permissions of an administrator are only rewritten when given.
ReadBack(r) ==
    /\ req[r].at = "back"
    /\ IF req[r].given \/ role[req[r].user] = "user" THEN Goto(r, "clear") ELSE End(r)
    /\ UNCHANGED <<table, begun, overlapped, cut>>

ClearPermissions(r) ==
    /\ req[r].at = "clear"
    /\ permissions' = [permissions EXCEPT ![req[r].user] = {}]
    /\ IF req[r].perms = {} THEN End(r) ELSE Goto(r, "insert")
    /\ UNCHANGED <<role, active, begun, overlapped, cut>>

\* Mutant of InsertPermission: a permission that cannot be read back is dropped.
SkipPermission(r) ==
    /\ req[r].at = "insert"
    /\ End(r)
    /\ UNCHANGED <<table, begun, overlapped, cut>>

InsertPermission(r) ==
    /\ req[r].at = "insert"
    /\ \E p \in req[r].perms :
          /\ permissions' = [permissions EXCEPT ![req[r].user] = @ \cup {p}]
          /\ IF req[r].perms = {p} THEN End(r)
             ELSE req' = [req EXCEPT ![r].perms = @ \ {p}]
    /\ UNCHANGED <<role, active, begun, overlapped, cut>>

\* A statement fails, the client goes away or the process stops.
Fail(r) ==
    /\ req[r] # Idle
    /\ End(r)
    /\ cut' = (cut \/ req[r].at \in {"back", "clear", "insert"})
    /\ UNCHANGED <<table, begun, overlapped>>

Step(r) == \/ BeginCreate(r) \/ InsertUser(r)
           \/ BeginUpdate(r) \/ ReadTarget(r) \/ EnsureAnotherAdmin(r) \/ ReadExisting(r)
           \/ WriteUser(r) \/ ReadBack(r) \/ ClearPermissions(r) \/ InsertPermission(r)
           \/ Fail(r)

Next == (\E r \in Requests : Step(r)) \/ (\E u \in Users : Register(u))

Spec == Init /\ [][Next]_vars
-----------------------------------------------------------------------------
(* Properties. *)

Steps == {"idle", "create", "read", "another", "existing", "write", "back", "clear", "insert"}
Request == [at : Steps, by : Users \cup {NoUser}, user : Users \cup {NoUser},
            role : {Keep, "admin", "user"}, status : {Keep, "active", "disabled"},
            given : BOOLEAN, perms : SUBSET Permissions, newActive : BOOLEAN]

TypeOK ==
    /\ role \in [Users -> {"none", "admin", "user"}]
    /\ active \in [Users -> BOOLEAN]
    /\ permissions \in [Users -> SUBSET Permissions]
    /\ req \in [Requests -> Request]
    /\ begun \in 0..MaxRequests
    /\ overlapped \in BOOLEAN /\ cut \in BOOLEAN

(* There always is an administrator who can log in: the code refuses to    *)
(* remove the last one (ErrCannotDemoteLastAdmin, ErrCannotDisableSelf).   *)
AdminRemains == \E u \in Users : Admin(u)

(* It is so as long as administrators work one after the other.            *)
AdminRemainsAlone == ~overlapped => AdminRemains

(* Working alone, an update changes the role and the status of a user only *)
(* if it was asked to, although it writes both back every time.            *)
AsAsked ==
    [][ ~overlapped' =>
          \A u \in Users : Exists(u) =>
            /\ role'[u] # role[u] =>
                 \E r \in Requests : req[r].at = "write" /\ req[r].user = u /\ req[r].role = role'[u]
            /\ active'[u] # active[u] =>
                 \E r \in Requests : req[r].user = u /\ req[r].status =
                                       (IF active'[u] THEN "active" ELSE "disabled") ]_vars

(* Between requests a regular user has some permission, unless a request   *)
(* was cut short or two of them mixed their rows.                          *)
UsersArePermitted ==
    ~overlapped /\ ~cut /\ (\A r \in Requests : req[r] = Idle) =>
        \A u \in Users : role[u] = "user" => permissions[u] # {}
=============================================================================

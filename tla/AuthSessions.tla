----------------------------- MODULE AuthSessions -----------------------------
(***************************************************************************)
(* internal/auth: login sessions and the middleware in front of every      *)
(* handler, together with the administrators (UserAdmin) that change the   *)
(* users meanwhile.                                                        *)
(*                                                                         *)
(* The middleware asks the database anew for every request, in two         *)
(* statements: one for the session with the row of its user, one for the   *)
(* permissions; the context keeps what they answered.  Public paths do not *)
(* come here.  Passwords are not modelled: one that is wrong ends a login. *)
(***************************************************************************)
EXTENDS UserAdmin

CONSTANTS
    Tokens,    \* session tokens, each given out at most once
    Logins,    \* logins and registrations that are served at the same time
    Visits,    \* requests that the middleware handles at the same time
    NoToken,
    AdminPath, \* /api/admin/, /api/audit, /api/agents
    OpenPath   \* /api/system/health and what has no rule
    \* the other paths need a permission, and are named by it

ASSUME AccessConstants ==
    /\ NoToken \notin Tokens
    /\ AdminPath \notin Permissions /\ OpenPath \notin Permissions /\ AdminPath # OpenPath

VARIABLES
    owner,     \* user of each token, NoUser before it is given out
    open,      \* auth_sessions: tokens whose row exists
    expired,   \* tokens whose expires_at has passed
    login,     \* the user whose session a login is about to create
    visit,     \* what each request is doing
    held       \* history: what was true of each request at some time since it began

accessVars == <<owner, open, expired, login, visit, held>>

Paths == Permissions \cup {AdminPath, OpenPath}
Visit(at, t, p, late, ro, ac) == [at |-> at, token |-> t, path |-> p, late |-> late, role |-> ro, active |-> ac]
NoVisit == Visit("idle", NoToken, OpenPath, FALSE, "none", FALSE)

AccessInit ==
    /\ Init
    /\ owner = [t \in Tokens |-> NoUser]
    /\ open = {} /\ expired = {}
    /\ login = [l \in Logins |-> NoUser]
    /\ visit = [v \in Visits |-> NoVisit]
    /\ held = [v \in Visits |-> {}]

-----------------------------------------------------------------------------
(* Sessions. *)

\* Login has read the user, and the password fits.
Login(l, u) ==
    /\ login[l] = NoUser
    /\ Exists(u) /\ active[u]
    /\ login' = [login EXCEPT ![l] = u]
    /\ UNCHANGED <<vars, owner, open, expired, visit>>

\* Register goes on as a login.
SignUp(l, u) ==
    /\ login[l] = NoUser
    /\ Register(u)
    /\ login' = [login EXCEPT ![l] = u]
    /\ UNCHANGED <<owner, open, expired, visit>>

\* createLoginSession, whatever happened to the user since.
CreateSession(l) ==
    /\ login[l] # NoUser
    /\ \E t \in Tokens :
          /\ owner[t] = NoUser
          /\ owner' = [owner EXCEPT ![t] = login[l]]
          /\ open' = open \cup {t}
    /\ login' = [login EXCEPT ![l] = NoUser]
    /\ UNCHANGED <<vars, expired, visit>>

\* A statement fails or the client leaves.
LoseLogin(l) ==
    /\ login[l] # NoUser
    /\ login' = [login EXCEPT ![l] = NoUser]
    /\ UNCHANGED <<vars, owner, open, expired, visit>>

Logout(t) ==
    /\ open' = open \ {t}
    /\ UNCHANGED <<vars, owner, expired, login, visit>>

ExpireSession(t) ==
    /\ owner[t] # NoUser
    /\ expired' = expired \cup {t}
    /\ UNCHANGED <<vars, owner, open, login, visit>>

-----------------------------------------------------------------------------
(* The middleware. *)

\* UserFromToken takes the time that is compared with expires_at.
Arrive(v) ==
    /\ visit[v] = NoVisit
    /\ \E t \in Tokens, p \in Paths :
          /\ owner[t] # NoUser
          /\ visit' = [visit EXCEPT ![v] = Visit("session", t, p, t \in expired, "none", FALSE)]
    /\ UNCHANGED <<vars, owner, open, expired, login>>

Refuse(v) == visit' = [visit EXCEPT ![v] = NoVisit]

\* Mutant of Live: the row is enough.
LiveForEver(v) == visit[v].token \in open

\* WHERE token_hash = $1 AND expires_at > $2
Live(v) == visit[v].token \in open /\ ~visit[v].late

\* UserBySessionTokenHash, its first statement.
LoadUser(v) ==
    LET u == owner[visit[v].token] IN
    /\ visit[v].at = "session"
    /\ IF Live(v)
         THEN visit' = [visit EXCEPT ![v] =
                  Visit("permissions", @.token, @.path, FALSE, role[u], active[u])]
         ELSE Refuse(v)
    /\ UNCHANGED <<vars, owner, open, expired, login>>

\* canAccessPath
CanAccessPath(ro, ps, p) == ro = "admin" \/ p = OpenPath \/ p \in ps

\* attachPermissions, IsActive of the user as he was read, canAccessPath.
LoadPermissions(v) ==
    LET ps == permissions[owner[visit[v].token]] IN
    /\ visit[v].at = "permissions"
    /\ IF visit[v].active /\ CanAccessPath(visit[v].role, ps, visit[v].path)
         THEN visit' = [visit EXCEPT ![v].at = "admitted"]
         ELSE Refuse(v)
    /\ UNCHANGED <<vars, owner, open, expired, login>>

\* The handler is done; or a statement failed before.
Leave(v) ==
    /\ visit[v] # NoVisit
    /\ Refuse(v)
    /\ UNCHANGED <<vars, owner, open, expired, login>>

-----------------------------------------------------------------------------
\* What may be said of a request at this moment.
Facts(v) ==
    LET t == visit[v].token
        u == owner[t]
    IN
    (IF t \in open \ expired THEN {"session"} ELSE {})
        \cup (IF active[u] THEN {"active"} ELSE {})
        \cup (IF CanAccessPath(role[u], permissions[u], visit[v].path) THEN {"path"} ELSE {})

\* The history of a request that is still on its way into a handler.
Observe ==
    held' = [v \in Visits |->
        IF visit'[v].at \in {"session", "permissions"} THEN held[v] \cup Facts(v)'
        ELSE IF visit'[v].at = "admitted" THEN held[v] ELSE {}]

AccessStep ==
    \/ \E r \in Requests : Step(r) /\ UNCHANGED <<owner, open, expired, login, visit>>
    \/ \E l \in Logins, u \in Users : Login(l, u) \/ SignUp(l, u)
    \/ \E l \in Logins : CreateSession(l) \/ LoseLogin(l)
    \/ \E t \in Tokens : Logout(t) \/ ExpireSession(t)
    \/ \E v \in Visits : Arrive(v) \/ LoadUser(v) \/ LoadPermissions(v) \/ Leave(v)

AccessNext == AccessStep /\ Observe

AccessSpec == AccessInit /\ [][AccessNext]_<<vars, accessVars>>
-----------------------------------------------------------------------------
(* Properties. *)

AccessTypeOK ==
    /\ TypeOK
    /\ owner \in [Tokens -> Users \cup {NoUser}]
    /\ open \subseteq Tokens /\ expired \subseteq Tokens
    /\ login \in [Logins -> Users \cup {NoUser}]
    /\ visit \in [Visits -> [at : {"idle", "session", "permissions", "admitted"}, token : Tokens \cup {NoToken},
                             path : Paths, late : BOOLEAN, role : {"none", "admin", "user"}, active : BOOLEAN]]
    /\ held \in [Visits -> SUBSET {"session", "active", "path"}]

(* A request that comes through the middleware had a session that was open *)
(* and not expired, a user who was active, and the right to its path, each *)
(* at some moment since it arrived: logouts, expiries, disabled users and  *)
(* permissions that are rewritten row by row are seen by every request     *)
(* that arrives after them (UserFromToken, attachPermissions).             *)
AdmittedWithReason ==
    \A v \in Visits : visit[v].at = "admitted" => held[v] = {"session", "active", "path"}
=============================================================================

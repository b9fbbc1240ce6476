----------------------------- MODULE MCUserAdmin -----------------------------
(* Small instances of UserAdmin, alone and inside AuthSessions, for TLC:     *)
(* several requests of administrators that overlap, or one of them beside    *)
(* logins and a request in the middleware.                                   *)
EXTENDS AuthSessions, TLC

VARIABLE part

CONSTANTS u1, u2, r1, r2, p1, t1, l1, v1

MCInit == AccessInit /\ part \in {"admin", "access"}

MCNext ==
    \/ part = "admin" /\ Next /\ UNCHANGED <<part, accessVars>>
    \/ part = "access" /\ AccessNext /\ begun' <= 1 /\ UNCHANGED part

MCSpec == MCInit /\ [][MCNext]_<<part, vars, accessVars>>

MCSymmetry == Permutations(Users) \cup Permutations(Requests)
=============================================================================

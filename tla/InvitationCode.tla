--------------------------- MODULE InvitationCode ---------------------------
(***************************************************************************)
(* What an invitation code promises to the administrator who made it: it   *)
(* lets people in one by one, each of them once, while it is active and    *)
(* has a use left, and its limit is never below the uses it has had.       *)
(***************************************************************************)
EXTENDS Naturals

CONSTANTS
    Emails,
    MaxUses    \* the highest limit

VARIABLES
    status,    \* of the code, as GET /api/invitation-codes shows it
    max,       \* its limit
    uses,      \* registrations that it counts
    admitted   \* who has registered with it

Init ==
    /\ status = "active"
    /\ max \in 1..MaxUses
    /\ uses = 0 /\ admitted = {}

Admit(e) ==
    /\ status = "active" /\ uses < max
    /\ e \notin admitted
    /\ uses' = uses + 1 /\ admitted' = admitted \cup {e}
    /\ UNCHANGED <<status, max>>

Change(st, mx) ==
    /\ uses <= mx
    /\ status' = st /\ max' = mx
    /\ UNCHANGED <<uses, admitted>>

Next ==
    \/ \E e \in Emails : Admit(e)
    \/ \E st \in {"active", "disabled"}, mx \in 1..MaxUses : Change(st, mx)

Spec == Init /\ [][Next]_<<status, max, uses, admitted>>
=============================================================================

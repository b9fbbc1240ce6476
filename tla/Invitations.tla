----------------------------- MODULE Invitations -----------------------------
(***************************************************************************)
(* internal/auth: one invitation code, the registrations that use it and   *)
(* the administrators that change it.                                      *)
(*                                                                         *)
(* Register consumes the code and creates the user in one transaction.     *)
(* The UPDATE that consumes keeps the row locked until the transaction     *)
(* ends; whoever else updates the row waits and then looks at it anew.     *)
(* UpdateInvitationCode has no transaction: it checks the limit with one   *)
(* read of the row, reads it again and writes every column back but        *)
(* used_count.  The status stands for all of these columns but max_uses;   *)
(* expires_at keeps the value the code was made with.                      *)
(***************************************************************************)
EXTENDS Naturals, FiniteSets

CONSTANTS
    Requests,     \* requests /api/auth/register that are served at the same time
    Emails,       \* who may register
    Updates,      \* updates by administrators that are served at the same time
    Nobody,       \* neither a request nor an e-mail
    MaxUses,      \* bound: the highest max_uses
    MaxBegun      \* bound: registrations, and updates, that are begun

ASSUME ConstantsAssumption ==
    /\ Nobody \notin Requests /\ Nobody \notin Emails
    /\ IsFiniteSet(Emails)
    /\ MaxUses \in Nat /\ MaxBegun \in Nat

VARIABLES
    status,     \* invitation_codes.status, as committed; so are the next two
    max,        \* max_uses
    used,       \* used_count
    expired,    \* expires_at has passed
    users,      \* e-mails of the users that registered with the code
    lock,       \* the registration whose transaction has updated the row
    reg,        \* what each registration is doing, for whom
    upd,        \* what each update is doing
    begun,      \* registrations and updates begun so far
    overlapped  \* history: two updates ran at the same time

vars == <<status, max, used, expired, users, lock, reg, upd, begun, overlapped>>
code == <<status, max, used>>

Keep == "keep"   \* a field that the input leaves out
NoReg == [at |-> "idle", email |-> Nobody, late |-> FALSE]
NoAsk == [status |-> Keep, max |-> 0]   \* 0: left out
Task(step, ask) == [at |-> step, ask |-> ask, status |-> Keep, max |-> 0]
NoUpd == Task("idle", NoAsk)

\* CreateInvitationCode has made the code, with or without an expiry.
Init ==
    /\ status = "active"
    /\ max \in 1..MaxUses
    /\ used = 0
    /\ expired = FALSE
    /\ users = {} /\ lock = Nobody
    /\ reg = [r \in Requests |-> NoReg]
    /\ upd = [a \in Updates |-> NoUpd]
    /\ begun = [reg |-> 0, upd |-> 0]
    /\ overlapped = FALSE

-----------------------------------------------------------------------------
(* Register. *)

\* The time that is compared with expires_at is taken here.
BeginRegister(r) ==
    /\ reg[r] = NoReg
    /\ begun.reg < MaxBegun
    /\ \E e \in Emails :
          reg' = [reg EXCEPT ![r] = [at |-> "consume", email |-> e, late |-> expired]]
    /\ begun' = [begun EXCEPT !.reg = @ + 1]
    /\ UNCHANGED <<code, expired, users, lock, upd, overlapped>>

\* Mutant of Open: an administrator's "disabled" is not looked at.
OpenAnyway(r) == used < max /\ ~reg[r].late

Open(r) == status = "active" /\ used < max /\ ~reg[r].late

\* Mutant of Consume: the use is counted at once, outside of the transaction.
ConsumeAtOnce(r) ==
    /\ reg[r].at = "consume"
    /\ IF Open(r)
       THEN /\ lock = Nobody
            /\ lock' = r
            /\ reg' = [reg EXCEPT ![r].at = "create"]
            /\ used' = used + 1
       ELSE reg' = [reg EXCEPT ![r] = NoReg] /\ UNCHANGED <<lock, used>>
    /\ UNCHANGED <<status, max, expired, users, upd, begun, overlapped>>

\* ConsumeInvitationCode waits for the row if the code is open in what is
\* committed; without a row to update it is ErrInvalidInviteCode.
Consume(r) ==
    /\ reg[r].at = "consume"
    /\ IF Open(r)
       THEN lock = Nobody /\ lock' = r /\ reg' = [reg EXCEPT ![r].at = "create"]
       ELSE reg' = [reg EXCEPT ![r] = NoReg] /\ UNCHANGED lock
    /\ UNCHANGED <<code, expired, users, upd, begun, overlapped>>

\* createUser with the unique e-mail, then COMMIT.
Commit(r) ==
    /\ reg[r].at = "create"
    /\ reg[r].email \notin users
    /\ used' = used + 1
    /\ users' = users \cup {reg[r].email}
    /\ lock' = Nobody
    /\ reg' = [reg EXCEPT ![r] = NoReg]
    /\ UNCHANGED <<status, max, expired, upd, begun, overlapped>>

\* Mutant of Rollback: the transaction is left open on an error.
RollbackForgotten(r) ==
    /\ reg[r].at = "create"
    /\ reg' = [reg EXCEPT ![r] = NoReg]
    /\ UNCHANGED <<code, expired, users, lock, upd, begun, overlapped>>

\* The e-mail is taken or refused, a statement fails, the client leaves or
\* the process stops: the use is given back with everything else.
Rollback(r) ==
    /\ reg[r].at = "create"
    /\ lock' = Nobody
    /\ reg' = [reg EXCEPT ![r] = NoReg]
    /\ UNCHANGED <<code, expired, users, upd, begun, overlapped>>

Registration(r) == Consume(r) \/ Commit(r) \/ Rollback(r)

-----------------------------------------------------------------------------
(* UpdateInvitationCode of the service and of the repository. *)

BeginUpdate(a) ==
    /\ upd[a] = NoUpd
    /\ begun.upd < MaxBegun
    /\ \E st \in {Keep, "active", "disabled"}, mx \in 0..MaxUses :
          upd' = [upd EXCEPT ![a] = Task("check", [status |-> st, max |-> mx])]
    /\ begun' = [begun EXCEPT !.upd = @ + 1]
    /\ overlapped' = (overlapped \/ \E b \in Updates : upd[b] # NoUpd)
    /\ UNCHANGED <<code, expired, users, lock, reg>>

\* max_uses may not be below the uses that are known by now.
CheckUses(a) ==
    LET ask == upd[a].ask IN
    /\ upd[a].at = "check"
    /\ upd' = [upd EXCEPT ![a] = IF ask.max # 0 /\ ask.max < used THEN NoUpd
                                 ELSE Task("read", ask)]
    /\ UNCHANGED <<code, expired, users, lock, reg, begun, overlapped>>

\* Mutant of ReadCode: a status that is left out becomes the default one.
ReadCodeDefault(a) ==
    LET ask == upd[a].ask IN
    /\ upd[a].at = "read"
    /\ upd' = [upd EXCEPT ![a] = [at |-> "write", ask |-> ask,
                                  status |-> IF ask.status = Keep THEN "active" ELSE ask.status,
                                  max |-> IF ask.max = 0 THEN max ELSE ask.max]]
    /\ UNCHANGED <<code, expired, users, lock, reg, begun, overlapped>>

\* What the input leaves out is written back as it was read.
ReadCode(a) ==
    LET ask == upd[a].ask IN
    /\ upd[a].at = "read"
    /\ upd' = [upd EXCEPT ![a] = [at |-> "write", ask |-> ask,
                                  status |-> IF ask.status = Keep THEN status ELSE ask.status,
                                  max |-> IF ask.max = 0 THEN max ELSE ask.max]]
    /\ UNCHANGED <<code, expired, users, lock, reg, begun, overlapped>>

\* CHECK (used_count <= max_uses)
Fits(mx) == used <= mx

\* The UPDATE waits for a registration that has the row.
WriteCode(a) ==
    /\ upd[a].at = "write"
    /\ lock = Nobody
    /\ IF Fits(upd[a].max)
       THEN status' = upd[a].status /\ max' = upd[a].max
       ELSE UNCHANGED <<status, max>>
    /\ upd' = [upd EXCEPT ![a] = NoUpd]
    /\ UNCHANGED <<used, expired, users, lock, reg, begun, overlapped>>

\* A statement fails or the client leaves.
FailUpdate(a) ==
    /\ upd[a] # NoUpd
    /\ upd' = [upd EXCEPT ![a] = NoUpd]
    /\ UNCHANGED <<code, expired, users, lock, reg, begun, overlapped>>

Update(a) == CheckUses(a) \/ ReadCode(a) \/ WriteCode(a)

\* Registrations look at expires_at.
Expire == expired' = TRUE /\ UNCHANGED <<code, users, lock, reg, upd, begun, overlapped>>

Next == \/ \E r \in Requests : BeginRegister(r) \/ Registration(r)
        \/ \E a \in Updates : BeginUpdate(a) \/ Update(a) \/ FailUpdate(a)
        \/ Expire

Spec == Init /\ [][Next]_vars

\* Handlers run, and PostgreSQL gives a lock that is free again to everyone
\* who waits for it.
FairSpec == /\ Spec
            /\ \A r \in Requests : WF_vars(Commit(r) \/ Rollback(r)) /\ SF_vars(Consume(r))
            /\ \A a \in Updates : WF_vars(CheckUses(a) \/ ReadCode(a)) /\ SF_vars(WriteCode(a))
-----------------------------------------------------------------------------
(* Properties. *)

Registrations == [at : {"idle", "consume", "create"}, email : Emails \cup {Nobody}, late : BOOLEAN]
Asks == [status : {Keep, "active", "disabled"}, max : 0..MaxUses]

TypeOK ==
    /\ status \in {"active", "disabled"}
    /\ max \in 1..MaxUses /\ used \in 0..MaxUses /\ expired \in BOOLEAN
    /\ users \subseteq Emails
    /\ lock \in Requests \cup {Nobody}
    /\ reg \in [Requests -> Registrations]
    /\ upd \in [Updates -> [at : {"idle", "check", "read", "write"}, ask : Asks,
                            status : {Keep, "active", "disabled"},
                            max : 0..MaxUses]]
    /\ begun \in [reg : 0..MaxBegun, upd : 0..MaxBegun]
    /\ overlapped \in BOOLEAN

(* Every use of the code is a user and every such user is a use, whatever  *)
(* fails after the code was consumed (Register, WithTx).                   *)
UsesAreUsers == used = Cardinality(users)

(* A code never has more uses than it allows, although administrators      *)
(* lower the limit after a check with an old count (UpdateInvitationCode). *)
UsesFitMax == used <= max

(* To users and administrators the code is one that admits and changes in  *)
(* single steps: nobody gets in with a code that is disabled or used up    *)
(* when the user appears, and no update slips between the two halves of a  *)
(* registration (Register, ConsumeInvitationCode, UpdateInvitationCode).   *)
Code == INSTANCE InvitationCode WITH uses <- used, admitted <- users
ImplementsCode == Code!Spec

(* Unless two updates overlap, the status and the limit change only to     *)
(* what an update asks for, although each writes back all of them.         *)
UpdatedAsAsked ==
    [][ ~overlapped' =>
          /\ status' # status => \E a \in Updates : upd[a].ask.status = status'
          /\ max' # max => \E a \in Updates : upd[a].ask.max = max' ]_vars

(* Once nobody asks any more, everybody has an answer: no registration     *)
(* and no update keeps the row of the code for good.                       *)
EveryoneIsAnswered ==
    <>[](/\ \A r \in Requests : reg[r] = NoReg
         /\ \A a \in Updates : upd[a] = NoUpd)
=============================================================================

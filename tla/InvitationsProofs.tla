-------------------------- MODULE InvitationsProofs --------------------------
(***************************************************************************)
(* Proofs about Invitations: whatever registrations and updates do at the  *)
(* same time, the uses of a code are its users, within the limit, and the  *)
(* code is an InvitationCode, which admits and changes in single steps.    *)
(***************************************************************************)
EXTENDS Invitations, FiniteSetTheorems, TLAPS

Tasks == [at : {"idle", "check", "read", "write"}, ask : Asks,
          status : {Keep, "active", "disabled"}, max : 0..MaxUses]

\* The row is locked exactly while a registration is between its statements.
LockedByCreator == \A r \in Requests : reg[r].at = "create" <=> lock = r

\* Nobody else writes the row meanwhile, so what Consume saw still holds.
LockedIsOpen == lock # Nobody => status = "active" /\ used < max

\* An update that is about to write has filled in all that was left out.
FilledIn ==
    \A a \in Updates :
        upd[a].at = "write" => upd[a].status \in {"active", "disabled"} /\ upd[a].max \in 1..MaxUses

\* A registration is somebody's.
Registered == \A r \in Requests : reg[r].at # "idle" => reg[r].email \in Emails

IInv == TypeOK /\ Registered /\ LockedByCreator /\ LockedIsOpen /\ FilledIn /\ UsesAreUsers /\ UsesFitMax

-----------------------------------------------------------------------------
LEMMA NoRegTyped == NoReg \in Registrations /\ NoReg.at = "idle"
BY DEF NoReg, Registrations

LEMMA NoUpdTyped == NoUpd \in Tasks /\ NoUpd.at = "idle"
BY ConstantsAssumption DEF NoUpd, Task, NoAsk, Tasks, Asks, Keep, ConstantsAssumption

LEMMA RegMoves ==
  ASSUME reg \in [Requests -> Registrations], NEW r \in Requests, NEW x \in Registrations,
         reg' = [reg EXCEPT ![r] = x]
  PROVE  /\ reg' \in [Requests -> Registrations] /\ reg'[r] = x
         /\ \A s \in Requests : s # r => reg'[s] = reg[s]
OBVIOUS

LEMMA UpdMoves ==
  ASSUME upd \in [Updates -> Tasks], NEW a \in Updates, NEW x \in Tasks,
         upd' = [upd EXCEPT ![a] = x]
  PROVE  /\ upd' \in [Updates -> Tasks] /\ upd'[a] = x
         /\ \A b \in Updates : b # a => upd'[b] = upd[b]
OBVIOUS

LEMMA InitIInv == Init => IInv
<1> SUFFICES ASSUME Init PROVE IInv
    OBVIOUS
<1>1. TypeOK
  <2>1. reg \in [Requests -> Registrations] /\ upd \in [Updates -> Tasks]
    BY NoRegTyped, NoUpdTyped DEF Init
  <2>2. /\ status \in {"active", "disabled"} /\ max \in 1..MaxUses /\ used \in 0..MaxUses
        /\ users \subseteq Emails /\ lock \in Requests \cup {Nobody}
        /\ begun \in [reg : 0..MaxBegun, upd : 0..MaxBegun]
    BY ConstantsAssumption DEF Init, ConstantsAssumption
  <2>3. expired \in BOOLEAN /\ overlapped \in BOOLEAN
    BY Zenon DEF Init
  <2>4. QED
    BY <2>1, <2>2, <2>3 DEF TypeOK, Tasks
<1>2. LockedByCreator /\ LockedIsOpen
  BY ConstantsAssumption, NoRegTyped DEF Init, LockedByCreator, LockedIsOpen, ConstantsAssumption
<1>3. FilledIn /\ Registered
  BY NoUpdTyped, NoRegTyped DEF Init, FilledIn, Registered
<1>4. UsesAreUsers
  BY FS_EmptySet DEF Init, UsesAreUsers
<1>5. UsesFitMax
  BY ConstantsAssumption DEF Init, UsesFitMax, ConstantsAssumption
<1>6. QED
  BY <1>1, <1>2, <1>3, <1>4, <1>5 DEF IInv

-----------------------------------------------------------------------------
LEMMA BeginRegisterKeeps ==
  ASSUME IInv, NEW r \in Requests, BeginRegister(r)
  PROVE  IInv'
<1>1. PICK e \in Emails : reg' = [reg EXCEPT ![r] = [at |-> "consume", email |-> e, late |-> expired]]
  BY DEF BeginRegister
<1>2. [at |-> "consume", email |-> e, late |-> expired] \in Registrations
  BY DEF IInv, TypeOK, Registrations
<1>3. /\ reg' \in [Requests -> Registrations] /\ reg'[r].at = "consume" /\ reg'[r].email \in Emails
      /\ \A s \in Requests : s # r => reg'[s] = reg[s]
  BY <1>1, <1>2, RegMoves DEF IInv, TypeOK
<1>4. reg[r].at = "idle" /\ UNCHANGED <<status, max, used, expired, users, lock, upd, overlapped>>
  BY NoRegTyped DEF BeginRegister, code
<1>5. begun' \in [reg : 0..MaxBegun, upd : 0..MaxBegun]
  BY ConstantsAssumption DEF BeginRegister, IInv, TypeOK, ConstantsAssumption
<1>6. TypeOK'
  BY <1>3, <1>4, <1>5 DEF IInv, TypeOK
<1>7. LockedByCreator' /\ Registered'
  BY <1>3, <1>4 DEF IInv, LockedByCreator, Registered
<1>8. (LockedIsOpen /\ FilledIn /\ UsesAreUsers /\ UsesFitMax)'
  BY <1>4 DEF IInv, LockedIsOpen, FilledIn, UsesAreUsers, UsesFitMax
<1>9. QED
  BY <1>6, <1>7, <1>8 DEF IInv

LEMMA ConsumeKeeps ==
  ASSUME IInv, NEW r \in Requests, Consume(r)
  PROVE  IInv'
<1>1. /\ UNCHANGED <<status, max, used, expired, users, upd, begun, overlapped>>
      /\ reg[r].at = "consume" /\ reg \in [Requests -> Registrations] /\ lock \in Requests \cup {Nobody}
  BY DEF Consume, code, IInv, TypeOK
<1>2. lock # r
  BY <1>1 DEF IInv, LockedByCreator
<1>3. /\ reg' \in [Requests -> Registrations] /\ lock' \in Requests \cup {Nobody}
      /\ \A s \in Requests : s # r => reg'[s] = reg[s]
      /\ \/ reg'[r].at = "idle" /\ lock' = lock
         \/ /\ reg'[r].at = "create" /\ lock = Nobody /\ lock' = r /\ Open(r)
            /\ reg'[r].email = reg[r].email
  <2>1. CASE Open(r)
    <3> DEFINE x == [at |-> "create", email |-> reg[r].email, late |-> reg[r].late]
    <3>1. x \in Registrations
      BY <1>1 DEF Registrations
    <3>2. reg' = [reg EXCEPT ![r] = x] /\ lock = Nobody /\ lock' = r
      BY <1>1, <2>1 DEF Consume, Registrations
    <3>3. QED
      BY <1>1, <2>1, <3>1, <3>2, RegMoves
  <2>2. CASE ~Open(r)
    BY <1>1, <2>2, NoRegTyped, RegMoves DEF Consume
  <2>3. QED
    BY <2>1, <2>2
<1>4. TypeOK'
  BY <1>1, <1>3 DEF IInv, TypeOK
<1>5. LockedByCreator' /\ Registered'
  BY <1>1, <1>2, <1>3, ConstantsAssumption DEF IInv, LockedByCreator, Registered, ConstantsAssumption
<1>6. LockedIsOpen'
  BY <1>1, <1>3 DEF IInv, LockedIsOpen, Open
<1>7. (FilledIn /\ UsesAreUsers /\ UsesFitMax)'
  BY <1>1 DEF IInv, FilledIn, UsesAreUsers, UsesFitMax
<1>8. QED
  BY <1>4, <1>5, <1>6, <1>7 DEF IInv

\* A registration that has the row is open, and ends with the lock.
LEMMA HolderFacts ==
  ASSUME IInv, NEW r \in Requests, reg[r].at = "create",
         reg' = [reg EXCEPT ![r] = NoReg], lock' = Nobody
  PROVE  /\ lock = r /\ lock # Nobody /\ status = "active" /\ used < max
         /\ reg' \in [Requests -> Registrations]
         /\ Registered' /\ LockedByCreator' /\ LockedIsOpen'
<1>1. lock = r /\ r # Nobody
  BY ConstantsAssumption DEF IInv, LockedByCreator, ConstantsAssumption
<1>2. /\ reg' \in [Requests -> Registrations] /\ reg'[r].at = "idle"
      /\ \A s \in Requests : s # r => reg'[s] = reg[s]
  BY NoRegTyped, RegMoves DEF IInv, TypeOK
<1>3. LockedByCreator' /\ Registered'
  BY <1>1, <1>2, ConstantsAssumption DEF IInv, LockedByCreator, Registered, ConstantsAssumption
<1>4. QED
  BY <1>1, <1>2, <1>3 DEF IInv, LockedIsOpen

LEMMA CommitKeeps ==
  ASSUME IInv, NEW r \in Requests, Commit(r)
  PROVE  IInv'
<1>1. /\ UNCHANGED <<status, max, expired, upd, begun, overlapped>> /\ lock' = Nobody
      /\ used' = used + 1 /\ users' = users \cup {reg[r].email} /\ reg[r].email \notin users
  BY DEF Commit
<1>2. /\ used < max /\ reg' \in [Requests -> Registrations]
      /\ Registered' /\ LockedByCreator' /\ LockedIsOpen'
  BY HolderFacts DEF Commit
<1>3. reg[r].email \in Emails
  BY DEF Commit, IInv, Registered
<1>4. /\ max \in 1..MaxUses /\ used \in 0..MaxUses /\ MaxUses \in Nat
      /\ IsFiniteSet(users)
  BY ConstantsAssumption, FS_Subset DEF IInv, TypeOK, ConstantsAssumption
<1>5. UsesAreUsers'
  BY <1>1, <1>4, FS_AddElement DEF IInv, UsesAreUsers
<1>6. UsesFitMax' /\ used' \in 0..MaxUses
  BY <1>1, <1>2, <1>4 DEF UsesFitMax
<1>7. TypeOK'
  BY <1>1, <1>2, <1>3, <1>6 DEF IInv, TypeOK
<1>8. FilledIn'
  BY <1>1 DEF IInv, FilledIn
<1>9. QED
  BY <1>2, <1>5, <1>6, <1>7, <1>8 DEF IInv

LEMMA RollbackKeeps ==
  ASSUME IInv, NEW r \in Requests, Rollback(r)
  PROVE  IInv'
<1>1. /\ UNCHANGED <<status, max, used, expired, users, upd, begun, overlapped>> /\ lock' = Nobody
  BY DEF Rollback, code
<1>2. /\ reg' \in [Requests -> Registrations]
      /\ Registered' /\ LockedByCreator' /\ LockedIsOpen'
  BY HolderFacts DEF Rollback
<1>3. (TypeOK /\ FilledIn /\ UsesAreUsers /\ UsesFitMax)'
  BY <1>1, <1>2 DEF IInv, TypeOK, FilledIn, UsesAreUsers, UsesFitMax
<1>4. QED
  BY <1>2, <1>3 DEF IInv

-----------------------------------------------------------------------------
\* An update that moves without writing the row disturbs only its own task.
LEMMA TaskMoves ==
  ASSUME IInv, NEW a \in Updates, NEW x \in Tasks, upd' = [upd EXCEPT ![a] = x],
         x.at = "write" => x.status \in {"active", "disabled"} /\ x.max \in 1..MaxUses,
         UNCHANGED <<code, expired, users, lock, reg>>,
         begun' \in [reg : 0..MaxBegun, upd : 0..MaxBegun], overlapped' \in BOOLEAN
  PROVE  IInv'
<1>1. UNCHANGED <<status, max, used, expired, users, lock, reg>>
  BY DEF code
<1>2. /\ upd' \in [Updates -> Tasks] /\ upd'[a] = x
      /\ \A b \in Updates : b # a => upd'[b] = upd[b]
  BY UpdMoves DEF IInv, TypeOK, Tasks
<1>3. TypeOK'
  BY <1>1, <1>2 DEF IInv, TypeOK, Tasks
<1>4. FilledIn'
  BY <1>2 DEF IInv, FilledIn
<1>5. (Registered /\ LockedByCreator /\ LockedIsOpen /\ UsesAreUsers /\ UsesFitMax)'
  BY <1>1 DEF IInv, Registered, LockedByCreator, LockedIsOpen, UsesAreUsers, UsesFitMax
<1>6. QED
  BY <1>3, <1>4, <1>5 DEF IInv

LEMMA BeginUpdateKeeps ==
  ASSUME IInv, NEW a \in Updates, BeginUpdate(a)
  PROVE  IInv'
<1>1. PICK st \in {Keep, "active", "disabled"}, mx \in 0..MaxUses :
        upd' = [upd EXCEPT ![a] = Task("check", [status |-> st, max |-> mx])]
  BY DEF BeginUpdate
<1> DEFINE x == [at |-> "check", ask |-> [status |-> st, max |-> mx], status |-> Keep, max |-> 0]
<1>2. x \in Tasks
  BY ConstantsAssumption DEF Tasks, Asks, Keep, ConstantsAssumption
<1>3. upd' = [upd EXCEPT ![a] = x]
  BY <1>1 DEF Task
<1>4. UNCHANGED <<code, expired, users, lock, reg>>
  BY DEF BeginUpdate
<1>5. begun' \in [reg : 0..MaxBegun, upd : 0..MaxBegun]
  BY ConstantsAssumption DEF BeginUpdate, IInv, TypeOK, ConstantsAssumption
<1>6. overlapped' \in BOOLEAN
  BY Zenon DEF BeginUpdate, IInv, TypeOK
<1>7. QED
  BY <1>2, <1>3, <1>4, <1>5, <1>6, TaskMoves

LEMMA EndUpdateKeeps ==
  ASSUME IInv, NEW a \in Updates, upd' = [upd EXCEPT ![a] = NoUpd],
         UNCHANGED <<code, expired, users, lock, reg, begun, overlapped>>
  PROVE  IInv'
<1>1. begun' \in [reg : 0..MaxBegun, upd : 0..MaxBegun] /\ overlapped' \in BOOLEAN
  BY DEF IInv, TypeOK
<1>2. QED
  BY <1>1, NoUpdTyped, TaskMoves

LEMMA CheckUsesKeeps ==
  ASSUME IInv, NEW a \in Updates, CheckUses(a)
  PROVE  IInv'
<1>1. CASE upd' = [upd EXCEPT ![a] = NoUpd]
  BY <1>1, EndUpdateKeeps DEF CheckUses
<1>2. CASE upd' = [upd EXCEPT ![a] = Task("read", upd[a].ask)]
  <2> DEFINE x == [at |-> "read", ask |-> upd[a].ask, status |-> Keep, max |-> 0]
  <2>1. x \in Tasks
    BY ConstantsAssumption DEF IInv, TypeOK, Tasks, Keep, ConstantsAssumption
  <2>2. upd' = [upd EXCEPT ![a] = x]
    BY <1>2 DEF Task
  <2>3. UNCHANGED <<code, expired, users, lock, reg>>
    BY DEF CheckUses
  <2>4. begun' \in [reg : 0..MaxBegun, upd : 0..MaxBegun] /\ overlapped' \in BOOLEAN
    BY DEF CheckUses, IInv, TypeOK
  <2>5. QED
    BY <2>1, <2>2, <2>3, <2>4, TaskMoves
<1>3. QED
  BY <1>1, <1>2 DEF CheckUses

LEMMA ReadCodeKeeps ==
  ASSUME IInv, NEW a \in Updates, ReadCode(a)
  PROVE  IInv'
<1> DEFINE ask == upd[a].ask
           x == [at |-> "write", ask |-> ask,
                 status |-> IF ask.status = Keep THEN status ELSE ask.status,
                 max |-> IF ask.max = 0 THEN max ELSE ask.max]
<1>1. ask \in Asks /\ status \in {"active", "disabled"} /\ max \in 1..MaxUses /\ MaxUses \in Nat
  BY ConstantsAssumption DEF IInv, TypeOK, ConstantsAssumption
<1>2. x.status \in {"active", "disabled"} /\ x.max \in 1..MaxUses
  BY <1>1 DEF Asks, Keep
<1>3. x \in Tasks
  BY <1>1, <1>2 DEF Tasks
<1>4. upd' = [upd EXCEPT ![a] = x] /\ UNCHANGED <<code, expired, users, lock, reg>>
  BY DEF ReadCode
<1>5. begun' \in [reg : 0..MaxBegun, upd : 0..MaxBegun] /\ overlapped' \in BOOLEAN
  BY DEF ReadCode, IInv, TypeOK
<1>6. QED
  BY <1>2, <1>3, <1>4, <1>5, TaskMoves

LEMMA WriteCodeKeeps ==
  ASSUME IInv, NEW a \in Updates, WriteCode(a)
  PROVE  IInv'
<1>1. /\ UNCHANGED <<used, expired, users, lock, reg, begun, overlapped>>
      /\ upd' = [upd EXCEPT ![a] = NoUpd] /\ upd[a].at = "write" /\ lock = Nobody
  BY DEF WriteCode
<1>2. CASE ~Fits(upd[a].max)
  <2>1. UNCHANGED code
    BY <1>1, <1>2 DEF WriteCode, code
  <2>2. QED
    BY <1>1, <2>1, EndUpdateKeeps
<1>3. CASE Fits(upd[a].max)
  <2>1. status' \in {"active", "disabled"} /\ max' \in 1..MaxUses /\ used' <= max'
    BY <1>1, <1>3 DEF WriteCode, Fits, IInv, FilledIn
  <2>2. /\ upd' \in [Updates -> Tasks] /\ upd'[a].at = "idle"
        /\ \A b \in Updates : b # a => upd'[b] = upd[b]
    BY <1>1, NoUpdTyped, UpdMoves DEF IInv, TypeOK, Tasks
  <2>3. TypeOK'
    BY <1>1, <2>1, <2>2 DEF IInv, TypeOK, Tasks
  <2>4. FilledIn'
    BY <2>2 DEF IInv, FilledIn
  <2>5. LockedIsOpen'
    BY <1>1 DEF LockedIsOpen
  <2>6. (Registered /\ LockedByCreator /\ UsesAreUsers)'
    BY <1>1 DEF IInv, Registered, LockedByCreator, UsesAreUsers
  <2>7. QED
    BY <2>1, <2>3, <2>4, <2>5, <2>6 DEF IInv, UsesFitMax
<1>4. QED
  BY <1>2, <1>3

LEMMA ExpireKeeps ==
  ASSUME IInv, Expire
  PROVE  IInv'
<1>1. UNCHANGED <<status, max, used, users, lock, reg, upd, begun, overlapped>> /\ expired' \in BOOLEAN
  BY DEF Expire, code
<1>2. QED
  BY <1>1 DEF IInv, TypeOK, Registered, LockedByCreator, LockedIsOpen, FilledIn, UsesAreUsers, UsesFitMax

LEMMA StepIInv == IInv /\ [Next]_vars => IInv'
<1> SUFFICES ASSUME IInv, [Next]_vars PROVE IInv'
    OBVIOUS
<1>1. CASE \E r \in Requests : BeginRegister(r) \/ Registration(r)
  BY <1>1, BeginRegisterKeeps, ConsumeKeeps, CommitKeeps, RollbackKeeps DEF Registration
<1>2. CASE \E a \in Updates : BeginUpdate(a) \/ Update(a) \/ FailUpdate(a)
  <2>1. ASSUME NEW a \in Updates, FailUpdate(a) PROVE IInv'
    BY <2>1, EndUpdateKeeps DEF FailUpdate
  <2>2. QED
    BY <1>2, <2>1, BeginUpdateKeeps, CheckUsesKeeps, ReadCodeKeeps, WriteCodeKeeps DEF Update
<1>3. CASE Expire
  BY <1>3, ExpireKeeps
<1>4. CASE UNCHANGED vars
  BY <1>4 DEF vars, IInv, TypeOK, Registered, LockedByCreator, LockedIsOpen, FilledIn,
              UsesAreUsers, UsesFitMax
<1>5. QED
  BY <1>1, <1>2, <1>3, <1>4 DEF Next

-----------------------------------------------------------------------------
(* Register and UpdateInvitationCode keep the row within its types, and no *)
(* update leaves a field as "left out".                                    *)
THEOREM TypeCorrect == Spec => []TypeOK
<1>1. IInv => TypeOK
  BY DEF IInv
<1>2. QED
  BY <1>1, InitIInv, StepIInv, PTL DEF Spec

(* The transaction of Register: a use without a user, or a user without a  *)
(* use, is never committed.                                                *)
THEOREM UsesAndUsersAgree == Spec => []UsesAreUsers
<1>1. IInv => UsesAreUsers
  BY DEF IInv
<1>2. QED
  BY <1>1, InitIInv, StepIInv, PTL DEF Spec

(* The condition of ConsumeInvitationCode and the CHECK of the table keep  *)
(* a code within its limit although UpdateInvitationCode checks too early. *)
THEOREM LimitIsKept == Spec => []UsesFitMax
<1>1. IInv => UsesFitMax
  BY DEF IInv
<1>2. QED
  BY <1>1, InitIInv, StepIInv, PTL DEF Spec

\* A registration that commits admits somebody.
LEMMA CommitAdmits ==
  ASSUME IInv, NEW r \in Requests, Commit(r)
  PROVE  Code!Next
<1>1. /\ reg[r].email \in Emails \ users /\ users' = users \cup {reg[r].email}
      /\ used' = used + 1 /\ UNCHANGED <<status, max>>
  BY DEF Commit, IInv, Registered
<1>2. status = "active" /\ used < max
  BY HolderFacts DEF Commit
<1>3. Code!Admit(reg[r].email)
  BY <1>1, <1>2 DEF Code!Admit
<1>4. QED
  BY <1>1, <1>3 DEF Code!Next

\* An update that writes changes the code, unless CHECK refuses.
LEMMA WriteChanges ==
  ASSUME IInv, NEW a \in Updates, WriteCode(a)
  PROVE  Code!Next \/ UNCHANGED <<status, max, used, users>>
<1>1. CASE Fits(upd[a].max)
  <2>1. /\ status' = upd[a].status /\ max' = upd[a].max /\ UNCHANGED <<used, users>>
        /\ upd[a].status \in {"active", "disabled"} /\ upd[a].max \in 1..MaxUses
    BY <1>1 DEF WriteCode, IInv, FilledIn
  <2>2. used <= upd[a].max
    BY <1>1 DEF Fits
  <2>3. Code!Change(upd[a].status, upd[a].max)
    BY <2>1, <2>2 DEF Code!Change
  <2>4. QED
    BY <2>1, <2>3 DEF Code!Next
<1>2. CASE ~Fits(upd[a].max)
  BY <1>2 DEF WriteCode
<1>3. QED
  BY <1>1, <1>2

(* The transaction of Register, the condition of ConsumeInvitationCode and *)
(* the CHECK of the table make the code one that admits and changes in     *)
(* single steps, with a limit that holds at every moment.                  *)
THEOREM Refinement == Spec => ImplementsCode
<1>1. Init => Code!Init
  BY DEF Init, Code!Init
<1>2. IInv /\ [Next]_vars => [Code!Next]_<<status, max, used, users>>
  <2> SUFFICES ASSUME IInv, [Next]_vars PROVE Code!Next \/ UNCHANGED <<status, max, used, users>>
    OBVIOUS
  <2>1. CASE (\E r \in Requests : Commit(r)) \/ (\E a \in Updates : WriteCode(a))
    BY <2>1, CommitAdmits, WriteChanges
  <2>2. CASE ~((\E r \in Requests : Commit(r)) \/ (\E a \in Updates : WriteCode(a)))
    BY <2>2 DEF Next, Registration, Update, BeginRegister, Consume, Rollback, BeginUpdate, CheckUses,
                ReadCode, FailUpdate, Expire, vars, code
  <2>3. QED
    BY <2>1, <2>2
<1>3. QED
  BY <1>1, <1>2, InitIInv, StepIInv, PTL DEF Spec, Code!Spec, ImplementsCode
-----------------------------------------------------------------------------
(* Updates that do not overlap.                                            *)

\* The update is alone, and what it will write back is what the row holds.
WorksAlone == \A a, b \in Updates : upd[a].at # "idle" /\ upd[b].at # "idle" => a = b

WritesAsked ==
    \A a \in Updates :
        upd[a].at = "write" =>
            /\ upd[a].status = IF upd[a].ask.status = Keep THEN status ELSE upd[a].ask.status
            /\ upd[a].max = IF upd[a].ask.max = 0 THEN max ELSE upd[a].ask.max

AskedInv == ~overlapped => WorksAlone /\ WritesAsked

LEMMA InitAsked == Init => AskedInv
BY NoUpdTyped DEF Init, AskedInv, WorksAlone, WritesAsked

\* An update moves while the others, and the row, stay.
LEMMA TaskAsked ==
  ASSUME IInv, AskedInv, NEW a \in Updates, NEW x \in Tasks, upd' = [upd EXCEPT ![a] = x],
         UNCHANGED code,
         ~overlapped' => ~overlapped,
         x.at # "idle" /\ ~overlapped' => upd[a].at # "idle" \/ \A b \in Updates : upd[b].at = "idle",
         x.at = "write" =>
            /\ x.status = IF x.ask.status = Keep THEN status ELSE x.ask.status
            /\ x.max = IF x.ask.max = 0 THEN max ELSE x.ask.max
  PROVE  AskedInv'
<1> SUFFICES ASSUME ~overlapped' PROVE WorksAlone' /\ WritesAsked'
  BY DEF AskedInv
<1>1. upd'[a] = x /\ \A b \in Updates : b # a => upd'[b] = upd[b]
  BY UpdMoves DEF IInv, TypeOK, Tasks
<1>2. WorksAlone /\ WritesAsked
  BY DEF AskedInv
<1>3. WorksAlone'
  BY <1>1, <1>2 DEF WorksAlone
<1>4. WritesAsked'
  BY <1>1, <1>2 DEF WritesAsked, code
<1>5. QED
  BY <1>3, <1>4

LEMMA StepAsked ==
  ASSUME IInv, AskedInv, [Next]_vars
  PROVE  AskedInv'
<1> USE DEF IInv, TypeOK
<1>1. ASSUME NEW a \in Updates, BeginUpdate(a) PROVE AskedInv'
  <2>1. PICK st \in {Keep, "active", "disabled"}, mx \in 0..MaxUses :
          upd' = [upd EXCEPT ![a] = Task("check", [status |-> st, max |-> mx])]
    BY <1>1 DEF BeginUpdate
  <2> DEFINE x == Task("check", [status |-> st, max |-> mx])
  <2>2. x \in Tasks /\ x.at = "check"
    BY ConstantsAssumption DEF Task, Tasks, Asks, Keep, ConstantsAssumption
  <2>3. ~overlapped' => ~overlapped /\ \A b \in Updates : upd[b].at = "idle"
    BY <1>1, NoUpdTyped DEF BeginUpdate
  <2>4. UNCHANGED code
    BY <1>1 DEF BeginUpdate
  <2> HIDE DEF x
  <2>5. upd' = [upd EXCEPT ![a] = x]
    BY <2>1 DEF x
  <2>6. QED
    BY <2>2, <2>3, <2>4, <2>5, TaskAsked
<1>2. ASSUME NEW a \in Updates, CheckUses(a) PROVE AskedInv'
  <2>1. PICK x \in {NoUpd, Task("read", upd[a].ask)} : upd' = [upd EXCEPT ![a] = x]
    BY <1>2 DEF CheckUses
  <2>2. x \in Tasks /\ x.at # "write"
    BY ConstantsAssumption, NoUpdTyped DEF Task, Tasks, Keep, ConstantsAssumption
  <2>3. upd[a].at = "check" /\ UNCHANGED code /\ overlapped' = overlapped
    BY <1>2 DEF CheckUses
  <2>4. QED
    BY <2>1, <2>2, <2>3, TaskAsked
<1>3. ASSUME NEW a \in Updates, ReadCode(a) PROVE AskedInv'
  <2> DEFINE ask == upd[a].ask
             x == [at |-> "write", ask |-> ask,
                   status |-> IF ask.status = Keep THEN status ELSE ask.status,
                   max |-> IF ask.max = 0 THEN max ELSE ask.max]
  <2>1. x \in Tasks
    BY DEF Tasks, Asks, Keep
  <2>2. upd' = [upd EXCEPT ![a] = x] /\ UNCHANGED code /\ overlapped' = overlapped /\ upd[a].at = "read"
    BY <1>3 DEF ReadCode
  <2>3. x.at = "write" /\ x.ask = ask
        /\ x.status = (IF x.ask.status = Keep THEN status ELSE x.ask.status)
        /\ x.max = (IF x.ask.max = 0 THEN max ELSE x.ask.max)
    OBVIOUS
  <2> HIDE DEF x
  <2>4. QED
    BY <2>1, <2>2, <2>3, TaskAsked
<1>4. ASSUME NEW a \in Updates, WriteCode(a) PROVE AskedInv'
  <2>1. /\ \A b \in Updates : b # a => upd'[b] = upd[b]
        /\ upd'[a].at = "idle" /\ upd[a].at = "write" /\ overlapped' = overlapped
    BY <1>4, NoUpdTyped, UpdMoves DEF WriteCode, Tasks
  <2>2. QED
    BY <2>1 DEF AskedInv, WorksAlone, WritesAsked
<1>5. ASSUME NEW a \in Updates, FailUpdate(a) PROVE AskedInv'
  BY <1>5, NoUpdTyped, TaskAsked DEF FailUpdate
<1>6. ASSUME UNCHANGED <<status, max, upd, overlapped>> PROVE AskedInv'
  BY <1>6 DEF AskedInv, WorksAlone, WritesAsked
<1>7. ASSUME NEW r \in Requests, BeginRegister(r) \/ Registration(r) PROVE AskedInv'
  BY <1>6, <1>7 DEF BeginRegister, Registration, Consume, Commit, Rollback, code
<1>8. CASE Expire \/ UNCHANGED vars
  BY <1>6, <1>8 DEF Expire, vars, code
<1>9. QED
  BY <1>1, <1>2, <1>3, <1>4, <1>5, <1>7, <1>8 DEF Next, Update

\* The status and the limit that one step may give to the code.
AskedStep ==
    ~overlapped' =>
      /\ status' # status => \E a \in Updates : upd[a].ask.status = status'
      /\ max' # max => \E a \in Updates : upd[a].ask.max = max'

LEMMA OnlyWritten ==
  ASSUME IInv, AskedInv, [Next]_vars
  PROVE  AskedStep
<1>1. ASSUME NEW a \in Updates, WriteCode(a) PROVE AskedStep
  BY <1>1 DEF WriteCode, AskedInv, WritesAsked, AskedStep
<1>2. CASE ~(\E a \in Updates : WriteCode(a))
  BY <1>2 DEF Next, Registration, Update, BeginRegister, Consume, Commit, Rollback, BeginUpdate,
              CheckUses, ReadCode, FailUpdate, Expire, vars, code, AskedStep
<1>3. QED
  BY <1>1, <1>2

(* UpdateInvitationCode writes every column back, yet while updates do not *)
(* overlap the status and the limit change only to what one of them was    *)
(* asked for, whatever registrations commit in between.                    *)
THEOREM UpdatesAsAsked == Spec => UpdatedAsAsked
<1>1. IInv /\ AskedInv /\ [Next]_vars => [AskedStep]_vars
  BY OnlyWritten
<1>2. IInv /\ AskedInv /\ [Next]_vars => (IInv /\ AskedInv)'
  BY StepIInv, StepAsked
<1>3. UpdatedAsAsked <=> [][AskedStep]_vars
  BY PTL DEF UpdatedAsAsked, AskedStep
<1>4. QED
  BY <1>1, <1>2, <1>3, InitIInv, InitAsked, PTL DEF Spec
=============================================================================

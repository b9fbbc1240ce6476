------------------------------ MODULE AgentRules ------------------------------
(***************************************************************************)
(* internal/agents/service.go and repository.go: the rules that an         *)
(* administrator sets up for accounts.                                     *)
(*                                                                         *)
(* A rule is a row of agent_rules with a primary account, and one row of   *)
(* agent_rule_accounts for every account it serves.  No transaction spans  *)
(* the two: an update writes the row, deletes the accounts and inserts     *)
(* them one by one, and others may do the same meanwhile.  A rule that     *)
(* sends by itself (auto_send) must be enabled in a request of its own;    *)
(* the requests decide that from a row they read in an earlier statement.  *)
(*                                                                         *)
(* Filters, prompts and providers of a rule are left out: they are written *)
(* with the row and decide nothing here; so is the audit entry that        *)
(* follows a success.                                                      *)
(***************************************************************************)
EXTENDS Naturals, FiniteSets

CONSTANTS
    Rules,
    Accounts,
    RuleRequests,  \* requests that are served at the same time
    NoRule,
    Unborn, Gone,  \* in place of a row: not created yet, deleted
    Modes,         \* reply modes: "auto_send" and those that only suggest
    Replies,       \* inputs for max_auto_replies_per_thread
    MaxRuleAsks    \* bound: requests let in

ASSUME RuleConstants ==
    /\ NoRule \notin Rules /\ Unborn # Gone
    /\ "auto_send" \in Modes /\ Replies \subseteq Nat
    /\ MaxRuleAsks \in Nat

VARIABLES
    accountRows,   \* the accounts that exist
    ruleRow,       \* agent_rules
    ruleAccounts,  \* agent_rule_accounts, as a set of accounts per rule
    ruleReq,       \* what each request is doing
    ruleAsks,      \* requests let in so far
    asked,         \* history: the accounts in the last update of the row
    settled,       \* history: that update ran to its end and alone
    blind          \* history: the row sends by itself by the hand of a request
                   \* that had read another mode, and nobody changed it since

ruleVars == <<accountRows, ruleRow, ruleAccounts, ruleReq, ruleAsks, asked, settled, blind>>
ruleHistory == <<asked, settled, blind>>

-----------------------------------------------------------------------------
RuleRows == [primary : Accounts, mode : Modes, enabled : BOOLEAN, replies : Replies \cup {1}]
ASSUME RowConstants == Unborn \notin RuleRows /\ Gone \notin RuleRows

Row(primary, mode, enabled, replies) ==
    [primary |-> primary, mode |-> mode, enabled |-> enabled, replies |-> replies]
ToWrite(accounts, row) == [accounts |-> accounts, row |-> row]

HasRule(r) == ruleRow[r] \notin {Unborn, Gone}
KnownRules == {r \in Rules : ruleRow[r] # Unborn}

\* What UpsertRule makes of its input: the primary account is served too, and
\* a rule that sends by itself has a limit.
RuleInput(primary, also, mode, enabled, replies) ==
    ToWrite({primary} \cup also,
            Row(primary, mode, enabled, IF mode = "auto_send" /\ replies = 0 THEN 1 ELSE replies))

RuleInputs ==
    {RuleInput(p, also, mode, enabled, replies) :
        p \in Accounts, also \in SUBSET Accounts, mode \in Modes, enabled \in BOOLEAN, replies \in Replies}

\* Mutant of Switched: only a new rule is switched off.
SwitchedIfNew(row, was) ==
    Row(row.primary, row.mode, row.enabled /\ ~(row.mode = "auto_send" /\ was = "none"), row.replies)

\* The row that an update writes: a rule that becomes auto_send is switched off.
Switched(row, was) ==
    Row(row.primary, row.mode, row.enabled /\ ~(row.mode = "auto_send" /\ was # "auto_send"), row.replies)

\* GetRuleByID: without rows of its own a rule serves its primary account.
Serves(r) == IF ruleAccounts[r] = {} THEN {ruleRow[r].primary} ELSE ruleAccounts[r]

\* A request: its step, the rule, what it is going to write, the mode it has
\* read, the accounts still to insert; fresh: nobody wrote the row since it was
\* read; alone: nobody else writes the accounts.
RuleAsk(at, op, r, in, saw) ==
    [at |-> at, op |-> op, rule |-> r, in |-> in, saw |-> saw, todo |-> {}, fresh |-> TRUE, alone |-> TRUE]
ToServe(accounts) == ToWrite(accounts, NoRule)
NoInput == ToServe({})
IdleRuleAsk == RuleAsk("idle", "none", NoRule, NoInput, "none")

Writes(q, r) == ruleReq[q].rule = r /\ ruleReq[q].at \in {"clear", "bind"}

RuleInit ==
    /\ accountRows = Accounts
    /\ ruleRow = [r \in Rules |-> Unborn]
    /\ ruleAccounts = [r \in Rules |-> {}]
    /\ ruleReq = [q \in RuleRequests |-> IdleRuleAsk]
    /\ ruleAsks = 0
    /\ asked = [r \in Rules |-> {}]
    /\ settled = [r \in Rules |-> FALSE]
    /\ blind = [r \in Rules |-> FALSE]

-----------------------------------------------------------------------------
(* The steps of a request. *)

\* The request moves on, and the others on rule r learn nothing of it: they
\* are not fresh any more, and if they write accounts, not alone.
Proceed(q, ask) == ruleReq' = [ruleReq EXCEPT ![q] = ask]
ProceedOver(q, ask, r) ==
    ruleReq' = [p \in RuleRequests |->
        IF p = q THEN [ask EXCEPT !.alone = ~\E o \in RuleRequests \ {q} : Writes(o, r)]
        ELSE [ruleReq[p] EXCEPT !.fresh = @ /\ ruleReq[p].rule # r, !.alone = @ /\ ~Writes(p, r)]]

WriteRow(q, r, row) ==
    /\ ruleRow' = [ruleRow EXCEPT ![r] = row]
    /\ blind' = [blind EXCEPT ![r] =
            /\ row.mode = "auto_send" /\ row.enabled
            /\ ruleReq[q].saw # "auto_send" /\ ruleReq[q].fresh]

\* UpsertRule looks its accounts up before anything else; SetRuleEnabled and
\* DeleteRule begin with the rule.
AskRule(q) ==
    /\ ruleReq[q].at = "idle"
    /\ ruleAsks < MaxRuleAsks
    /\ ruleAsks' = ruleAsks + 1
    /\ \/ \E in \in RuleInputs :
            /\ in.accounts \subseteq accountRows
            /\ \/ Proceed(q, RuleAsk("insert", "create", NoRule, in, "none"))
               \/ \E r \in KnownRules : Proceed(q, RuleAsk("load", "update", r, in, "none"))
       \/ \E r \in KnownRules, op \in {"enable", "disable", "delete"} :
            Proceed(q, RuleAsk("load", op, r, NoInput, "none"))
    /\ UNCHANGED <<accountRows, ruleRow, ruleAccounts, ruleHistory>>

\* CreateRule, its first statement; a new auto_send rule is off.
InsertRule(q, r) ==
    LET in == ruleReq[q].in IN
    /\ ruleReq[q].at = "insert"
    /\ ruleRow[r] = Unborn
    /\ in.row.primary \in accountRows
    /\ WriteRow(q, r, Switched(in.row, "none"))
    /\ Proceed(q, RuleAsk("clear", "create", r, ToServe(in.accounts), "none"))
    /\ asked' = [asked EXCEPT ![r] = in.accounts]
    /\ settled' = [settled EXCEPT ![r] = FALSE]
    /\ UNCHANGED <<accountRows, ruleAccounts, ruleAsks>>

\* SetRuleEnabled's guard on a row it has read.
MayEnable(row) == row.mode = "auto_send" => row.replies > 0

\* GetRuleByID; a rule that is gone ends the request, and so does the guard.
LoadRule(q) ==
    LET ask == ruleReq[q]
        row == ruleRow[ask.rule]
    IN
    /\ ask.at = "load"
    /\ HasRule(ask.rule)
    /\ \/ /\ ask.op = "update"
          /\ Proceed(q, RuleAsk("update", "update", ask.rule,
                                ToWrite(ask.in.accounts, Switched(ask.in.row, row.mode)), row.mode))
       \/ /\ ask.op \in {"enable", "disable"}
          /\ ask.op = "enable" => MayEnable(row)
          /\ Proceed(q, RuleAsk("switch", ask.op, ask.rule, NoInput, row.mode))
       \/ /\ ask.op = "delete"
          /\ Proceed(q, RuleAsk("delete", "delete", ask.rule, NoInput, "none"))
    /\ UNCHANGED <<accountRows, ruleRow, ruleAccounts, ruleAsks, ruleHistory>>

\* UpdateRule, its first statement.
UpdateRule(q) ==
    LET ask == ruleReq[q] IN
    /\ ask.at = "update"
    /\ HasRule(ask.rule) /\ ask.in.row.primary \in accountRows
    /\ WriteRow(q, ask.rule, ask.in.row)
    /\ ProceedOver(q, RuleAsk("clear", "update", ask.rule, ToServe(ask.in.accounts), "none"), ask.rule)
    /\ asked' = [asked EXCEPT ![ask.rule] = ask.in.accounts]
    /\ settled' = [settled EXCEPT ![ask.rule] = FALSE]
    /\ UNCHANGED <<accountRows, ruleAccounts, ruleAsks>>

\* Mutant of ClearAccounts: the accounts of before stay.
ClearNothing(q) ==
    /\ ruleReq[q].at = "clear"
    /\ Proceed(q, [ruleReq[q] EXCEPT !.at = "bind", !.todo = ruleReq[q].in.accounts])
    /\ UNCHANGED <<accountRows, ruleRow, ruleAccounts, ruleAsks, ruleHistory>>

\* syncRuleAccounts: the DELETE...
ClearAccounts(q) ==
    /\ ruleReq[q].at = "clear"
    /\ ruleAccounts' = [ruleAccounts EXCEPT ![ruleReq[q].rule] = {}]
    /\ Proceed(q, [ruleReq[q] EXCEPT !.at = "bind", !.todo = ruleReq[q].in.accounts])
    /\ UNCHANGED <<accountRows, ruleRow, ruleAsks, ruleHistory>>

\* ... and one INSERT per account, in the order of the request: any.  Both ends
\* of a pair must exist.
BindAccount(q, a) ==
    LET ask == ruleReq[q]
        r == ask.rule
    IN
    /\ ask.at = "bind"
    /\ a \in ask.todo
    /\ HasRule(r) /\ a \in accountRows
    /\ ruleAccounts' = [ruleAccounts EXCEPT ![r] = @ \cup {a}]
    /\ IF ask.todo = {a}
       THEN /\ Proceed(q, [ask EXCEPT !.at = "reply", !.todo = {}])
            /\ settled' = [settled EXCEPT ![r] = ask.alone]
       ELSE Proceed(q, [ask EXCEPT !.todo = @ \ {a}]) /\ UNCHANGED settled
    /\ UNCHANGED <<accountRows, ruleRow, ruleAsks, asked, blind>>

SetEnabled(row, on) == Row(row.primary, row.mode, on, row.replies)

\* SetRuleEnabled of the repository touches no other column.
SwitchRule(q) ==
    LET ask == ruleReq[q] IN
    /\ ask.at = "switch"
    /\ HasRule(ask.rule)
    /\ WriteRow(q, ask.rule, SetEnabled(ruleRow[ask.rule], ask.op = "enable"))
    /\ ruleReq' = [p \in RuleRequests |->
            IF p = q THEN [ask EXCEPT !.at = "reply"]
            ELSE [ruleReq[p] EXCEPT !.fresh = @ /\ ruleReq[p].rule # ask.rule]]
    /\ UNCHANGED <<accountRows, ruleAccounts, ruleAsks, asked, settled>>

\* DeleteRule; the pairs go with the row (ON DELETE CASCADE).
DeleteRule(q) ==
    LET r == ruleReq[q].rule IN
    /\ ruleReq[q].at = "delete"
    /\ HasRule(r)
    /\ ruleRow' = [ruleRow EXCEPT ![r] = Gone]
    /\ ruleAccounts' = [ruleAccounts EXCEPT ![r] = {}]
    /\ Proceed(q, IdleRuleAsk)
    /\ UNCHANGED <<accountRows, ruleAsks, ruleHistory>>

\* The stored rule is read once more for the answer, if it is still there.
ReplyRule(q) ==
    /\ ruleReq[q].at = "reply"
    /\ Proceed(q, IdleRuleAsk)
    /\ UNCHANGED <<accountRows, ruleRow, ruleAccounts, ruleAsks, ruleHistory>>

\* A statement fails, a row it needs is gone, a guard refuses, the client
\* leaves or the process stops: nothing of what is done is undone.
FailRule(q) ==
    /\ ruleReq[q].at # "idle"
    /\ Proceed(q, IdleRuleAsk)
    /\ UNCHANGED <<accountRows, ruleRow, ruleAccounts, ruleAsks, ruleHistory>>

\* DeleteAccount deletes the rules of a primary account and the pairs of others.
DropAccount(a) ==
    /\ a \in accountRows
    /\ accountRows' = accountRows \ {a}
    /\ ruleRow' = [r \in Rules |-> IF HasRule(r) /\ ruleRow[r].primary = a THEN Gone ELSE ruleRow[r]]
    /\ ruleAccounts' = [r \in Rules |->
            IF HasRule(r) /\ ruleRow[r].primary = a THEN {} ELSE ruleAccounts[r] \ {a}]
    /\ UNCHANGED <<ruleReq, ruleAsks, ruleHistory>>

RuleStep(q) ==
    \/ AskRule(q) \/ LoadRule(q) \/ UpdateRule(q) \/ ClearAccounts(q) \/ SwitchRule(q)
    \/ DeleteRule(q) \/ ReplyRule(q) \/ FailRule(q)
    \/ \E r \in Rules : InsertRule(q, r)
    \/ \E a \in Accounts : BindAccount(q, a)

RuleNext == (\E q \in RuleRequests : RuleStep(q)) \/ (\E a \in Accounts : DropAccount(a))

RuleSpec == RuleInit /\ [][RuleNext]_ruleVars
-----------------------------------------------------------------------------
(* Properties. *)

RuleAsks ==
    [at : {"idle", "insert", "load", "update", "clear", "bind", "switch", "delete", "reply"},
     op : {"none", "create", "update", "enable", "disable", "delete"},
     rule : Rules \cup {NoRule},
     in : [accounts : SUBSET Accounts, row : RuleRows \cup {NoRule}],
     saw : Modes \cup {"none"},
     todo : SUBSET Accounts, fresh : BOOLEAN, alone : BOOLEAN]

RuleTypeOK ==
    /\ accountRows \subseteq Accounts
    /\ ruleRow \in [Rules -> RuleRows \cup {Unborn, Gone}]
    /\ ruleAccounts \in [Rules -> SUBSET Accounts]
    /\ ruleReq \in [RuleRequests -> RuleAsks]
    /\ ruleAsks \in 0..MaxRuleAsks
    /\ asked \in [Rules -> SUBSET Accounts]
    /\ settled \in [Rules -> BOOLEAN]
    /\ blind \in [Rules -> BOOLEAN]

(* A rule serves exactly the accounts that its last update listed and that *)
(* still exist, once an update of it has run to its end without another    *)
(* one in between: also when earlier ones failed half-way or overlapped.   *)
ServedAsAsked ==
    \A r \in Rules : HasRule(r) /\ settled[r] => Serves(r) = asked[r] \cap accountRows

(* A rule that sends by itself has a limit of answers, whichever requests  *)
(* switched it on or over; and whoever switched it on knew that it sends   *)
(* by itself, unless the rule was changed while they did.                  *)
AutoSendIsGuarded ==
    \A r \in Rules :
        HasRule(r) /\ ruleRow[r].mode = "auto_send"
            => ruleRow[r].replies > 0 /\ ~blind[r]
=============================================================================

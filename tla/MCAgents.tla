------------------------------ MODULE MCAgents ------------------------------
(* Small instances of AgentRuns, AgentRules and SystemAgents for TLC.  The  *)
(* three share no state: a behaviour takes the steps of one of them, and    *)
(* the others stay as they begin.  System agents run twice: more changes of *)
(* them without users, fewer changes with users.                            *)
EXTENDS AgentRuns, AgentRules, SystemAgents, TLC

VARIABLE part

CONSTANTS run1, run2, s1, s2, rule, acc1, acc2, q1, q2, u1, u2, adm1, adm2

MCInit == Init /\ RuleInit /\ ConfigInit /\ part \in {"runs", "rules", "admins", "users"}

Only(name, step, others) == part = name /\ step /\ UNCHANGED <<part, others>>

MCNext ==
    \/ Only("runs", Next, <<ruleVars, configVars>>)
    \/ Only("rules", RuleNext, <<vars, configVars>>)
    \/ Only("admins", ConfigNext /\ uses' = 0, <<vars, ruleVars>>)
    \/ Only("users", ConfigNext /\ configAsks' <= 2, <<vars, ruleVars>>)

\* The fairness of FairSpec, where AgentRuns is the one that runs.
FairGenerate(r) == part = "runs" /\ Generate(r) /\ UNCHANGED part
FairSend(s) == part = "runs" /\ Send(s) /\ UNCHANGED part

MCSpec ==
    /\ MCInit /\ [][MCNext]_<<part, vars, ruleVars, configVars>>
    /\ \A r \in Runs : WF_<<vars, part>>(FairGenerate(r))
    /\ \A s \in Senders : WF_<<vars, part>>(FairSend(s))

(* The types of all three.                                                  *)
TypesOK == TypeOK /\ RuleTypeOK /\ ConfigTypeOK
=============================================================================

----------------------------- MODULE SystemAgents -----------------------------
(***************************************************************************)
(* internal/agents: the system agents that administrators configure, the   *)
(* requests that use them, and the status card of a chat.                  *)
(*                                                                         *)
(* For the purposes "translation" and "status_card" one agent shall be     *)
(* active.  UpsertSystemConfig stores an enabled agent in one statement    *)
(* and disables the others in the next; a stop, an error or another        *)
(* administrator may come in between.  A request that names no agent uses  *)
(* the first enabled one by name.  AnalyzeStatusCard reads an agent and    *)
(* the messages of a chat, asks the runner and then replaces the card of   *)
(* the chat; a slow one replaces a newer card.                             *)
(*                                                                         *)
(* An agent stands for its id and its name: agents are numbers, and        *)
(* numbers are the order of the names.  A card is reduced to the messages   *)
(* that it is based on.  Providers are left out: an enabled agent has one  *)
(* (UpsertSystemConfig refuses it otherwise), so a request that found an   *)
(* enabled agent can always ask it.                                        *)
(***************************************************************************)
EXTENDS Integers, FiniteSets

CONSTANTS
    Agents,        \* system_agents, by their names
    Admins,        \* requests that change agents at the same time
    Users,         \* requests that use agents at the same time
    NoAgent,
    NoConfig,      \* no such row
    Purposes,
    MaxConfigAsks, \* bound: requests that change agents
    MaxUses,       \* bound: requests that use agents
    Limits,        \* inputs for context_message_limit
    MaxHistory,    \* the most messages of an analysis, also when none is asked
    MaxMessages    \* bound: messages of the chat

ASSUME AgentConstants ==
    /\ Agents \subseteq Nat /\ NoAgent \notin Agents
    /\ Purposes \subseteq {"reply", "translation", "status_card"}
    /\ MaxConfigAsks \in Nat /\ MaxUses \in Nat /\ MaxMessages \in Nat \ {0}
    /\ Limits \subseteq Int /\ MaxHistory \in Nat \ {0}

VARIABLES
    config,      \* rows of system_agents
    adminReq,    \* what each administrator's request is doing
    configAsks,  \* such requests so far
    use,         \* what each request that uses an agent is doing
    uses,        \* such requests so far
    messages,    \* messages of the chat; 0: not there, or deleted with its account
    card,        \* chat_status_cards of the chat: the messages it is based on
    broken,      \* history: purposes whose other agents were not disabled
    active       \* history: the agent of a purpose that was enabled last, by a
                 \* request that nobody disturbed

configVars == <<config, adminReq, configAsks, use, uses, messages, card, broken, active>>

-----------------------------------------------------------------------------
Configs == [purpose : Purposes, enabled : BOOLEAN]

\* systemPurposeUsesSingleActiveConfig
SingleActive(p) == p \in {"translation", "status_card"}

\* GetSystemConfigByID finds an agent for one purpose.
Has(a, p) == a \in Agents /\ config[a] # NoConfig /\ config[a].purpose = p

EnabledConfigs(p) == {a \in Agents : Has(a, p) /\ config[a].enabled}

\* GetSystemConfig: the first enabled one of a purpose, by name.
GetSystemConfig(p) ==
    IF EnabledConfigs(p) = {} THEN NoAgent
    ELSE CHOOSE a \in EnabledConfigs(p) : \A b \in EnabledConfigs(p) : a <= b

\* ListAvailableSystemConfigs: what a user may choose from.
ListAvailableSystemConfigs(p) ==
    IF SingleActive(p) THEN EnabledConfigs(p) \cap {GetSystemConfig(p)} ELSE EnabledConfigs(p)

\* resolveSystemAgentConfig: the agent that was asked for, if it is enabled for
\* the purpose, or the first one.
ResolveSystemAgentConfig(asked, p) ==
    IF asked = NoAgent THEN GetSystemConfig(p)
    ELSE IF Has(asked, p) /\ config[asked].enabled THEN asked ELSE NoAgent

AdminAsk(at, a, p) == [at |-> at, agent |-> a, purpose |-> p]
IdleAdmin == AdminAsk("idle", NoAgent, "none")

\* normalizeStatusCardHistoryLimit
HistoryLimit(asked) == IF asked <= 0 \/ asked > MaxHistory THEN MaxHistory ELSE asked

\* Mutant of ListMessages: the oldest messages of the chat.
ListOldest(limit) == {i \in 1..messages : i <= limit}

\* ListMessages: the newest messages of the chat.
ListMessages(limit) == {i \in 1..messages : i > messages - limit}

\* A request that uses an agent: its step, purpose and agent, the limit and the
\* messages of its analysis; since: the messages that were there when it began.
Using(at, p, a, limit, since) ==
    [at |-> at, purpose |-> p, agent |-> a, limit |-> limit, basis |-> {}, since |-> since]
IdleUse == Using("idle", "none", NoAgent, 0, 0)

ConfigInit ==
    /\ config = [a \in Agents |-> NoConfig]
    /\ adminReq = [q \in Admins |-> IdleAdmin]
    /\ configAsks = 0
    /\ use = [u \in Users |-> IdleUse]
    /\ uses = 0
    /\ messages = 1
    /\ card = {}
    /\ broken = {}
    /\ active = [p \in Purposes |-> NoAgent]

-----------------------------------------------------------------------------
(* Administrators. *)

\* A request is about to disable the other agents of purpose p.
Disabling(p) == \E q \in Admins : adminReq[q].at = "others" /\ adminReq[q].purpose = p

Touched(a, c) ==
    {p \in Purposes : (config[a] # NoConfig /\ config[a].purpose = p) \/ (c # NoConfig /\ c.purpose = p)}

\* Mutant of NeedsOthers: a new agent is thought to be alone.
NeedsOthersIfKnown(a, c) == SingleActive(c.purpose) /\ c.enabled /\ config[a] # NoConfig

NeedsOthers(a, c) == SingleActive(c.purpose) /\ c.enabled

\* INSERT ... ON CONFLICT: one that was deleted meanwhile comes back.
StoreConfig(a, c) == config' = [config EXCEPT ![a] = c]

\* UpsertSystemConfig, its first statement: an agent is created or replaced.
UpsertSystemConfig(q, a, c) ==
    /\ adminReq[q] = IdleAdmin
    /\ configAsks < MaxConfigAsks
    /\ StoreConfig(a, c)
    /\ adminReq' = [adminReq EXCEPT ![q] = IF NeedsOthers(a, c) THEN AdminAsk("others", a, c.purpose) ELSE IdleAdmin]
    /\ configAsks' = configAsks + 1
    /\ active' = [p \in Purposes |-> IF p \in Touched(a, c) THEN NoAgent ELSE active[p]]
    /\ UNCHANGED <<use, uses, messages, card, broken>>

\* Mutant of Others: the statement forgets the purpose.
OthersOfAll(a, p) == {b \in Agents \ {a} : config[b] # NoConfig /\ config[b].enabled}

Others(a, p) == EnabledConfigs(p) \ {a}

\* DisableOtherSystemConfigs; the request is answered with the stored agent.
\* It was not disturbed if nobody else wrote agents of the purpose since its
\* first statement: then its agent is still stored and enabled.
DisableOtherSystemConfigs(q) ==
    LET a == adminReq[q].agent
        p == adminReq[q].purpose
    IN
    /\ adminReq[q].at = "others"
    /\ config' = [b \in Agents |-> IF b \in Others(a, p) THEN [config[b] EXCEPT !.enabled = FALSE] ELSE config[b]]
    /\ adminReq' = [adminReq EXCEPT ![q] = IdleAdmin]
    /\ broken' = broken \ {p}
    /\ active' = [active EXCEPT ![p] =
            IF a \in EnabledConfigs(p) /\ \A o \in Admins \ {q} : adminReq[o].purpose # p THEN a ELSE NoAgent]
    /\ UNCHANGED <<configAsks, use, uses, messages, card>>

\* The second statement fails, or the process stops before it.
LeaveOthers(q) ==
    /\ adminReq[q].at = "others"
    /\ adminReq' = [adminReq EXCEPT ![q] = IdleAdmin]
    /\ broken' = broken \cup {adminReq[q].purpose}
    /\ UNCHANGED <<config, configAsks, use, uses, messages, card, active>>

DeleteSystemConfig(q, a) ==
    /\ adminReq[q] = IdleAdmin
    /\ configAsks < MaxConfigAsks
    /\ config[a] # NoConfig
    /\ StoreConfig(a, NoConfig)
    /\ configAsks' = configAsks + 1
    /\ active' = [p \in Purposes |-> IF p \in Touched(a, NoConfig) THEN NoAgent ELSE active[p]]
    /\ UNCHANGED <<adminReq, use, uses, messages, card, broken>>

-----------------------------------------------------------------------------
(* Users. *)

\* Every use begins with the agent; without one it ends at once.
Begin(u, a, using) ==
    /\ use[u] = IdleUse
    /\ uses < MaxUses
    /\ a # NoAgent
    /\ use' = [use EXCEPT ![u] = using]
    /\ uses' = uses + 1
    /\ UNCHANGED <<config, adminReq, configAsks, messages, card, broken, active>>

\* A translation and a draft take what they need of the agent along;
\* a translation belongs to no chat.
TranslateText(u, asked) ==
    Begin(u, ResolveSystemAgentConfig(asked, "translation"), Using("runner", "translation", NoAgent, 0, 0))

ResolveManualRule(u, asked) ==
    /\ messages > 0
    /\ Begin(u, ResolveSystemAgentConfig(asked, "reply"), Using("runner", "reply", NoAgent, 0, 0))

\* The header of the chat is read before the agent.
AnalyzeStatusCard(u, asked, limit) ==
    LET a == ResolveSystemAgentConfig(asked, "status_card") IN
    messages > 0 /\ Begin(u, a, Using("read", "status_card", a, HistoryLimit(limit), messages))

\* ListMessages for the analysis, which needs at least one.
ReadMessages(u) ==
    /\ use[u].at = "read"
    /\ use' = [use EXCEPT ![u] =
            IF messages = 0 THEN IdleUse
            ELSE [use[u] EXCEPT !.at = "runner", !.basis = ListMessages(use[u].limit)]]
    /\ UNCHANGED <<config, adminReq, configAsks, uses, messages, card, broken, active>>

\* The runner answers, or its client gives up after 25 seconds.
AskAgent(u) ==
    /\ use[u].at = "runner"
    /\ \/ /\ use[u].purpose = "status_card"
          /\ use' = [use EXCEPT ![u] = [use[u] EXCEPT !.at = "store"]]
       \/ use' = [use EXCEPT ![u] = IdleUse]
    /\ UNCHANGED <<config, adminReq, configAsks, uses, messages, card, broken, active>>

\* UpsertStatusCard selects the chat and refers to the agent: both must be there.
Storable(u) == messages > 0 /\ config[use[u].agent] # NoConfig

UpsertStatusCard(u) ==
    /\ use[u].at = "store"
    /\ card' = IF Storable(u) THEN use[u].basis ELSE card
    /\ use' = [use EXCEPT ![u] = IdleUse]
    /\ UNCHANGED <<config, adminReq, configAsks, uses, messages, broken, active>>

\* An error, a client that leaves or a stop.
LeaveUse(u) ==
    /\ use[u] # IdleUse
    /\ use' = [use EXCEPT ![u] = IdleUse]
    /\ UNCHANGED <<config, adminReq, configAsks, uses, messages, card, broken, active>>

\* The chat grows, or goes away with its account and takes its card along.
Receive ==
    /\ messages \in 1..(MaxMessages - 1)
    /\ messages' = messages + 1
    /\ UNCHANGED <<config, adminReq, configAsks, use, uses, card, broken, active>>

DropChat ==
    /\ messages > 0
    /\ messages' = 0
    /\ card' = {}
    /\ UNCHANGED <<config, adminReq, configAsks, use, uses, broken, active>>

Administer(q) ==
    \/ \E a \in Agents : DeleteSystemConfig(q, a) \/ (\E c \in Configs : UpsertSystemConfig(q, a, c))
    \/ DisableOtherSystemConfigs(q) \/ LeaveOthers(q)

UseAgent(u) ==
    \/ \E asked \in Agents \cup {NoAgent} :
        \/ TranslateText(u, asked)
        \/ ResolveManualRule(u, asked)
        \/ \E limit \in Limits : AnalyzeStatusCard(u, asked, limit)
    \/ ReadMessages(u) \/ AskAgent(u) \/ UpsertStatusCard(u) \/ LeaveUse(u)

ConfigNext == (\E q \in Admins : Administer(q)) \/ (\E u \in Users : UseAgent(u)) \/ Receive \/ DropChat

ConfigSpec == ConfigInit /\ [][ConfigNext]_configVars
-----------------------------------------------------------------------------
(* Properties. *)

ConfigTypeOK ==
    /\ config \in [Agents -> Configs \cup {NoConfig}]
    /\ adminReq \in [Admins -> [at : {"idle", "others"}, agent : Agents \cup {NoAgent}, purpose : Purposes \cup {"none"}]]
    /\ configAsks \in 0..MaxConfigAsks
    /\ use \in [Users -> [at : {"idle", "read", "runner", "store"}, purpose : Purposes \cup {"none"},
                          agent : Agents \cup {NoAgent}, limit : 0..MaxHistory,
                          basis : SUBSET (1..MaxMessages), since : 0..MaxMessages]]
    /\ uses \in 0..MaxUses
    /\ messages \in 0..MaxMessages
    /\ card \subseteq 1..MaxMessages
    /\ broken \subseteq Purposes
    /\ active \in [Purposes -> Agents \cup {NoAgent}]

(* However many administrators enable agents of a purpose at once, when    *)
(* their requests are through at most one is enabled, unless the last one  *)
(* to disable the others failed.                                           *)
OneActive ==
    \A p \in Purposes : \A a, b \in EnabledConfigs(p) :
        SingleActive(p) /\ ~Disabling(p) /\ p \notin broken => a = b

(* The agent that an administrator enabled undisturbed is the one that     *)
(* users see and that requests use, until somebody writes the agents of    *)
(* that purpose again; agents of other purposes do not touch it.           *)
EnabledIsUsed ==
    \A p \in Purposes :
        active[p] # NoAgent
            => /\ ResolveSystemAgentConfig(NoAgent, p) = active[p]
               /\ ListAvailableSystemConfigs(p) = {active[p]}

(* A card that replaces another knows the chat at least as it was when its *)
(* analysis was asked for: it may be older than the card it replaces only  *)
(* by what arrived while it ran, and it is based on no more messages than  *)
(* the limit.                                                              *)
CardsAreCurrent ==
    [][\A u \in Users : UpsertStatusCard(u) /\ card' # card
        => /\ \E i \in card' : i >= use[u].since
           /\ Cardinality(card') <= use[u].limit]_configVars
=============================================================================

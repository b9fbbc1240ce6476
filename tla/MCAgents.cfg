CONSTANTS
    NoRun = NoRun
    run1 = run1
    run2 = run2
    s1 = s1
    s2 = s2
    Runs = {run1, run2}
    Senders = {s1, s2}
    MaxSends = 3
    NoRule = NoRule
    Unborn = Unborn
    Gone = Gone
    rule = rule
    acc1 = acc1
    acc2 = acc2
    q1 = q1
    q2 = q2
    Rules = {rule}
    Accounts = {acc1, acc2}
    RuleRequests = {q1, q2}
    Modes = {"suggest", "auto_send"}
    Replies = {0}
    MaxRuleAsks = 3
    NoAgent = NoAgent
    NoConfig = NoConfig
    adm1 = adm1
    adm2 = adm2
    u1 = u1
    u2 = u2
    Agents = {1, 2}
    Admins = {adm1, adm2}
    Users = {u1, u2}
    Purposes = {"translation", "status_card", "reply"}
    MaxConfigAsks = 4
    MaxUses = 2
    MaxMessages = 2
    Limits = {0}
    MaxHistory = 1
SPECIFICATION MCSpec
INVARIANTS TypesOK GeneratingIsAlive SentOnce StatusIsTrue ServedAsAsked AutoSendIsGuarded OneActive EnabledIsUsed
PROPERTIES RunEnds CardsAreCurrent
CHECK_DEADLOCK FALSE

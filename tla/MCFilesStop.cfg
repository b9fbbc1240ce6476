CONSTANTS
    NoJob = NoJob
    j1 = j1
    j2 = j2
    d1 = d1
    d2 = d2
    Jobs = {j1}
    Deleters = {d1}
    MaxFaults = 0
    MaxStops = 1
    old = old
    new = new
    boot = boot
    q1 = q1
    q2 = q2
    admin = admin
    user = user
    acc = acc
    Docs = {old}
    OldDocs = {old}
    Users = {admin}
    Admins = {admin}
    NoOwner = NoOwner
    Absent = Absent
    NoDoc = NoDoc
    ScriptRequests = {boot}
    MaxScriptAsks = 0
    MaxFailures = 0
    Boot = boot
    TheAdmin = admin
    OldAccounts = {acc}
    MaxVersion = 1
    MaxEnds = 0
SPECIFICATION MCSpec
PROPERTY JobEnds
CHECK_DEADLOCK FALSE

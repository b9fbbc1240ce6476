CONSTANTS
    NoJob = NoJob
    j1 = j1
    j2 = j2
    d1 = d1
    d2 = d2
    Jobs = {j1, j2}
    Deleters = {d1, d2}
    MaxFaults = 2
    MaxStops = 1
    old = old
    new = new
    boot = boot
    q1 = q1
    q2 = q2
    admin = admin
    user = user
    acc = acc
    Docs = {old, new}
    OldDocs = {old}
    Users = {admin, user}
    Admins = {admin}
    NoOwner = NoOwner
    Absent = Absent
    NoDoc = NoDoc
    ScriptRequests = {boot, q1, q2}
    MaxScriptAsks = 3
    MaxFailures = 1
    Boot = boot
    TheAdmin = admin
    OldAccounts = {acc}
    MaxVersion = 2
    MaxEnds = 2
SPECIFICATION MCSpec
INVARIANTS ArtifactServed RemovalIsFinal ScriptsAreKept ServesReady
PROPERTIES ImplementsLifecycle JobEndsUndisturbed ProcessServesAgain
CHECK_DEADLOCK FALSE

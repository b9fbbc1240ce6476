CONSTANTS
    NoUser = NoUser
    NoToken = NoToken
    AdminPath = AdminPath
    OpenPath = OpenPath
    u1 = u1
    u2 = u2
    r1 = r1
    r2 = r2
    p1 = p1
    t1 = t1
    l1 = l1
    v1 = v1
    Users = {u1, u2}
    Requests = {r1, r2}
    Permissions = {p1}
    MaxRequests = 3
    Tokens = {t1}
    Logins = {l1}
    Visits = {v1}
SPECIFICATION MCSpec
SYMMETRY MCSymmetry
INVARIANT AdminRemains
CHECK_DEADLOCK FALSE

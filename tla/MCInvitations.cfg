CONSTANTS
    Nobody = Nobody
    r1 = r1
    r2 = r2
    ann = ann
    bob = bob
    a1 = a1
    a2 = a2
    Requests = {r1, r2}
    Emails = {ann, bob}
    Updates = {a1, a2}
    MaxUses = 2
    MaxBegun = 2
SPECIFICATION FairSpec
INVARIANT UsesAreUsers
PROPERTIES ImplementsCode UpdatedAsAsked EveryoneIsAnswered
CHECK_DEADLOCK FALSE

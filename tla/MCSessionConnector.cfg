CONSTANTS
    None = None
    s1 = s1
    s2 = s2
    r1 = r1
    r2 = r2
    h1 = h1
    h2 = h2
    Sessions = {s1, s2}
    Requests = {r1, r2}
    Handlers = {h1, h2}
    Boot = r1
    MaxEvents = 3
    MaxRestarts = 1
SPECIFICATION Spec
CONSTRAINT Serialized
SYMMETRY MCSymmetry
INVARIANTS NoOrphanClient DeletedAccountIsSilent SlotDeviceStored BindingTracksDevice
CHECK_DEADLOCK FALSE

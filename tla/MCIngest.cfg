CONSTANTS
    NoChat = NoChat
    NoMessage = NoMessage
    d1 = d1
    d2 = d2
    c1 = c1
    c2 = c2
    c3 = c3
    q1 = q1
    q2 = q2
    m1 = m1
    m2 = m2
    Deliveries = {d1, d2}
    Chats = {c1}
    Messages = {m1, m2}
    MediaCount <- MCMediaCount
    MaxTime = 2
    MaxEmits = 3
    MaxFaults = 1
    MaxStops = 1
    CatchUpChats = {c1, c2, c3}
    NoCatchUp = NoCatchUp
    ChatRequestLimit = 2
    HistoryRequests = {q1, q2}
    MaxWindows = 3
SPECIFICATION MCSpec
INVARIANTS LastMessageCovers MediaExact AnnouncedIsStored AskedOnceAWindow
PROPERTY DeliveredIsStored
CHECK_DEADLOCK FALSE

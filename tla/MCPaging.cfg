CONSTANTS
    NoLimit = NoLimit
    Messages <- MCMessages
    Times <- MCTimes
    Limit = 2
    Rows = {1, 2, 3, 4}
    CreatedAts = {1, 2}
    Asked = {0, 1, 9}
    Default = 2
    Most = 3
    MaxMoved = 2
SPECIFICATION MCSpec
INVARIANTS PagesDescend OnlyTiesAreMissed SkipsAreSlips
CHECK_DEADLOCK FALSE

SPECIFICATION PushFairSpec
CONSTANTS
    Versions = {1, 2, 3}
    First = 1
    Broken = {2}
    Procs = {p1, p2}
    NoProc = none
    Handlers = {m1}
    Faults = {"sharing"}
    Lossy = TRUE
PROPERTY NotResent
PROPERTY MistakeClears
PROPERTY CatchesUp

SPECIFICATION Spec
CONSTANTS
    Versions = {1, 2, 3}
    First = 1
    Broken = {2}
    Procs = {p1, p2, p3}
    NoProc = none
    Handlers = {h1}
    Faults = {"power"}
CHECK_DEADLOCK FALSE
INVARIANT ComesBack

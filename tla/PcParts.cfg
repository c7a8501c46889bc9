SPECIFICATION PcSpec
CONSTANTS
    Versions = {1, 2, 3}
    First = 1
    Broken = {2}
    Procs = {p1, p2, p3}
    NoProc = none
    Handlers = {"h1", "h2"}
    Faults = {"sharing", "stuck", "stop", "power"}
    Slow = 2
    Slower = 4
    NetTicks = 3
    MaxApps = 1
    CareFaults = 1
    SetupFaults = 3
    SetupRuns = 3
    UnixFaults = 1
    UnixRuns = 2
    Threads = {"window", "worker"}
    Kinds = {"viewer", "host"}
    MaxEdits = 3
    SettingsFaults = 2
    Writers = {"window"}
    MaxBytes = 2
    MaxLines = 7
    LogFaults = 2
    MaxJobs = 2
    MaxClicks = 2
    WindowFaults = 1
    Processes = {"window", "service", "setup"}
    FolderFaults = 2
SYMMETRY Copies
CHECK_DEADLOCK FALSE
INVARIANTS TypeOK InstalledIsStaged OneUpdate
INVARIANTS EngineIsRight FilesStay
PROPERTIES NeverOlder PcSteps

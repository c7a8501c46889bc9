SPECIFICATION MacSpec
CONSTANTS
  MaxConnects = 2
  MaxStreams = 2
  MaxJobs = 1
  Machines = {"a", "r"}
  Relays = {"r"}
  MaxChanges = 3
  DiscoverConnects = 1
  PCs = {"a", "b"}
  MaxStarts = 2
  HandoverFaults = 2
  MaxTag = 3
  UpdateFaults = 3
  Size = 3
  CacheFaults = 3
  Years = {1896, 1899, 1900, 1904, 1970, 1999, 2000, 2004, 2023, 2096, 2099, 2100}
  Targets = {0, 1, 2, 9, 10, 100, 499, 500, 511, 512, 513, 999, 1011, 1012, 1500, 2560, 3487,
    3488, 3489, 3999, 4000, 5000, 10000, 50000, 158987, 158988, 158989, 159000, 200000, 500000}
  Bytes = {0, 170, 255}
  MaxBody = 4
  Limit = 3
  MaxHeader = 1
  MaxHops = 3
  Capacity = 2
  MaxOutput = 4
CHECK_DEADLOCK FALSE
INVARIANTS TypeOK UpdateAlone OneAttempt LiveIsCurrent NoOrphan
INVARIANTS WindowIsRight ArrivesWhole SumsAreRight
PROPERTY MachinesStay

SPECIFICATION TrafficSpec
CONSTANTS
  MaxPastes = 1
  FreeMouse = {TRUE}
  ModSets = {{}, {"cmd"}, {"ctrl", "alt"}}
  Questions = {"power"}
  Sets = 2
  Spares = 3
  Late = 1
  MaxUnits = 4
  VideoFaults = 1
  Channels = 2
  MaxQueued = 6
  Keep = 4
  Preroll = 4
  InRate = 3
  OutRate = 2
  OutFrames = 2
  MaxFrames = 7
  MaxLost = 1
  PathChanges = 2
  Displays = 2
  DisplayChanges = 1
  DisplayFaults = 1
  ControlPeers = {"b"}
  ControlWorkers = {"w1", "w2"}
  ControlConnections = 2
  ControlRemembers = 2
  CachePeers = {"a", "b"}
  CacheWorkers = {"w1"}
  CacheConnections = 1
  CacheRemembers = 4
  Guests = {"b"}
  CacheLimit = 1
  TTL = 1
  MaxPower = 1
  MaxMoves = 2
  Networks = {"home", "cafe"}
  Settle = 3
  Limit = 6
  FreshFor = 12
  MaxTests = 1
  WakeFaults = 1
  Threads = {"refresh", "netcheck", "packet", "asks"}
  Macs = {"a", "b"}
  PairFaults = 2
  MaxTries = 3
  Versions = {1, 2, 3}
  First = 1
  Broken = {2}
  Procs = {"p1", "p2", "p3"}
  NoProc = "none"
  Handlers = {"h1", "h2"}
CHECK_DEADLOCK FALSE
INVARIANTS HandsLetGo PictureIsRight ServiceIsRight
INVARIANTS PairingIsRight ServedThroughout
PROPERTY TrafficSteps

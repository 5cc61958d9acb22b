SPECIFICATION Spec
CONSTANTS
  Names = {n1, n2}
  Conns = {c1, c2, c3}
  JobThreads = {j1}
  NullName = NullName
  NoName = NoName
  NoConn = NoConn
  NoJob = NoJob
  Main = main
  Kinds = {"LOGOUT", "USRBLNC"}
  StackTypes = {"none"}
  FreedTypes = {}
  Leavers = {}
  MaxFds = 3
  Capacity = 2
  MaxMessages = 2
  MaxJobs = 2
  MaxSignals = 0
SYMMETRY Symmetry
INVARIANTS
  TypeOK
  Attribution
  NobodyLockedIn
PROPERTIES
  ImplementsRegistry

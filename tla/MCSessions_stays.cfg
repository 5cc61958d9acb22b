SPECIFICATION Spec
CONSTANTS
  Names = {n1}
  Conns = {c1, c2}
  JobThreads = {j1}
  NullName = NullName
  NoName = NoName
  NoConn = NoConn
  NoJob = NoJob
  Main = main
  Kinds = {"LOGOUT"}
  StackTypes = {"none"}
  FreedTypes = {"none"}
  Leavers = {}
  MaxFds = 3
  Capacity = 1
  MaxMessages = 3
  MaxJobs = 3
  MaxSignals = 0
INVARIANTS
  OKMeansLoggedIn

SPECIFICATION FairSpec
CONSTANTS
  Names = {n1}
  Conns = {c1, c2}
  JobThreads = {j1}
  NullName = NullName
  NoName = NoName
  NoConn = NoConn
  NoJob = NoJob
  Main = main
  Kinds = {"LOGOUT"}
  StackTypes = {"none"}
  FreedTypes = {}
  Leavers = {c1}
  MaxFds = 3
  Capacity = 1
  MaxMessages = 2
  MaxJobs = 2
  MaxSignals = 1

  
PROPERTIES
  ImplementsRegistry
  
  
  

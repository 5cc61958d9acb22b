SPECIFICATION Spec
CONSTANTS
  Users = {u1}
  JobThreads = {j1, j2}
  Tick = tick
  NoUser = NoUser
  Durations = {0, 1, 2}
  Prices <- PricesWithInvalid
  Bids = {1}
  MallocInts = {0}
  Kinds = {"ANCREATE", "ANLIST", "USRLIST", "USRWINS", "USRSALES", "USRBLNC"}
  MaxAuctions = 3
  MaxRequests = 4
SYMMETRY Symmetry
INVARIANTS
  OutlivesByEarlierAuctions

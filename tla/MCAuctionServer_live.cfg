SPECIFICATION FairSpec
CONSTANTS
  Users = {u1, u2}
  JobThreads = {j1, j2}
  Tick = tick
  NoUser = NoUser
  Durations = {1}
  Prices = {1}
  Bids = {2}
  MallocInts = {0}
  Kinds = {"ANCREATE", "ANWATCH", "ANBID"}
  MaxAuctions = 2
  MaxRequests = 4
PROPERTIES
  RequestsComplete
  AuctionsClose

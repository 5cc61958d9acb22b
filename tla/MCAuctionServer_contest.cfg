SPECIFICATION Spec
CONSTANTS
  Users = {u1, u2, u3}
  JobThreads = {j1, j2}
  Tick = tick
  NoUser = NoUser
  Durations = {1, 2}
  Prices = {0}
  Bids = {1, 2}
  MallocInts = {0}
  Kinds = {"ANCREATE", "ANWATCH", "ANLEAVE", "ANBID"}
  MaxAuctions = 1
  MaxRequests = 6
SYMMETRY Symmetry
INVARIANTS
  BalancesMatchHistory
PROPERTIES
  ImplementsHouse
  
  ChargedIsFinal

SPECIFICATION Spec
CONSTANTS
  Users = {u1, u2}
  JobThreads = {j1, j2}
  Tick = tick
  NoUser = NoUser
  Durations = {1, 2}
  Prices = {1}
  Bids = {1, 2}
  MallocInts = {0}
  Kinds = {"ANCREATE", "ANWATCH", "ANBID"}
  MaxAuctions = 2
  MaxRequests = 5
SYMMETRY Symmetry
INVARIANTS
  TypeOK
  LocksExclusive
  BuyNowEndsAuction
  ListInIdOrder
  MoneyConserved
  AnsweredUnlessGone

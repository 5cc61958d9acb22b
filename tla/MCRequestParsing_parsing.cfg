SPECIFICATION Spec
CONSTANTS
  JobThreads = {j1, j2}
  Main = main
  NoMessage = NoMessage
  MaxMessages = 3
SYMMETRY Symmetry
CHECK_DEADLOCK FALSE
INVARIANTS
  TypeOK
  FirstFieldsOwn
  OwnFieldsUnlessInterrupted

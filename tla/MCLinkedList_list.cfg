SPECIFICATION Spec
CONSTANTS
  Nodes = {n1, n2, n3, n4}
  Vals = {1, 2}
  NoVal = NoVal
  Null = Null
  Wild = Wild
  NoCall = NoCall
  Inserts = {"InsertAtHead", "InsertAtTail", "InsertInOrder"}
  Removes = {"removeFront", "removeRear"}
  Indices <- SomeIndices
  MaxSeen = 6
SYMMETRY Symmetry
INVARIANTS
  TypeOK
  WellFormed
  
PROPERTIES
  ImplementsSequence

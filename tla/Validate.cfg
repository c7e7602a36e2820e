SPECIFICATION FairSpec
CONSTANTS
  Nodes = {n1, n2, n3}
  Names = {n1, n2, n3, other}
INVARIANTS
  TypeOK
  ResultRight
PROPERTY
  Terminates
CHECK_DEADLOCK FALSE

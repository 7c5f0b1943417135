SPECIFICATION Spec
CONSTANTS
  n1 = n1
  n2 = n2
  Sender = s0
  None = None
  Nodes = {n1, n2}
  Commands <- MCCommands
  Scopes <- MCScopes
  Tolerance = 10
INVARIANTS
  TypeOK
  DeliveredWithinExpected
  ReducersAgree
  SummaryIsInLog
  ObservedFlatters
PROPERTY
  Custody
CHECK_DEADLOCK FALSE

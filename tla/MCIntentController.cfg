SPECIFICATION FairSpec
CONSTANTS
  Specs <- MCSpecs
  None = None
  Absent = Absent
  NoStatus = NoStatus
  MaxChanges = 5
  MaxFaults = 2
  MaxRestarts = 1
  MaxRelists = 2
INVARIANT
  IdleMeansSettled
PROPERTIES
  ImplementsRegister
  EventuallySettled
CHECK_DEADLOCK FALSE

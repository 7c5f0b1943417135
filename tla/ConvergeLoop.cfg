SPECIFICATION Spec
CONSTANTS
  Scalars = {s1, s2}
  MuteScalars = {s2}
  Passwords = {p1}
  ChannelSets = {c1, c2}
  None = None
  Exporters = {TRUE, FALSE}
  MaxApplyAttempts = 2
  MaxFaults = 2
  MaxSteps = 7
INVARIANTS
  ConvergedMeansBooted
PROPERTIES
  ImplementsProvisioning
CHECK_DEADLOCK FALSE

SPECIFICATION Spec
CONSTANTS
  s1 = s1
  s2 = s2
  Scalars = {s1, s2}
  MuteScalars = {s2}
  Passwords = {p1}
  ChannelSets = {c1}
  None = None
  Specs <- PasswordSpecs
  Exporters = {FALSE}
  MaxApplyAttempts = 2
  MaxFaults = 1
  MaxEdits = 0
INVARIANT AttemptsBoundReboots
CHECK_DEADLOCK FALSE

SPECIFICATION FairSpec
CONSTANTS
  s1 = s1
  s2 = s2
  Scalars = {s1, s2}
  MuteScalars = {s2}
  Passwords = {p1}
  ChannelSets = {c1, c2}
  None = None
  Specs <- AllSpecs
  Exporters = {FALSE}
  MaxApplyAttempts = 4
  MaxFaults = 1
  MaxEdits = 1
PROPERTIES
  Settles
  DeletionCompletes
CHECK_DEADLOCK FALSE

SPECIFICATION Spec
CONSTANTS
  s1 = s1
  s2 = s2
  Scalars = {s1, s2}
  MuteScalars = {s2}
  Passwords = {p1, p2}
  ChannelSets = {c1}
  None = None
  Specs <- MuteSpecs
  Exporters = {FALSE}
  MaxApplyAttempts = 2
  MaxFaults = 0
  MaxEdits = 1
  MaxRaces = 1
INVARIANTS
  OverrunsAreRefusedWrites
  HashIsOfRadioPassword
CHECK_DEADLOCK FALSE
SYMMETRY SecretSymmetry

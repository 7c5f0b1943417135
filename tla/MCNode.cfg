SPECIFICATION Spec
CONSTANTS
  s1 = s1
  s2 = s2
  Scalars = {s1, s2}
  MuteScalars = {s2}
  Passwords = {p1, p2}
  ChannelSets = {c1, c2}
  None = None
  Specs <- ProvisionSpecs
  Exporters = {TRUE, FALSE}
  MaxApplyAttempts = 2
  MaxFaults = 1
  MaxEdits = 2
INVARIANTS
  TypeOK
  AttemptsAccounted
  AppliesBounded
  HashIsOfRadioPassword
  ReadyMeansPasswordOnRadio
  NeverForgotten
  GaugesForgotten
PROPERTIES
  ReadyIsForDeclaredSpec
CHECK_DEADLOCK FALSE
SYMMETRY SecretSymmetry

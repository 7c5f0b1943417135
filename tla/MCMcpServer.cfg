SPECIFICATION FairSpec
CONSTANTS
  None = None
  Blank = Blank
  Malformed = Malformed
  IllTyped = IllTyped
  Documents <- MCDocuments
  Missing = Missing
  Versions <- MCVersions
  Lines <- MCLines
  MaxLines = 2
  InPipe = 1
  OutPipe = 1
INVARIANTS
  EachAnsweredOnce
  SurfacesAgree
PROPERTY
  SessionEnds
\* A session ends.
CHECK_DEADLOCK FALSE

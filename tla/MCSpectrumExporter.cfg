SPECIFICATION ExporterSpec
CONSTANTS
  Bands <- MCBands
  Captures <- MCCaptures
  NoiseFloorPercentile = 50
  ThresholdMarginDB = 6
  PresentDutyPercent = 5
  SustainedDutyPercent = 60
  WidebandHz = 12
  DefaultStep = 4
  MaxSweeps = 2
  Absent = Absent
INVARIANTS
  TypeOK
  GaugesAreLastSweep
  NeverOlderThanStamped
  ReportIsMeasured
CHECK_DEADLOCK FALSE

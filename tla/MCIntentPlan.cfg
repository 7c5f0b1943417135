SPECIFICATION PlanSpec
CONSTANTS
  Names = {n1, n2, n3}
  None = None
  ApprovedSets <- MCApprovedSets
  Rates <- MCRates
  Payloads <- MCPayloads
  MaxNodes = 4
INVARIANTS
  RenderableIsRendered
  PercentFitsVerdict
  TimeOnAirIsSemtech
PROPERTY
  OverBudgetIsFinal
CHECK_DEADLOCK FALSE

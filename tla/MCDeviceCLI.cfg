SPECIFICATION Spec
CONSTANTS
  EnumFields = {"region"}
  OwnerFields = {"owner"}
  MqttTexts = {"root"}
  MqttFlags = {"json_enabled"}
  Texts = {"a", "b"}
  Keys = {"k1"}
  None = None
  NSlots = 2
  Declarations <- MCDeclarations
  RadioConfigs <- MCRadioConfigs
  RadioSlots <- MCRadioSlots
  MaxCalls = 2
  MaxFaults = 1
INVARIANTS
  DriftIsExact
  WrittenStaysConverged
  ErrorsToldApart
PROPERTIES
  AllOrNothing
  CallsReturn
CHECK_DEADLOCK FALSE

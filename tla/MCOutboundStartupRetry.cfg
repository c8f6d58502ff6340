CONSTANTS
  NoSetting = NoSetting
  None = None
  Absent <- NoSetting
  Settings <- MCSettings
  IntOf <- MCIntOf
  FloatTexts <- MCFloatTexts
SPECIFICATION Spec
INVARIANTS
  ServesOnlyWithValidRetryPolicy
CHECK_DEADLOCK FALSE

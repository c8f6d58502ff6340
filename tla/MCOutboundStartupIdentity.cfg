CONSTANTS
  NoSetting = NoSetting
  None = None
  Absent <- NoSetting
  Settings <- MCSettings
  IntOf <- MCIntOf
  FloatTexts <- MCFloatTexts
SPECIFICATION Spec
INVARIANTS
  PresentsConfiguredCertificates
CHECK_DEADLOCK FALSE

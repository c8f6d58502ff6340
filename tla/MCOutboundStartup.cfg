CONSTANTS
  NoSetting = NoSetting
  None = None
  Absent <- NoSetting
  Settings <- MCSettings
  IntOf <- MCIntOf
  FloatTexts <- MCFloatTexts
SPECIFICATION Spec
INVARIANTS
  TypeOK
  ShutdownAccounted
PROPERTY
  ServesOnlyWhenBuilt
CHECK_DEADLOCK FALSE

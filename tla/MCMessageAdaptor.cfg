\* MessageAdaptor on every patient built from the pools.
CONSTANTS
  GivenPool <- MCGivenPool
  LinePool <- MCLinePool
  Family = "Smith"
  City = "Leeds"
  District = "Yorkshire"
  PostCode = "LS1 1AA"
  Prefix = "Mr"
  NhsNumber = "9000000009"
  BirthDate = "1990-01-01"
  None = None

SPECIFICATION Spec

\* The adaptor is one call: after it returns or raises nothing is left to do.
CHECK_DEADLOCK FALSE

INVARIANTS
  AcceptsExactlyAdaptable
  AdaptedAsReference

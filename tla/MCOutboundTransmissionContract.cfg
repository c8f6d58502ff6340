\* OutboundTransmission under the curl client against DeliveryContract.
CONSTANTS
  MaxRetries <- MCMaxRetries
  Codes <- MCCodes
  HttpClient = "curl"

SPECIFICATION Spec

\* make_request returns: a finished call has no further step.
CHECK_DEADLOCK FALSE

PROPERTY
  ContractSpec

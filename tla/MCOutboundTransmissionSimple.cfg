\* OutboundTransmission under the simple client: a TLS failure is raised
\* as SSLError and a refused connection as OSError.
CONSTANTS
  MaxRetries <- MCMaxRetries
  Codes <- MCCodes
  HttpClient = "simple"
SPECIFICATION Spec
\* make_request returns: a finished call is a final state, not a deadlock.
CHECK_DEADLOCK FALSE
INVARIANTS
  
  
  TransientFailureOnlyAfterBudget
  OutcomeReflectsLastAttempt


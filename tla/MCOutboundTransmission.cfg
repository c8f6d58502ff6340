CONSTANTS
  MaxRetries <- MCMaxRetries
  Codes <- MCCodes
  HttpClient = "curl"
SPECIFICATION Spec
\* make_request returns: a finished call is a final state, not a deadlock.
CHECK_DEADLOCK FALSE
INVARIANTS
  TypeOK
  NoRetryAfterPeerResponse
  TransientFailureOnlyAfterBudget
  OutcomeReflectsLastAttempt


SPECIFICATION FairProcessSpec
CONSTANTS
  Calls = {c1, c2, c3}
  Streams = {c3}
  Nameless = {c2}
  NoName = NoName
  Networks = {n1}
  None = None
  NotGiven = NotGiven
  Malformed = Malformed
  Conns <- MCConns
  ConnOf <- MCConnOf
  CommonName <- MCCommonName
INVARIANTS
  GatewayTypeOK
  HandlersServeTheirUser
  ContextSuffices
  RejectionsAreTraceable
  ProcessTypeOK
  ServesAsConfigured
PROPERTIES
  SignalEndsProcess
CHECK_DEADLOCK FALSE

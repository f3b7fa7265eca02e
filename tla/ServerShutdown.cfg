SPECIFICATION ProcessSpec
CONSTANTS
  Calls = {c1}
  Streams = {}
  Nameless = {}
  NoName = NoName
  Networks = {n1}
  None = None
  NotGiven = NotGiven
  Malformed = Malformed
  Conns <- MCConns
  ConnOf <- MCConnOf
  CommonName <- MCCommonName
INVARIANTS
  ShutdownIsComplete
CHECK_DEADLOCK FALSE

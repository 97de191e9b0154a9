\* Every flag combination and every outcome of every library call.
CONSTANTS
  None = None
SPECIFICATION Spec
\* The process exits.
CHECK_DEADLOCK FALSE
INVARIANTS
  NoSessionLeak
  ExitZeroMeansAuthenticated

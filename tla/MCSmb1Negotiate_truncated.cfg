\* An NT LM 0.12 reply whose tail is lost.
CONSTANTS
  None = None
  NoDialect = NoDialect
  Refused = Refused
  Failed = Failed
  Pending = Pending
  ServerReplies = {"ntlm"}
  Drops <- MCDrops
SPECIFICATION Spec
\* One negotiation per connection: the exchange stops once decoded.
CHECK_DEADLOCK FALSE
INVARIANTS
  BestEffortFields

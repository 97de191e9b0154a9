\* The replies the decoder is written for (error, no dialect, core, NT LM
\* 0.12 with a challenge), whole or with any cut of their tail.
CONSTANTS
  None = None
  NoDialect = NoDialect
  Refused = Refused
  Failed = Failed
  Pending = Pending
  ServerReplies = {"error", "none", "core", "ntlm"}
  Drops <- MCDrops
SPECIFICATION Spec
\* One negotiation per connection: the exchange stops once decoded.
CHECK_DEADLOCK FALSE
INVARIANTS
  TypeOK
  NegotiateNeverPanics
  CompleteResponseDecoded
PROPERTIES
  NegotiationRefined

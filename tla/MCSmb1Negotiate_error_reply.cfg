\* A whole error reply of a server that refuses the request.
CONSTANTS
  None = None
  NoDialect = NoDialect
  Refused = Refused
  Failed = Failed
  Pending = Pending
  ServerReplies = {"error"}
  Drops = {0}
SPECIFICATION Spec
\* One negotiation per connection: the exchange stops once decoded.
CHECK_DEADLOCK FALSE
INVARIANTS
  ErrorReplyDecoded

\* A whole NT LM 0.12 reply with extended security, which Flags2 0xc801 asks for.
CONSTANTS
  None = None
  NoDialect = NoDialect
  Refused = Refused
  Failed = Failed
  Pending = Pending
  ServerReplies = {"ntlm_ext"}
  Drops = {0}
SPECIFICATION Spec
\* One negotiation per connection: the exchange stops once decoded.
CHECK_DEADLOCK FALSE
INVARIANTS
  CompleteResponseDecoded

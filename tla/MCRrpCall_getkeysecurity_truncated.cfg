\* GetKeySecurity, with the transport losing bytes from the end of the reply.
CONSTANTS
  NIL = NIL
  Ops = {"GetKeySecurity"}
  HKeyLens = {20}
  ReqStrings <- MCReqStringsOne
  ReqMaxLengths = {0}
  LastWriteTimes <- MCLastWriteTimes
  ServerNames <- MCServerNames
  ServerClasses <- MCServerClasses
  ReturnCodes = {0, 2}
  EmptyForms = {"null"}
  ServerValues <- MCServerValues
  MultiSzForms <- MCMultiSzForms
  DataMaxLens <- MCDataMaxLens
  RpcNulTerminated = {FALSE}
  Dispositions <- MCDispositions
  Descriptors <- MCDescriptors
  DescriptorSizes <- MCDescriptorSizes
  Drops = {0, 1}
SPECIFICATION Spec
INVARIANT NoSilentTruncation

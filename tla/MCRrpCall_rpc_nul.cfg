\* The server NUL-terminates the RPC_UNICODE_STRING value name of EnumValue, as the
\* comment on BaseRegEnumValueRes says Windows does.
CONSTANTS
  NIL = NIL
  Ops = {"EnumValue"}
  HKeyLens = {20}
  ReqStrings <- MCReqStringsEmpty
  ReqMaxLengths = {0}
  LastWriteTimes <- MCLastWriteTimes
  ServerNames <- MCServerNames
  ServerClasses <- MCServerClasses
  ReturnCodes = {0, 2}
  EmptyForms = {"null"}
  ServerValues <- MCServerValues
  MultiSzForms <- MCMultiSzForms
  DataMaxLens <- MCDataMaxLens
  RpcNulTerminated = {FALSE, TRUE}
  Dispositions <- MCDispositions
  Descriptors <- MCDescriptors
  DescriptorSizes <- MCDescriptorSizes
  Drops = {0}
SPECIFICATION Spec
INVARIANT PayloadDecoded

\* The server sends an empty class as a pointer to an empty array.
CONSTANTS
  NIL = NIL
  Ops = {"EnumKey"}
  HKeyLens = {20}
  ReqStrings <- MCReqStringsEmpty
  ReqMaxLengths = {0}
  LastWriteTimes <- MCLastWriteTimes
  ServerNames <- MCServerNames
  ServerClasses <- MCServerClasses
  ReturnCodes = {0, 2}
  EmptyForms = {"null", "empty"}
  ServerValues <- MCServerValues
  MultiSzForms <- MCMultiSzForms
  DataMaxLens <- MCDataMaxLens
  RpcNulTerminated = {FALSE}
  Dispositions <- MCDispositions
  Descriptors <- MCDescriptors
  DescriptorSizes <- MCDescriptorSizes
  Drops = {0}
SPECIFICATION Spec
INVARIANT ReturnCodeDecoded

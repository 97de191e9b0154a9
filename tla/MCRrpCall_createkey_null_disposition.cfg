\* CreateKey with Disposition 0: the client sends a null lpdwDisposition.
CONSTANTS
  NIL = NIL
  Ops = {"CreateKey"}
  HKeyLens = {20}
  ReqStrings <- MCReqStringsOne
  ReqMaxLengths = {0}
  LastWriteTimes <- MCLastWriteTimes
  ServerNames <- MCServerNames
  ServerClasses <- MCServerClasses
  ReturnCodes = {0, 2}
  EmptyForms = {"null"}
  ServerValues <- MCServerValues
  MultiSzForms <- MCMultiSzForms
  DataMaxLens <- MCDataMaxLens
  RpcNulTerminated = {FALSE}
  Dispositions <- MCDispositionsNull
  Descriptors <- MCDescriptors
  DescriptorSizes <- MCDescriptorSizes
  Drops = {0}
SPECIFICATION Spec
INVARIANT WholeResponseAccepted

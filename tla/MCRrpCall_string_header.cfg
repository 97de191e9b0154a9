\* A caller string outside ASCII ("e-acute") with MaxLength 32768: Length is
\* written from Go's UTF-8 byte count and MaxLength*2 wraps in uint16.
CONSTANTS
  NIL = NIL
  Ops = {"OpenKey"}
  HKeyLens = {20}
  ReqStrings <- MCReqStringsAccent
  ReqMaxLengths <- MCReqMaxLengthsWrap
  LastWriteTimes <- MCLastWriteTimes
  ServerNames <- MCServerNames
  ServerClasses <- MCServerClasses
  ReturnCodes = {0, 2}
  EmptyForms = {"null"}
  ServerValues <- MCServerValues
  MultiSzForms <- MCMultiSzForms
  DataMaxLens <- MCDataMaxLens
  RpcNulTerminated = {FALSE}
  Dispositions <- MCDispositions
  Descriptors <- MCDescriptors
  DescriptorSizes <- MCDescriptorSizes
  Drops = {0}
SPECIFICATION Spec
INVARIANT StringHeaderConsistent

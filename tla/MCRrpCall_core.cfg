\* All operations but GetKeySecurity over ASCII strings of the caller; the server sends an
\* empty string as a null pointer and RPC strings without a NUL.
CONSTANTS
  NIL = NIL
  Ops = {"OpenRootKey", "CloseKey", "OpenKey", "DeleteKey", "DeleteValue", "EnumKey", "QueryInfoKey",
         "CreateKey", "SetKeySecurity", "SaveKey", "EnumValue", "QueryValue", "SetValue"}
  HKeyLens = {19, 20}
  ReqStrings <- MCReqStringsAscii
  ReqMaxLengths <- MCReqMaxLengths
  LastWriteTimes <- MCLastWriteTimesNil
  ServerNames <- MCServerNames
  ServerClasses <- MCServerClasses
  ReturnCodes = {0, 2}
  EmptyForms = {"null"}
  ServerValues <- MCServerValues
  MultiSzForms <- MCMultiSzForms
  DataMaxLens <- MCDataMaxLens
  RpcNulTerminated = {FALSE}
  Dispositions <- MCDispositions
  Descriptors <- MCDescriptors
  DescriptorSizes <- MCDescriptorSizes
  Drops <- MCDrops
SPECIFICATION Spec
INVARIANTS
  TypeOK
  FieldsAligned
  RefIdsAscending
  StringHeaderConsistent
  ReturnCodeDecoded
  PayloadDecoded
  NoSilentTruncation
  WholeResponseAccepted
  MultiSzDecoded
  MoreDataRetryFits
PROPERTIES
  ReMarshalStable

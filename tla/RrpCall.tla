------------------------------- MODULE RrpCall -------------------------------
(***************************************************************************)
(* One client of the MS-RRP codec making calls one after another over the  *)
(* named pipe.  A call is: the caller fills a request struct (Build), the  *)
(* codec marshals it (Marshal), the server answers with the NDR bytes of a *)
(* response, which the transport may hand back short (Respond), the codec  *)
(* unmarshals them (Unmarshal).  The caller may marshal the same struct    *)
(* again for a further call, as a retry or a loop over an index does.      *)
(*                                                                         *)
(* The server is the environment.  It encodes a response by the NDR rules  *)
(* for the IDL of the operation, with the choices NDR leaves it: an empty  *)
(* string as a null Buffer pointer or as a pointer to an array of no       *)
(* elements, and an RPC_UNICODE_STRING with or without a NUL.              *)
(***************************************************************************)
EXTENDS RrpMessages

CONSTANTS
  Ops,              \* operations the caller calls
  HKeyLens,         \* lengths of the HKey slices the caller passes
  ReqStrings,       \* values of the caller's string fields (code points)
  ReqMaxLengths,    \* values of their MaxLength
  LastWriteTimes,   \* values of BaseRegEnumKeyReq.LastWriteTime (NIL or a FILETIME)
  ServerNames,      \* key names the server returns (non-empty)
  ServerClasses,    \* class names the server returns
  ReturnCodes,      \* status codes the server returns
  EmptyForms,       \* "null" and/or "empty": how the server sends an empty string
  Dispositions,     \* values of BaseRegCreateKeyReq.Disposition
  Descriptors,      \* self-relative security descriptors the caller sends
  DescriptorSizes,  \* InSecurityDescriptor of BaseRegSetKeySecurityReq
  ServerValues,     \* REG_MULTI_SZ values the server holds (lists of strings)
  MultiSzForms,     \* how those values are terminated in the data the server stores
  DataMaxLens,      \* MaxLen the caller allocates for the data of a value
  RpcNulTerminated, \* whether the server NUL-terminates RPC_UNICODE_STRINGs
  Drops             \* bytes the transport may lose from the end of a response

AllOps == {"OpenRootKey", "CloseKey", "OpenKey", "DeleteKey", "DeleteValue",
           "EnumKey", "QueryInfoKey", "CreateKey", "GetKeySecurity", "SetKeySecurity",
           "SaveKey", "EnumValue", "QueryValue", "SetValue"}

ASSUME Ops \subseteq AllOps
ASSUME EmptyForms \subseteq {"null", "empty"} /\ EmptyForms # {}
ASSUME RpcNulTerminated \subseteq BOOLEAN /\ RpcNulTerminated # {}
ASSUME << >> \notin ServerNames
ASSUME MultiSzForms \subseteq {"double", "single", "unterminated"}
ASSUME \A l \in ServerValues : \A i \in DOMAIN l : l[i] # << >> /\ \A j \in DOMAIN l[i] : l[i][j] # 0

VARIABLES
  op,      \* the operation of the current call
  req,     \* the caller's request struct
  sent,    \* [status, toks] of the last MarshalBinary of req
  res,     \* the response the server sent, and the bytes lost from it
  resBuf,  \* the bytes the transport handed to UnmarshalBinary
  dec,     \* the result of UnmarshalBinary
  strs,    \* the strings the caller's fromUnicodeStrArray returned
  phase,   \* "idle", "built", "sent", "failed", "answered", "decoded", "parsed"
  retry,   \* the call is the caller's retry of a value call after ERROR_MORE_DATA
  held     \* the value the server answered the value call with (history)

vars == << op, req, sent, res, resBuf, dec, strs, phase, retry, held >>

---------------------------------------------------------------------------
(* The caller's inputs.                                                    *)

DesiredAccess == 131097   \* KEY_READ, 0x20019
Handle(n) == [i \in 1..n |-> 7]
HKeys == {Handle(n) : n \in HKeyLens}
Strs == [S : ReqStrings, MaxLength : ReqMaxLengths]

(* SECURITY_INFORMATION: OWNER, GROUP and DACL. *)
SecurityInformation == 7
(* The buffer size a caller of GetKeySecurity offers; the data is unused. *)
GetKeySecuritySize == 4096
SecDescs == [SecurityDescriptor : Descriptors, InSecurityDescriptor : DescriptorSizes,
             OutSecurityDescriptor : {0}]
SecAttrs == [Length : {0}, InheritHandle : {0, 1},
             SecurityDescriptor : [SecurityDescriptor : Descriptors \cup {NIL},
                                   InSecurityDescriptor : {0}, OutSecurityDescriptor : {0}]]

REG_DWORD == 4
REG_MULTI_SZ == 7

(* The bytes of a REG_MULTI_SZ list l as stored: every string followed by  *)
(* a NUL and the list by another ("double"), the last NUL missing          *)
(* ("single"), or the last string's NUL missing too ("unterminated").      *)
EncodeMultiSz(l, form) ==
  LET term(i) == IF i = Len(l) /\ form = "unterminated" THEN << >> ELSE << 0, 0 >>
  IN  FlattenSeq([i \in DOMAIN l |-> ToUnicode(l[i]) \o term(i)])
        \o (IF form = "double" THEN << 0, 0 >> ELSE << >>)

(* The values the server holds: the REG_MULTI_SZ ones and a REG_DWORD 1. *)
SrvValues ==
  {[Type |-> REG_MULTI_SZ, List |-> l, Data |-> EncodeMultiSz(l, f)] : l \in ServerValues, f \in MultiSzForms}
    \cup {[Type |-> REG_DWORD, List |-> << >>, Data |-> LE(1, 4)]}

NoValue == [Type |-> 0, List |-> << >>, Data |-> << >>]

Requests(o) ==
  CASE o = "OpenRootKey"  -> [ServerName : {0}, DesiredAccess : {DesiredAccess}]
    [] o = "CloseKey"     -> [HKey : HKeys]
    [] o = "OpenKey"      -> [HKey : HKeys, SubKey : Strs, Options : {0},
                              DesiredAccess : {DesiredAccess}]
    [] o = "DeleteKey"    -> [HKey : HKeys, SubKey : Strs]
    [] o = "DeleteValue"  -> [HKey : HKeys, ValueName : Strs]
    [] o = "EnumKey"      -> [HKey : HKeys, Index : {0}, NameIn : Strs, ClassIn : Strs,
                              LastWriteTime : LastWriteTimes]
    [] o = "QueryInfoKey" -> [HKey : HKeys, ClassIn : Strs]
    [] o = "CreateKey"    -> [HKey : HKeys, SubKey : Strs, Class : Strs, Options : {0},
                              DesiredAccess : {DesiredAccess}, SecurityAttr : SecAttrs \cup {NIL},
                              Disposition : Dispositions]
    [] o = "GetKeySecurity" -> [HKey : HKeys, SecurityInformation : {SecurityInformation},
                                SecurityDescriptorIn : [SecurityDescriptor : {NIL},
                                                        InSecurityDescriptor : {GetKeySecuritySize},
                                                        OutSecurityDescriptor : {0}]]
    [] o = "SetKeySecurity" -> [HKey : HKeys, SecurityInformation : {SecurityInformation},
                                SecurityDescriptorIn : SecDescs]
    [] o = "SaveKey"      -> [HKey : HKeys, FileName : Strs, SecurityAttributes : SecAttrs]
    [] o = "EnumValue"    -> [HKey : HKeys, Index : {0}, NameIn : Strs, Type : {0}, Data : {<< >>},
                              MaxLen : DataMaxLens, DataLen : {0}]
    [] o = "QueryValue"   -> [HKey : HKeys, ValueName : Strs, Type : {0}, Data : {<< >>},
                              MaxLen : DataMaxLens, DataLen : {0}]
    [] o = "SetValue"     -> [HKey : HKeys, ValueName : Strs, Type : {REG_MULTI_SZ},
                              Data : {EncodeMultiSz(l, "double") : l \in ServerValues}, DataLen : {0}]

(* The MarshalBinary and UnmarshalBinary the client calls for each op. *)
Marshal(o, r) ==
  CASE o = "OpenRootKey"  -> MarshalOpenRootKeyReq(r)
    [] o = "CloseKey"     -> MarshalBaseRegCloseKeyReq(r)
    [] o = "OpenKey"      -> MarshalBaseRegOpenKeyReq(r)
    [] o = "DeleteKey"    -> MarshalHandleAndString(r, "SubKey")
    [] o = "DeleteValue"  -> MarshalHandleAndString(r, "ValueName")
    [] o = "EnumKey"      -> MarshalBaseRegEnumKeyReq(r)
    [] o = "QueryInfoKey" -> MarshalBaseRegQueryInfoKeyReq(r)
    [] o = "CreateKey"    -> MarshalBaseRegCreateKeyReq(r)
    [] o \in {"GetKeySecurity", "SetKeySecurity"} -> MarshalKeySecurityReq(r)
    [] o = "SaveKey"      -> MarshalBaseRegSaveKeyReq(r)
    [] o = "EnumValue"    -> MarshalBaseRegEnumValueReq(r)
    [] o = "QueryValue"   -> MarshalBaseRegQueryValueReq(r)
    [] o = "SetValue"     -> MarshalBaseRegSetValueReq(r)

Unmarshal(o, buf) ==
  CASE o \in {"OpenRootKey", "CloseKey", "OpenKey"} -> UnmarshalOpenKeyRes(buf)
    [] o \in {"DeleteKey", "DeleteValue", "SetKeySecurity", "SaveKey", "SetValue"} ->
         UnmarshalReturnCode(buf)
    [] o = "EnumKey"                                 -> UnmarshalBaseRegEnumKeyRes(buf)
    [] o = "QueryInfoKey"                            -> UnmarshalBaseRegQueryInfoKeyRes(buf)
    [] o = "CreateKey"                               -> UnmarshalBaseRegCreateKeyRes(buf)
    [] o = "GetKeySecurity"                          -> UnmarshalBaseRegGetKeySecurityRes(buf)
    [] o = "EnumValue"                               -> UnmarshalBaseRegEnumValueRes(buf)
    [] o = "QueryValue"                              -> UnmarshalBaseRegQueryValueRes(buf)

---------------------------------------------------------------------------
(* The server: NDR encoding of the responses.                              *)

SrvHKey == [i \in 1..20 |-> 9]
FileTime == << 11, 12 >>
KeyInfo == [i \in 1..9 |-> i]   \* SubKeys .. SecurityDescriptor, LastWriteTime
(* The key's descriptor: a self-relative header (revision 1, control      *)
(* SE_SELF_RELATIVE | SE_DACL_PRESENT, no owner, group or ACLs).           *)
SrvDescriptor == << 1, 0, 4, 128 >> \o [i \in 1..16 |-> 0]
ERROR_INSUFFICIENT_BUFFER == 122
ERROR_MORE_DATA == 234

HasTok(toks, g, k) == \E i \in DOMAIN toks : toks[i].g = g /\ toks[i].k = k
Tok(toks, g, k) == toks[CHOOSE i \in DOMAIN toks : toks[i].g = g /\ toks[i].k = k]

(* The responses the server may send to the request whose tokens are toks:*)
(* CreateKey returns a Disposition (created or opened) only if the client *)
(* sent a non-null lpdwDisposition; GetKeySecurity echoes the client's    *)
(* cbInSecurityDescriptor and fails when the descriptor does not fit.      *)
(* The answers to EnumValue and QueryValue for value v and a buffer of     *)
(* cbData bytes: Strings is the name (EnumValue) and the data sent,       *)
(* Scalars the Type, lpcbData and lpcbLen sent.  Data that does not fit    *)
(* is ERROR_MORE_DATA with the size needed and nothing sent; any other     *)
(* failure sends no type and no data.                                      *)
ValueResponses(o, v, cbData) ==
  LET names == IF o = "EnumValue" THEN {<< n >> : n \in ServerNames} ELSE {<< >>}
      rcs   == IF Len(v.Data) > cbData THEN {ERROR_MORE_DATA} ELSE ReturnCodes
  IN  {[ReturnCode |-> rc, HKey |-> << >>, List |-> v.List,
        Strings |-> nm \o << IF rc = 0 THEN v.Data ELSE << >> >>,
        Scalars |-> CASE rc = 0               -> << v.Type, Len(v.Data), Len(v.Data) >>
                      [] rc = ERROR_MORE_DATA -> << v.Type, Len(v.Data), 0 >>
                      [] OTHER                -> << 0, 0, 0 >>] : rc \in rcs, nm \in names}

(* The value a value call reads: any the server holds on a first call, the *)
(* one it answered before on a retry (no other caller writes it between).  *)
(* Other calls read no value.                                              *)
ServerHolds ==
  IF retry \/ op \notin {"EnumValue", "QueryValue"} THEN {held} ELSE SrvValues

Responses(o, toks, v) ==
  CASE o \in {"OpenRootKey", "CloseKey", "OpenKey"} ->
         [ReturnCode : ReturnCodes, Strings : {<< >>}, Scalars : {<< >>}, HKey : {SrvHKey}]
    [] o \in {"DeleteKey", "DeleteValue"} ->
         [ReturnCode : ReturnCodes, Strings : {<< >>}, Scalars : {<< >>}, HKey : {<< >>}]
    [] o = "EnumKey" ->
         [ReturnCode : ReturnCodes, Strings : {<< n, c >> : n \in ServerNames, c \in ServerClasses},
          Scalars : {FileTime}, HKey : {<< >>}]
    [] o = "QueryInfoKey" ->
         [ReturnCode : ReturnCodes, Strings : {<< c >> : c \in ServerClasses},
          Scalars : {KeyInfo}, HKey : {<< >>}]
    [] o = "CreateKey" ->
         [ReturnCode : ReturnCodes, Strings : {<< >>}, HKey : {SrvHKey},
          Scalars : IF HasTok(toks, "Disposition", "ref") THEN {<< 1 >>, << 2 >>} ELSE {<< >>}]
    [] o = "GetKeySecurity" ->
         LET cbIn == Tok(toks, "SecurityDescriptorIn", "cbIn").v
         IN  [ReturnCode : IF cbIn >= Len(SrvDescriptor) THEN ReturnCodes
                           ELSE {ERROR_INSUFFICIENT_BUFFER},
              Strings : {<< SrvDescriptor >>}, Scalars : {<< cbIn, Len(SrvDescriptor) >>},
              HKey : {<< >>}]
    [] o \in {"EnumValue", "QueryValue"} ->
         ValueResponses(o, v, Tok(toks, "lpData", "cbIn").v)
    [] o \in {"SetKeySecurity", "SaveKey", "SetValue"} ->
         [ReturnCode : ReturnCodes, Strings : {<< >>}, Scalars : {<< >>}, HKey : {<< >>}]

(* The deferred array of an RPC_UNICODE_STRING of UTF-16LE bytes u: a null *)
(* pointer for an empty string in the "null" form.                         *)
SrvArray(w, g, u, form) ==
  LET n  == Len(u) \div 2
      w1 == Put(Put(w, g, "len", 2, 2 * n), g, "maxlen", 2, 2 * n)
  IN  IF n = 0 /\ form = "null" THEN Put(w1, g, "null", 4, 0)
      ELSE PutBytes(PutBytes(Put(Put(Put(PutRef(w1, g), g, "maxcount", 4, n), g, "offset", 4, 0),
                                 g, "count", 4, n),
                             g, "chars", u),
                    g, "pad", [i \in 1..((4 - (Len(u) % 4)) % 4) |-> 0])

(* An RPC_UNICODE_STRING s, with a NUL if nul, and its deferred array. *)
SrvString(w, g, s, nul, form) == SrvArray(w, g, ToUnicode(IF nul /\ s # << >> THEN Append(s, 0) ELSE s), form)

PutUint32s(w, g, vs) ==
  LET ws[i \in 0..Len(vs)] == IF i = 0 THEN w ELSE Put(ws[i - 1], g, "u32", 4, vs[i])
  IN  ws[Len(vs)]

(* The value fields of an EnumValue or QueryValue response: lpType, lpData *)
(* (MaxCount the caller's lpcbData), lpcbData and lpcbLen, each behind a   *)
(* non-null referent id as the caller's pointers were non-null.            *)
SrvValueFields(w, r, cbData) ==
  LET d  == r.Strings[Len(r.Strings)]
      ty == Put(PutRef(w, "lpType"), "lpType", "u32", 4, r.Scalars[1])
      da == PutBytes(PutBytes(PutUint32s(PutRef(ty, "lpData"), "lpData", << cbData, 0, Len(d) >>),
                              "lpData", "bytes", d), "lpData", "pad", Pad4(Len(d)))
  IN  Put(PutRef(Put(PutRef(da, "lpData"), "lpData", "u32", 4, r.Scalars[2]), "lpData"),
          "lpData", "u32", 4, r.Scalars[3])

SrvEncode(o, r, form, nul, toks) ==
  LET body ==
        CASE o \in {"OpenRootKey", "CloseKey", "OpenKey"} -> PutBytes(NewWriter(<< >>), "HKey", "hkey", r.HKey)
          [] o \in {"DeleteKey", "DeleteValue", "SetKeySecurity", "SaveKey", "SetValue"} -> NewWriter(<< >>)
          [] o = "EnumKey" ->
               LET nw == SrvString(NewWriter(<< >>), "NameOut", r.Strings[1], TRUE, form)
                   cw == SrvString(PutRef(nw, "ClassOut"), "ClassOut", r.Strings[2], TRUE, form)
               IN  PutUint32s(PutRef(cw, "LastWriteTime"), "LastWriteTime", r.Scalars)
          [] o = "QueryInfoKey" ->
               PutUint32s(SrvString(NewWriter(<< >>), "ClassOut", r.Strings[1], nul, form), "KeyInfo", r.Scalars)
          [] o = "CreateKey" ->
               LET hk == PutBytes(NewWriter(<< >>), "HKey", "hkey", r.HKey)
               IN  IF r.Scalars = << >> THEN Put(hk, "Disposition", "null", 4, 0)
                   ELSE Put(PutRef(hk, "Disposition"), "Disposition", "u32", 4, r.Scalars[1])
          [] o = "GetKeySecurity" ->
               \* RPC_SECURITY_DESCRIPTOR: the pointer, cbIn, cbOut, and the
               \* array with size_is(cbIn), length_is(cbOut); null on failure.
               LET g == "SecurityDescriptorOut"
                   d == r.Strings[1]
               IN  IF r.ReturnCode # 0
                   THEN PutUint32s(Put(NewWriter(<< >>), g, "null", 4, 0), g, << r.Scalars[1], 0 >>)
                   ELSE PutBytes(PutUint32s(PutRef(NewWriter(<< >>), g), g,
                                            << r.Scalars[1], Len(d), r.Scalars[1], 0, Len(d) >>),
                                 g, "bytes", d \o Pad4(Len(d)))
          [] o = "EnumValue" ->
               SrvValueFields(SrvString(NewWriter(<< >>), "NameOut", r.Strings[1], nul, form), r,
                              Tok(toks, "lpData", "cbIn").v)
          [] o = "QueryValue" -> SrvValueFields(NewWriter(<< >>), r, Tok(toks, "lpData", "cbIn").v)
  IN  Bytes(Put(body, "ReturnCode", "u32", 4, r.ReturnCode).toks)

---------------------------------------------------------------------------

NoSent == [status |-> "none", toks |-> << >>]
NoRes  == [ReturnCode |-> 0, Strings |-> << >>, Scalars |-> << >>, HKey |-> << >>, List |-> << >>,
           drop |-> 0]
NoDec  == Failure("none")

Init ==
  /\ op = "none"
  /\ req = << >>
  /\ sent = NoSent
  /\ res = NoRes
  /\ resBuf = << >>
  /\ dec = NoDec
  /\ strs = << >>
  /\ phase = "idle"
  /\ retry = FALSE
  /\ held = NoValue

(* The caller fills a fresh request struct for operation o. *)
Build(o, r) ==
  /\ phase \in {"idle", "failed", "decoded", "parsed"}
  /\ op' = o
  /\ req' = r
  /\ sent' = NoSent
  /\ res' = NoRes
  /\ resBuf' = << >>
  /\ dec' = NoDec
  /\ strs' = << >>
  /\ phase' = "built"
  /\ retry' = FALSE
  /\ held' = NoValue

(* MarshalBinary of the struct; on success the bytes go to the server.    *)
(* The struct keeps the updates the string writers make to it.             *)
MarshalReq ==
  LET m == Marshal(op, req)
  IN  /\ phase \in {"built", "decoded", "parsed"}
      /\ sent' = [status |-> m.status, toks |-> m.toks]
      /\ req' = m.req
      /\ res' = NoRes
      /\ resBuf' = << >>
      /\ dec' = NoDec
      /\ strs' = << >>
      /\ phase' = IF m.status = "ok" THEN "sent" ELSE "failed"
      /\ UNCHANGED << op, retry, held >>

(* The server answers, from value v for a value call; the transport may   *)
(* lose bytes at the end.                                                  *)
Respond(r, form, nul, drop, v) ==
  LET b == SrvEncode(op, r, form, nul, sent.toks)
  IN  /\ phase = "sent"
      /\ drop <= Len(b)
      /\ res' = [ReturnCode |-> r.ReturnCode, Strings |-> r.Strings, Scalars |-> r.Scalars,
                 HKey |-> r.HKey, List |-> IF "List" \in DOMAIN r THEN r.List ELSE << >>,
                 drop |-> drop]
      /\ resBuf' = SubSeq(b, 1, Len(b) - drop)
      /\ phase' = "answered"
      /\ held' = v
      /\ UNCHANGED << op, req, sent, dec, strs, retry >>

(* UnmarshalBinary of the bytes received. *)
UnmarshalRes ==
  /\ phase = "answered"
  /\ dec' = Unmarshal(op, resBuf)
  /\ phase' = "decoded"
  /\ UNCHANGED << op, req, sent, res, resBuf, strs, retry, held >>

(* The caller reads the REG_MULTI_SZ data of a value it got with           *)
(* fromUnicodeStrArray.                                                     *)
ParseMultiSz ==
  /\ phase = "decoded"
  /\ op \in {"EnumValue", "QueryValue"}
  /\ dec.status = "ok" /\ dec.ReturnCode = 0 /\ dec.Scalars[1] = REG_MULTI_SZ
  /\ strs' = FromUnicodeStrArray(dec.Strings[Len(dec.Strings)])
  /\ phase' = "parsed"
  /\ UNCHANGED << op, req, sent, res, resBuf, dec, retry, held >>

(* The caller of a value call that failed with ERROR_MORE_DATA calls again *)
(* with a buffer of the size the response reported: the request's MaxLen   *)
(* (sent as lpcbData) becomes the response's DataLen, the field            *)
(* UnmarshalBinary fills from lpcbData.                                    *)
RetryMoreData ==
  /\ phase = "decoded"
  /\ op \in {"EnumValue", "QueryValue"}
  /\ dec.status = "ok" /\ dec.ReturnCode = ERROR_MORE_DATA
  /\ req' = [req EXCEPT !.MaxLen = dec.Scalars[2]]
  /\ sent' = NoSent
  /\ res' = NoRes
  /\ resBuf' = << >>
  /\ dec' = NoDec
  /\ strs' = << >>
  /\ phase' = "built"
  /\ retry' = TRUE
  /\ UNCHANGED << op, held >>

Next ==
  \/ \E o \in Ops : \E r \in Requests(o) : Build(o, r)
  \/ MarshalReq
  \/ /\ phase = "sent"
     /\ \E v \in ServerHolds, form \in EmptyForms, nul \in RpcNulTerminated, drop \in Drops :
          \E r \in Responses(op, sent.toks, v) : Respond(r, form, nul, drop, v)
  \/ UnmarshalRes
  \/ ParseMultiSz
  \/ RetryMoreData

Spec == Init /\ [][Next]_vars

---------------------------------------------------------------------------
(* Properties.                                                             *)

Phases == {"idle", "built", "sent", "failed", "answered", "decoded", "parsed"}
Statuses == {"none", "ok", "error", "panic"}

TypeOK ==
  /\ op \in AllOps \cup {"none"}
  /\ phase \in Phases
  /\ sent.status \in Statuses /\ sent.toks \in Seq([g : STRING, k : STRING, v : Nat, b : Seq(0..255)])
  /\ res.drop \in Drops \cup {0} /\ res.ReturnCode \in ReturnCodes \cup {0, ERROR_INSUFFICIENT_BUFFER, ERROR_MORE_DATA}
  /\ resBuf \in Seq(0..255)
  /\ dec.status \in Statuses /\ dec.ReturnCode \in Nat
  /\ retry \in BOOLEAN /\ held \in SrvValues \cup {NoValue}

(* Byte offset of each token of a message. *)
Offsets(toks) == [i \in DOMAIN toks |-> Len(Bytes(SubSeq(toks, 1, i - 1)))]

(* NDR alignment of a field: 2 for the u16 lengths and UTF-16 elements,   *)
(* 4 for 32-bit fields, referent ids, array headers and the context handle.*)
Alignment(k) == CASE k \in {"len", "maxlen", "chars"} -> 2
                  [] k \in {"pad", "bytes"}            -> 1
                  [] OTHER                            -> 4

(* Every field of a marshalled request starts on its NDR alignment:       *)
(* the padding writeConformantVaryingString adds after a string keeps the *)
(* fields after it aligned.                                                *)
FieldsAligned ==
  sent.status = "ok" =>
    LET off == Offsets(sent.toks)
    IN  \A i \in DOMAIN sent.toks : off[i] % Alignment(sent.toks[i].k) = 0

(* The referent ids of a marshalled request are non-zero and strictly     *)
(* increasing, through all the writers that share the refId counter.      *)
RefIdsAscending ==
  sent.status = "ok" =>
    LET ids == SelectSeq(sent.toks, LAMBDA t : t.k = "ref")
    IN  \A i \in DOMAIN ids : ids[i].v > 0 /\ (i > 1 => ids[i - 1].v < ids[i].v)

(* Every string of a marshalled request is a consistent NDR string:       *)
(* Length is twice ActualCount, MaximumLength twice MaxCount, Length at   *)
(* most MaximumLength and the elements ActualCount UTF-16 units, as the   *)
(* server's stub checks before it runs the call (writeRRPUnicodeStr).     *)
StringHeaderConsistent ==
  sent.status = "ok" =>
    \A g \in {sent.toks[i].g : i \in {j \in DOMAIN sent.toks : sent.toks[j].k = "len"}} :
      LET T(k) == Tok(sent.toks, g, k).v
      IN  /\ T("len") <= T("maxlen")
          /\ HasTok(sent.toks, g, "count") =>
               /\ T("len") = 2 * T("count")
               /\ T("maxlen") = 2 * T("maxcount")
               /\ T("count") <= T("maxcount")
               /\ T("count") = 0 \/ T("chars") = 2 * T("count")

(* Marshalling the same request struct again sends the same bytes,        *)
(* although the first MarshalBinary rewrote the struct's strings and      *)
(* MaxLengths (writeRRPUnicodeStr).                                        *)
ReMarshalStable ==
  [][sent.status = "ok" /\ sent'.status = "ok" => sent'.toks = sent.toks]_sent

(* A response that UnmarshalBinary accepts yields the status code the     *)
(* server sent: every string reader leaves the reader where the next      *)
(* field begins.                                                           *)
ReturnCodeDecoded ==
  phase = "decoded" /\ dec.status = "ok" => dec.ReturnCode = res.ReturnCode

(* A successful response that UnmarshalBinary accepts yields the server's *)
(* strings, counters, times and handle.                                    *)
PayloadDecoded ==
  phase = "decoded" /\ dec.status = "ok" /\ res.ReturnCode = 0 =>
    /\ dec.Strings = res.Strings
    /\ dec.Scalars = res.Scalars
    /\ dec.HKey = res.HKey

(* UnmarshalBinary accepts every response the server sends whole: its    *)
(* minimum length and the fields it reads agree with the response the     *)
(* server encodes for the request the client marshalled (spec: only a     *)
(* buffer shorter than the fixed prefix is BufferTooShort).                *)
WholeResponseAccepted ==
  phase = "decoded" /\ res.drop = 0 => dec.status = "ok"

(* The strings fromUnicodeStrArray gives the caller for a REG_MULTI_SZ    *)
(* value are the strings the server holds: the data crossed the NDR array *)
(* of QueryValue or EnumValue intact and the parse loses no string.        *)
MultiSzDecoded == phase = "parsed" => strs = res.List

(* A retry after ERROR_MORE_DATA, with the buffer size the first response *)
(* reported, never gets ERROR_MORE_DATA again while the value is unchanged:*)
(* the request sends MaxLen as lpcbData and the response reads lpcbData   *)
(* into DataLen, lpcbLen into MaxLen, so the size needed must come back   *)
(* through the field the caller reads (BaseRegQueryValueRes,              *)
(* BaseRegEnumValueRes UnmarshalBinary).                                   *)
MoreDataRetryFits ==
  retry /\ phase = "decoded" /\ dec.status = "ok" => dec.ReturnCode # ERROR_MORE_DATA

(* UnmarshalBinary never accepts a response that lost bytes in transit.   *)
NoSilentTruncation ==
  phase = "decoded" /\ dec.status = "ok" => res.drop = 0

(* UnmarshalBinary of a short buffer fails with an error, never a panic   *)
(* (spec: BufferTooShort, no read past the end).                           *)
DecodeNeverPanics == dec.status # "panic"

=============================================================================

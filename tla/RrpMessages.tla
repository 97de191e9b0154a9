----------------------------- MODULE RrpMessages -----------------------------
(***************************************************************************)
(* Operation catalogue of msrrp: MarshalBinary of the request types and    *)
(* UnmarshalBinary of the response types a client uses.                    *)
(*                                                                         *)
(* A request is the Go struct as a record; HKey is its byte slice.         *)
(* Marshal returns [status, toks, req]: status "ok", "error" (an error     *)
(* returned) or "panic" (a Go runtime panic), the tokens written and the   *)
(* request as the caller's struct holds it afterwards: the writer carries  *)
(* the struct, whose string fields the string writers update in place.     *)
(*                                                                         *)
(* Unmarshal returns [status, ReturnCode, Strings, Scalars, HKey]: the     *)
(* decoded strings and 32-bit payload fields in wire order.                *)
(***************************************************************************)
EXTENDS RrpString

CONSTANT NIL   \* a nil pointer (BaseRegEnumKeyReq.LastWriteTime)

(* What MarshalBinary returns, and the request struct afterwards. *)
Marshalled(status, w) == [status |-> status, toks |-> w.toks, req |-> w.req]

(* binary.Write(w, le, self.HKey[:20]) *)
PutHKey(w) == PutBytes(w, "HKey", "hkey", SubSeq(w.req.HKey, 1, 20))

(* An extra referent id written from the counter, which is then advanced. *)
PutRef(w, g) == [Put(w, g, "ref", 4, w.refId) EXCEPT !.refId = U32(@ + 1)]

(* OpenRootKeyReq.MarshalBinary (opnums 0-4). *)
MarshalOpenRootKeyReq(req) ==
  Marshalled("ok", Put(Put(NewWriter(req), "ServerName", "u32", 4, req.ServerName),
                       "DesiredAccess", "u32", 4, req.DesiredAccess))

(* BaseRegCloseKeyReq.MarshalBinary (opnum 5). *)
MarshalBaseRegCloseKeyReq(req) ==
  IF Len(req.HKey) # 20 THEN Marshalled("error", NewWriter(req))
  ELSE Marshalled("ok", PutHKey(NewWriter(req)))

(* BaseRegDeleteKeyReq (opnum 7) and BaseRegDeleteValueReq (opnum 8):     *)
(* the handle and one non-optional string, field g.                        *)
MarshalHandleAndString(req, g) ==
  IF Len(req.HKey) # 20 THEN Marshalled("error", NewWriter(req))
  ELSE Marshalled("ok", WriteRRPUnicodeStr(PutHKey(NewWriter(req)), g, FALSE))

(* BaseRegOpenKeyReq.MarshalBinary (opnum 15). *)
MarshalBaseRegOpenKeyReq(req) ==
  IF Len(req.HKey) # 20 THEN Marshalled("error", NewWriter(req))
  ELSE Marshalled("ok", Put(Put(WriteRRPUnicodeStr(PutHKey(NewWriter(req)), "SubKey", FALSE),
                                "Options", "u32", 4, req.Options),
                            "DesiredAccess", "u32", 4, req.DesiredAccess))

(* The end of BaseRegEnumKeyReq.MarshalBinary: LastWriteTime behind a      *)
(* referent id that is written without advancing the counter, then the    *)
(* FILETIME it points to, dereferenced unconditionally: nil panics.        *)
PutLastWriteTime(w) ==
  LET lw == Put(w, "LastWriteTime", "ref", 4, w.refId)
  IN  IF w.req.LastWriteTime = NIL THEN Marshalled("panic", lw)
      ELSE Marshalled("ok", Put(Put(lw, "LastWriteTime", "u32", 4, w.req.LastWriteTime.Low),
                                "LastWriteTime", "u32", 4, w.req.LastWriteTime.High))

(* BaseRegEnumKeyReq.MarshalBinary (opnum 9): NameIn, the referent id of   *)
(* the ClassIn struct, ClassIn, LastWriteTime.                             *)
MarshalBaseRegEnumKeyReq(req) ==
  IF Len(req.HKey) # 20 THEN Marshalled("error", NewWriter(req))
  ELSE PutLastWriteTime(
         WriteRRPUnicodeStr(
           PutRef(WriteRRPUnicodeStr(Put(PutHKey(NewWriter(req)), "Index", "u32", 4, req.Index),
                                     "NameIn", FALSE),
                  "ClassIn"),
           "ClassIn", FALSE))

(* BaseRegQueryInfoKeyReq.MarshalBinary (opnum 16): ClassIn is optional,   *)
(* an empty one is a null pointer.                                         *)
MarshalBaseRegQueryInfoKeyReq(req) ==
  IF Len(req.HKey) # 20 THEN Marshalled("error", NewWriter(req))
  ELSE Marshalled("ok", WriteRRPUnicodeStr(PutHKey(NewWriter(req)), "ClassIn", TRUE))

---------------------------------------------------------------------------
(* Security descriptors.  A msdtyp.SecurityDescriptor is modelled by the  *)
(* bytes its MarshalBinary returns, its self-relative form; NIL is a nil  *)
(* pointer.  An RpcSecurityDescriptor is the record                        *)
(* [SecurityDescriptor, InSecurityDescriptor, OutSecurityDescriptor].      *)

(* msdtyp.WriteConformantVaryingArray(w, buf, 0): MaxCount and            *)
(* ActualCount the length of buf, Offset 0, the bytes, zero padding to a   *)
(* 4-byte boundary.                                                        *)
WriteConformantVaryingArray(w, g, buf) ==
  PutBytes(PutBytes(Put(Put(Put(w, g, "maxcount", 4, Len(buf)), g, "offset", 4, 0),
                        g, "count", 4, Len(buf)),
                    g, "bytes", buf),
           g, "pad", Pad4(Len(buf)))

(* writeRPCSecurityDescriptor: a nil descriptor is a null pointer and the *)
(* two sizes as given; otherwise the referent id (unless the counter is   *)
(* 0), InSecurityDescriptor raised to the descriptor's length on this     *)
(* copy of the struct, that length, and the bytes.                         *)
WriteRPCSecurityDescriptor(w, g, sd) ==
  IF sd.SecurityDescriptor = NIL
  THEN Put(Put(Put(w, g, "null", 4, 0), g, "cbIn", 4, sd.InSecurityDescriptor),
           g, "cbOut", 4, sd.OutSecurityDescriptor)
  ELSE LET buf == sd.SecurityDescriptor
       IN  WriteConformantVaryingArray(
             Put(Put(IF w.refId # 0 THEN PutRef(w, g) ELSE w,
                     g, "cbIn", 4, Max({sd.InSecurityDescriptor, Len(buf)})),
                 g, "cbOut", 4, Len(buf)),
             g, buf)

(* writeRPCSecurityAttributes: the referent id of the struct, nLength     *)
(* raised to the descriptor's length, the counter advanced once without a *)
(* write, the referent id of the descriptor, its two sizes, InheritHandle *)
(* as a uint32, and the descriptor's bytes.                                *)
WriteRPCSecurityAttributes(w, g, sa) ==
  LET buf == sa.SecurityDescriptor.SecurityDescriptor
      w1  == Put(PutRef(w, g), g, "length", 4, Max({sa.Length, Len(buf)}))
  IN  WriteConformantVaryingArray(
        Put(Put(Put(PutRef([w1 EXCEPT !.refId = U32(@ + 1)], g),
                    g, "cbIn", 4, Len(buf)),
                g, "cbOut", 4, Len(buf)),
            g, "inherit", 4, sa.InheritHandle),
        g, buf)

(* The end of BaseRegCreateKeyReq.MarshalBinary: lpdwDisposition.  A      *)
(* non-zero Disposition is sent behind a referent id written without      *)
(* advancing the counter; a zero one is written alone, a null pointer.     *)
PutDisposition(w) ==
  IF w.req.Disposition # 0
  THEN Put(Put(w, "Disposition", "ref", 4, w.refId), "Disposition", "u32", 4, w.req.Disposition)
  ELSE Put(w, "Disposition", "null", 4, 0)

(* writeRPCSecurityAttributes calls MarshalBinary on the struct's         *)
(* *msdtyp.SecurityDescriptor without a nil check; the zero value of the   *)
(* struct, which BaseRegSaveKeyReq carries by value, has a nil one, and    *)
(* msdtyp's MarshalBinary dereferences its receiver: a panic.              *)
NilDescriptor(sa) == sa.SecurityDescriptor.SecurityDescriptor = NIL

(* BaseRegCreateKeyReq.MarshalBinary (opnum 6). *)
MarshalBaseRegCreateKeyReq(req) ==
  IF Len(req.HKey) # 20 THEN Marshalled("error", NewWriter(req))
  ELSE IF req.SecurityAttr # NIL /\ NilDescriptor(req.SecurityAttr) THEN Marshalled("panic", NewWriter(req))
  ELSE LET w == Put(Put(WriteRRPUnicodeStr(WriteRRPUnicodeStr(PutHKey(NewWriter(req)),
                                                              "SubKey", FALSE),
                                           "Class", FALSE),
                        "Options", "u32", 4, req.Options),
                    "DesiredAccess", "u32", 4, req.DesiredAccess)
       IN  Marshalled("ok", PutDisposition(
                              IF req.SecurityAttr = NIL THEN Put(w, "SecurityAttr", "null", 4, 0)
                              ELSE WriteRPCSecurityAttributes(w, "SecurityAttr", req.SecurityAttr)))

(* BaseRegGetKeySecurityReq (opnum 12) and BaseRegSetKeySecurityReq       *)
(* (opnum 21): the handle, SecurityInformation and SecurityDescriptorIn.   *)
MarshalKeySecurityReq(req) ==
  IF Len(req.HKey) # 20 THEN Marshalled("error", NewWriter(req))
  ELSE Marshalled("ok", WriteRPCSecurityDescriptor(
                          Put(PutHKey(NewWriter(req)), "SecurityInformation", "u32", 4,
                              req.SecurityInformation),
                          "SecurityDescriptorIn", req.SecurityDescriptorIn))

(* BaseRegSaveKeyReq.MarshalBinary (opnum 20). *)
MarshalBaseRegSaveKeyReq(req) ==
  IF Len(req.HKey) # 20 THEN Marshalled("error", NewWriter(req))
  ELSE IF NilDescriptor(req.SecurityAttributes) THEN Marshalled("panic", NewWriter(req))
  ELSE Marshalled("ok", WriteRPCSecurityAttributes(
                          WriteRRPUnicodeStr(PutHKey(NewWriter(req)), "FileName", FALSE),
                          "SecurityAttributes", req.SecurityAttributes))

---------------------------------------------------------------------------
(* Values.  Data is a byte slice; lpData is sent with lpcbData, its        *)
(* size_is ("cbIn"), and lpcbLen, its length_is ("cbOut").                 *)

(* msdtyp.WriteConformantVaryingArrayPtr(w, data, maxLen, &refId): a       *)
(* referent id from the counter, which is advanced, MaxCount maxLen,       *)
(* Offset 0, ActualCount the length of data, the bytes, zero padding.      *)
WriteConformantVaryingArrayPtr(w, g, data, maxLen) ==
  PutBytes(PutBytes(Put(Put(Put(PutRef(w, g), g, "maxcount", 4, maxLen), g, "offset", 4, 0),
                        g, "count", 4, Len(data)),
                    g, "bytes", data),
           g, "pad", Pad4(Len(data)))

(* msdtyp.WriteConformantArray(w, data): MaxCount the length of data, the *)
(* bytes, zero padding.                                                    *)
WriteConformantArray(w, g, data) ==
  PutBytes(PutBytes(Put(w, g, "maxcount", 4, Len(data)), g, "bytes", data),
           g, "pad", Pad4(Len(data)))

(* The fields BaseRegEnumValueReq and BaseRegQueryValueReq share after the *)
(* name: Type, Data (allocated MaxLen), MaxLen and the length of Data,     *)
(* each behind a referent id from the counter.                             *)
PutValueFields(w) ==
  LET ty == Put(PutRef(w, "lpType"), "lpType", "u32", 4, w.req.Type)
      da == WriteConformantVaryingArrayPtr(ty, "lpData", w.req.Data, w.req.MaxLen)
  IN  Put(PutRef(Put(PutRef(da, "lpData"), "lpData", "cbIn", 4, w.req.MaxLen), "lpData"),
          "lpData", "cbOut", 4, Len(w.req.Data))

(* BaseRegEnumValueReq.MarshalBinary (opnum 10). *)
MarshalBaseRegEnumValueReq(req) ==
  IF Len(req.HKey) # 20 THEN Marshalled("error", NewWriter(req))
  ELSE Marshalled("ok", PutValueFields(
                          WriteRRPUnicodeStr(Put(PutHKey(NewWriter(req)), "Index", "u32", 4, req.Index),
                                             "NameIn", FALSE)))

(* BaseRegQueryValueReq.MarshalBinary (opnum 17). *)
MarshalBaseRegQueryValueReq(req) ==
  IF Len(req.HKey) # 20 THEN Marshalled("error", NewWriter(req))
  ELSE Marshalled("ok", PutValueFields(WriteRRPUnicodeStr(PutHKey(NewWriter(req)), "ValueName", FALSE)))

(* BaseRegSetValueReq.MarshalBinary (opnum 22): ValueName, Type with no    *)
(* referent id, Data as a conformant array, the length of Data.            *)
MarshalBaseRegSetValueReq(req) ==
  IF Len(req.HKey) # 20 THEN Marshalled("error", NewWriter(req))
  ELSE Marshalled("ok", Put(WriteConformantArray(
                              Put(WriteRRPUnicodeStr(PutHKey(NewWriter(req)), "ValueName", FALSE),
                                  "Type", "u32", 4, req.Type),
                              "lpData", req.Data),
                            "lpData", "cbIn", 4, Len(req.Data)))

---------------------------------------------------------------------------

(* A response struct after UnmarshalBinary, with the decoder's outcome:   *)
(* its RRPUnicodeStr and byte-slice fields in order (Strings), its uint32  *)
(* fields but ReturnCode in order (Scalars), HKey and ReturnCode.          *)
Decoded(status, rc, strs, scal, hkey) ==
  [status |-> status, ReturnCode |-> rc, Strings |-> strs, Scalars |-> scal, HKey |-> hkey]

Failure(status) == Decoded(status, 0, << >>, << >>, << >>)

(* Statuses of a decoder that ends with reader r. *)
StatusOf(r) == IF r.err THEN "error" ELSE "ok"

(* ReturnCode.UnmarshalBinary: le.Uint32(buf), which panics on fewer than  *)
(* four bytes.                                                             *)
UnmarshalReturnCode(buf) ==
  IF Len(buf) < 4 THEN Failure("panic")
  ELSE Decoded("ok", LEValue(SubSeq(buf, 1, 4)), << >>, << >>, << >>)

(* Mutant of UnmarshalOpenKeyRes: the minimum length counts the handle,  *)
(* a referent id and ReturnCode, 28 bytes.                                 *)
UnmarshalOpenKeyResMin28(buf) ==
  LET hk == ReadBytes(NewReader(buf), 20)
      rc == ReadUint(hk.r, 4)
  IN  IF Len(buf) < 28 THEN Failure("error")
      ELSE Decoded(StatusOf(rc.r), rc.v, << >>, << >>, hk.v)

(* OpenKeyRes.UnmarshalBinary: at least 20 bytes, the handle, ReturnCode. *)
UnmarshalOpenKeyRes(buf) ==
  LET hk == ReadBytes(NewReader(buf), 20)
      rc == ReadUint(hk.r, 4)
  IN  IF Len(buf) < 20 THEN Failure("error")
      ELSE Decoded(StatusOf(rc.r), rc.v, << >>, << >>, hk.v)

(* BaseRegEnumKeyRes.UnmarshalBinary: at least 36 bytes; NameOut, the      *)
(* referent id of ClassOut, ClassOut, the referent id of LastWriteTime,    *)
(* LastWriteTime and ReturnCode.                                           *)
UnmarshalBaseRegEnumKeyRes(buf) ==
  LET no == ReadRRPUnicodeStr(NewReader(buf))
      co == ReadRRPUnicodeStr(Seek(no.r, 4))
      ft == ReadUints(Seek(co.r, 4), 4, 3)
  IN  IF Len(buf) < 36 THEN Failure("error")
      ELSE Decoded(StatusOf(ft.r), ft.v[3], << no.s, co.s >>, SubSeq(ft.v, 1, 2), << >>)

(* BaseRegQueryInfoKeyRes.UnmarshalBinary: no length check; ClassOut, the  *)
(* seven counters, LastWriteTime and ReturnCode.                           *)
UnmarshalBaseRegQueryInfoKeyRes(buf) ==
  LET co == ReadRPCUnicodeStr(NewReader(buf))
      fs == ReadUints(co.r, 4, 10)
  IN  Decoded(StatusOf(fs.r), fs.v[10], << co.s >>, SubSeq(fs.v, 1, 9), << >>)

(* BaseRegCreateKeyRes.UnmarshalBinary: at least 28 bytes; the handle,    *)
(* the referent id of lpdwDisposition skipped, Disposition, ReturnCode.   *)
UnmarshalBaseRegCreateKeyRes(buf) ==
  LET hk == ReadBytes(NewReader(buf), 20)
      dp == ReadUint(Seek(hk.r, 4), 4)
      rc == ReadUint(dp.r, 4)
  IN  IF Len(buf) < 28 THEN Failure("error")
      ELSE Decoded(StatusOf(rc.r), rc.v, << >>, << dp.v >>, hk.v)

(* BaseRegGetKeySecurityRes.UnmarshalBinary: at least 16 bytes; ReturnCode *)
(* from the last four bytes (the error of that Seek is discarded, and it  *)
(* cannot fail here), a non-zero code returned at once; otherwise from    *)
(* offset 4 the two sizes and the descriptor's array, which               *)
(* sd.UnmarshalBinary rejects below the 20 bytes of a descriptor header.  *)
(* Strings holds the descriptor's bytes.                                   *)
UnmarshalBaseRegGetKeySecurityRes(buf) ==
  LET rc == ReadUint([NewReader(buf) EXCEPT !.pos = Len(buf) - 4], 4)
      sz == ReadUints(SeekStart(rc.r, 4), 4, 2)
      sd == ReadConformantVaryingArray(sz.r)
  IN  CASE Len(buf) < 16  -> Failure("error")
        [] rc.v # 0       -> Decoded("ok", rc.v, << >>, << >>, << >>)
        [] sd.r.err       -> Decoded("error", rc.v, << >>, sz.v, << >>)
        [] Len(sd.v) < 20 -> Decoded("error", rc.v, << >>, sz.v, << >>)
        [] OTHER          -> Decoded("ok", rc.v, << sd.v >>, sz.v, << >>)

(* Mutant of ReadValueTail: lpcbData read into MaxLen and lpcbLen into    *)
(* DataLen, the order the struct's comments describe.                      *)
ReadValueTailSwapped(strs, ty, da) ==
  LET ls == ReadUints(Seek(da.r, 4), 4, 1)
      ml == ReadUints(Seek(ls.r, 4), 4, 2)
  IN  Decoded(StatusOf(ml.r), ml.v[2], Append(strs, da.v), << ty.v, ml.v[1], ls.v[1] >>, << >>)

(* The end of BaseRegEnumValueRes and BaseRegQueryValueRes.UnmarshalBinary *)
(* after Type and Data (da): DataLen and MaxLen, each after a skipped      *)
(* referent id, and ReturnCode.  Strings ends with Data; Scalars is Type,  *)
(* DataLen, MaxLen.                                                        *)
ReadValueTail(strs, ty, da) ==
  LET ls == ReadUints(Seek(da.r, 4), 4, 1)
      ml == ReadUints(Seek(ls.r, 4), 4, 2)
  IN  Decoded(StatusOf(ml.r), ml.v[2], Append(strs, da.v), << ty.v, ls.v[1], ml.v[1] >>, << >>)

(* Type after a skipped referent id, then Data. *)
ReadValueFields(strs, r) ==
  LET ty == ReadUint(Seek(r, 4), 4)
  IN  ReadValueTail(strs, ty, ReadConformantVaryingArrayPtr(ty.r))

(* BaseRegEnumValueRes.UnmarshalBinary: at least 36 bytes; NameOut by     *)
(* readRPCUnicodeStr, then the value fields.                               *)
UnmarshalBaseRegEnumValueRes(buf) ==
  LET no == ReadRPCUnicodeStr(NewReader(buf))
  IN  IF Len(buf) < 36 THEN Failure("error")
      ELSE ReadValueFields(<< no.s >>, no.r)

(* BaseRegQueryValueRes.UnmarshalBinary: no length check; the value fields. *)
UnmarshalBaseRegQueryValueRes(buf) == ReadValueFields(<< >>, NewReader(buf))

=============================================================================

------------------------------ MODULE RrpString ------------------------------
(***************************************************************************)
(* Unicode-string codec of msrrp: RRP_UNICODE_STRING / RPC_UNICODE_STRING  *)
(* as an NDR struct {Length, MaximumLength, Buffer pointer} followed by    *)
(* the pointee, a conformant-varying array {MaxCount, Offset, ActualCount, *)
(* UTF-16LE elements, padding}.                                            *)
(*                                                                         *)
(* A string value us is a record [S, MaxLength] as in the Go struct.       *)
(* writeRRPUnicodeStr writes field g of the request the writer carries and *)
(* updates that field in place, as the Go code does through *us.  The      *)
(* readers return the reader and the decoded string (and MaximumLength);   *)
(* each stage of a reader is an operator applied to the result of the      *)
(* stage before, following the code's sequence of reads and early returns. *)
(***************************************************************************)
EXTENDS Ndr

(* Mutant of WriteConformantVaryingString: no padding after the elements. *)
WriteConformantVaryingStringNoPad(w, g, us) ==
  LET u  == NewUnicodeStr(us.S, TRUE)
      w1 == Put(Put(Put(w, g, "maxcount", 4, us.MaxLength), g, "offset", 4, u.offset),
                g, "count", 4, IF us.S = << >> THEN 0 ELSE u.count)
  IN  IF us.S = << >> THEN w1 ELSE PutBytes(w1, g, "chars", u.buffer)

(* writeConformantVaryingString: MaxCount is the caller's MaxLength, the   *)
(* empty string is sent with ActualCount 0 and no elements.                *)
WriteConformantVaryingString(w, g, us) ==
  LET u  == NewUnicodeStr(us.S, TRUE)
      w1 == Put(Put(Put(w, g, "maxcount", 4, us.MaxLength),
                              g, "offset", 4, u.offset),
                              g, "count", 4, IF us.S = << >> THEN 0 ELSE u.count)
  IN  IF us.S = << >> THEN w1
      ELSE PutBytes(PutBytes(w1, g, "chars", u.buffer),
                    g, "pad", [i \in 1..u.paddlen |-> 0])

(* Mutant of WriteConformantVaryingStringPtr: the counter is not advanced. *)
WriteConformantVaryingStringPtrNoIncrement(w, g, us) ==
  WriteConformantVaryingString(IF w.refId # 0 THEN Put(w, g, "ref", 4, w.refId) ELSE w, g, us)

(* writeConformantVaryingStringPtr: the referent id (unless it is 0), one  *)
(* increment of the counter, the array.                                    *)
WriteConformantVaryingStringPtr(w, g, us) ==
  LET w1 == IF w.refId # 0 THEN Put(w, g, "ref", 4, w.refId) ELSE w
  IN  WriteConformantVaryingString([w1 EXCEPT !.refId = U32(@ + 1)], g, us)

(* Mutants of WriteRRPUnicodeStr: MaxLength is not raised to the length; *)
(* a NUL is appended even to a string that already ends with one.         *)
WriteRRPUnicodeStrNoRaise(w, g, optional) ==
  LET us  == w.req[g]
      s   == IF us.S = << >> THEN us.S ELSE NullTerminate(us.S)
      l   == U16(GoLen(s))
      w1  == [Put(Put(w, g, "len", 2, U16(l * 2)), g, "maxlen", 2, U16(us.MaxLength * 2))
               EXCEPT !.req[g] = [S |-> s, MaxLength |-> us.MaxLength]]
  IN  IF s = << >> /\ optional THEN Put(w1, g, "null", 4, 0)
      ELSE WriteConformantVaryingStringPtr(w1, g, w1.req[g])

WriteRRPUnicodeStrNulAlways(w, g, optional) ==
  LET us  == w.req[g]
      s   == IF us.S = << >> THEN us.S ELSE Append(us.S, 0)
      l   == U16(GoLen(s))
      max == IF us.MaxLength < l THEN l ELSE us.MaxLength
      w1  == [Put(Put(w, g, "len", 2, U16(l * 2)), g, "maxlen", 2, U16(max * 2))
               EXCEPT !.req[g] = [S |-> s, MaxLength |-> max]]
  IN  IF s = << >> /\ optional THEN Put(w1, g, "null", 4, 0)
      ELSE WriteConformantVaryingStringPtr(w1, g, w1.req[g])

(* writeRRPUnicodeStr of the request's field g: NUL-terminate a non-empty  *)
(* S in place, Length from Go's len(S), raise MaxLength to len(S) in       *)
(* place, then a null pointer for an empty optional string and the pointer *)
(* and array otherwise.                                                    *)
WriteRRPUnicodeStr(w, g, optional) ==
  LET us  == w.req[g]
      s   == IF us.S = << >> THEN us.S ELSE NullTerminate(us.S)
      l   == U16(GoLen(s))
      max == IF us.MaxLength < l THEN l ELSE us.MaxLength
      w1  == [Put(Put(w, g, "len", 2, U16(l * 2)), g, "maxlen", 2, U16(max * 2))
               EXCEPT !.req[g] = [S |-> s, MaxLength |-> max]]
  IN  IF s = << >> /\ optional THEN Put(w1, g, "null", 4, 0)
      ELSE WriteConformantVaryingStringPtr(w1, g, w1.req[g])

---------------------------------------------------------------------------

(* Mutant of SkipPadding: the seek is made even when paddLen is 4, i.e.    *)
(* when the elements already end aligned.                                  *)
SkipPaddingAlways(unc, pad) ==
  [r |-> Seek(unc.r, pad), s |-> IF unc.r.err THEN << >> ELSE FromUnicodeString(unc.v)]

(* The tail of readConformantVaryingString: the string of the elements     *)
(* read (unc), and a seek over the padding unless paddLen is 4.            *)
SkipPadding(unc, pad) ==
  [r |-> IF pad # 4 THEN Seek(unc.r, pad) ELSE unc.r,
   s |-> IF unc.r.err THEN << >> ELSE FromUnicodeString(unc.v)]

(* readConformantVaryingString after Offset and ActualCount (oa.v): a seek *)
(* over Offset elements, ActualCount elements, the padding of              *)
(* Offset*2 + ActualCount*2.                                               *)
ReadVaryingElements(oa) ==
  LET off == oa.v[1]
      ac  == oa.v[2]
      r1  == IF off > 0 THEN Seek(oa.r, off * 2) ELSE oa.r
  IN  SkipPadding(IF ac > 0 THEN ReadBytes(r1, U32(ac * 2)) ELSE [r |-> r1, v |-> << >>],
                  4 - (U32(U32(off * 2) + U32(ac * 2)) % 4))

(* readConformantVaryingString after MaxCount (mc): MaxCount 0 is taken    *)
(* for a null pointer and ends the read.                                   *)
ReadConformantVaryingStringBody(mc) ==
  IF mc.r.err \/ mc.v = 0 THEN [r |-> mc.r, s |-> << >>]
  ELSE ReadVaryingElements(ReadUints(mc.r, 4, 2))

(* readConformantVaryingString. *)
ReadConformantVaryingString(r) == ReadConformantVaryingStringBody(ReadUint(r, 4))

(* readConformantVaryingStringPtr: skip the referent id, read the array. *)
ReadConformantVaryingStringPtr(r) == ReadConformantVaryingString(Seek(r, 4))

(* readRPCUnicodeStr after Length and MaximumLength (lm.v): Length 0 is    *)
(* taken for a null Buffer pointer and only the pointer is skipped.        *)
ReadRPCUnicodeStrBody(lm) ==
  IF lm.r.err THEN [r |-> lm.r, s |-> << >>, max |-> lm.v[2]]
  ELSE IF lm.v[1] = 0 THEN [r |-> Seek(lm.r, 4), s |-> << >>, max |-> lm.v[2]]
  ELSE LET cv == ReadConformantVaryingStringPtr(lm.r)
       IN  [r |-> cv.r, s |-> cv.s, max |-> lm.v[2]]

(* readRPCUnicodeStr. *)
ReadRPCUnicodeStr(r) == ReadRPCUnicodeStrBody(ReadUints(r, 2, 2))

(* Mutant of ReadRRPUnicodeStr: the trailing NUL is kept. *)
ReadRRPUnicodeStrNoStrip(r) == ReadRPCUnicodeStr(r)

(* StripNullByte of a string read, unless the read failed. *)
StripRead(rs) == IF rs.r.err THEN rs ELSE [rs EXCEPT !.s = StripNullByte(@)]

(* readRRPUnicodeStr: as readRPCUnicodeStr, then strip one trailing NUL. *)
ReadRRPUnicodeStr(r) == StripRead(ReadRPCUnicodeStr(r))

=============================================================================

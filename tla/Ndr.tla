-------------------------------- MODULE Ndr --------------------------------
(***************************************************************************)
(* Primitive codec of the MS-RRP client (package msrrp and the helpers it  *)
(* takes from msdtyp): little-endian integers of a fixed width, the        *)
(* conversion of a Go string to UTF-16LE and back, and the bytes.Reader    *)
(* the response decoders read from.                                        *)
(*                                                                         *)
(* A Go string is modelled as the sequence of its Unicode code points; its *)
(* Go length len(s) is the number of bytes of its UTF-8 encoding.          *)
(*                                                                         *)
(* An encoder appends TOKENS to a writer: a token is one binary.Write, a   *)
(* record of the field it belongs to (g), its kind (k), the value written  *)
(* (v, already cut to the width written) and its bytes (b).  The bytes of  *)
(* a message are the concatenation of the tokens' bytes.                   *)
(***************************************************************************)
EXTENDS Integers, Sequences, SequencesExt, TLC

(* Unsigned arithmetic of Go's uint16 and uint32.  TLC's integers stop    *)
(* below 2^31, so a uint32 result is checked to stay there instead of      *)
(* being reduced modulo 2^32: a run that reached a uint32 wrap would stop  *)
(* with this assertion, not go on with a wrong value.                      *)
U16(v) == v % 65536
U32(v) == IF v < 2147483647 THEN v ELSE Assert(FALSE, "uint32 beyond TLC's range")

(* Mutant of LE: the bytes are not masked to 8 bits. *)
LENoMask(v, n) == [i \in 1..n |-> v \div (256 ^ (i - 1))]

(* binary.Write(w, le, x) for an unsigned x of n bytes. *)
LE(v, n) == [i \in 1..n |-> (v \div (256 ^ (i - 1))) % 256]

(* binary.Read(r, le, &x) for an unsigned x of Len(bs) bytes. *)
LEValue(bs) ==
  LET acc[i \in 0..Len(bs)] == IF i = 0 THEN 0 ELSE acc[i - 1] + bs[i] * 256 ^ (i - 1)
  IN  acc[Len(bs)]

---------------------------------------------------------------------------
(* Strings.                                                                *)

(* Bytes of the UTF-8 encoding of code point c: Go's len counts these. *)
Utf8Len(c) == CASE c < 128   -> 1
              []   c < 2048  -> 2
              []   c < 65536 -> 3
              []   OTHER     -> 4

GoLen(s) == LET acc[i \in 0..Len(s)] == IF i = 0 THEN 0 ELSE acc[i - 1] + Utf8Len(s[i])
            IN  acc[Len(s)]

(* UTF-16 code units of c: one unit in the BMP, a surrogate pair above. *)
Utf16(c) == IF c < 65536 THEN << c >>
            ELSE << 55296 + (c - 65536) \div 1024, 56320 + ((c - 65536) % 1024) >>

(* msdtyp.ToUnicode: the UTF-16LE bytes of a string. *)
ToUnicode(s) == FlattenSeq([i \in DOMAIN s |->
                  FlattenSeq([j \in DOMAIN Utf16(s[i]) |-> LE(Utf16(s[i])[j], 2)])])

(* utf16.Decode: pairs surrogates, an unpaired one becomes U+FFFD. *)
RECURSIVE DecodeUnits(_)
DecodeUnits(us) ==
  LET high(u) == u \in 55296..56319
      low(u)  == u \in 56320..57343
  IN  IF us = << >> THEN << >>
      ELSE IF Len(us) >= 2 /\ high(us[1]) /\ low(us[2])
           THEN << 65536 + (us[1] - 55296) * 1024 + (us[2] - 56320) >> \o DecodeUnits(Tail(Tail(us)))
           ELSE << IF high(us[1]) \/ low(us[1]) THEN 65533 ELSE us[1] >> \o DecodeUnits(Tail(us))

(* msdtyp.FromUnicodeString: UTF-16LE bytes (an even number) to a string. *)
FromUnicodeString(bs) ==
  DecodeUnits([i \in 1..(Len(bs) \div 2) |-> LEValue(SubSeq(bs, 2 * i - 1, 2 * i))])

(* The loop of fromUnicodeStrArray over the UTF-16 units us left, cur the  *)
(* units of the string being read: a NUL ends a non-empty string, which is *)
(* appended; a NUL with no string open (a double NUL) ends the list; the  *)
(* units of a string still open when the buffer ends are dropped.          *)
RECURSIVE SplitUnits(_, _)
SplitUnits(us, cur) ==
  CASE us = << >>   -> << >>
    [] Head(us) # 0 -> SplitUnits(Tail(us), Append(cur, Head(us)))
    [] cur # << >>  -> << DecodeUnits(cur) >> \o SplitUnits(Tail(us), << >>)
    [] OTHER        -> << >>

(* Mutant of FromUnicodeStrArray: the loop stops one unit early           *)
(* (i < len(buf)-2), so the last unit of the buffer is never read.         *)
FromUnicodeStrArrayShortLoop(buf) ==
  IF Len(buf) < 2 THEN << >>
  ELSE SplitUnits([i \in 1..(Len(buf) \div 2 - 1) |-> LEValue(SubSeq(buf, 2 * i - 1, 2 * i))], << >>)

(* fromUnicodeStrArray: the strings of a REG_MULTI_SZ buffer; nothing for *)
(* fewer than 2 bytes, a trailing odd byte ignored.                        *)
FromUnicodeStrArray(buf) ==
  IF Len(buf) < 2 THEN << >>
  ELSE SplitUnits([i \in 1..(Len(buf) \div 2) |-> LEValue(SubSeq(buf, 2 * i - 1, 2 * i))], << >>)

(* msdtyp.NullTerminate: append one NUL unless the string ends with one. *)
NullTerminate(s) == IF s = << >> \/ Last(s) # 0 THEN Append(s, 0) ELSE s

(* msdtyp.StripNullByte: drop one trailing NUL, if there is one. *)
StripNullByte(s) == IF s # << >> /\ Last(s) = 0 THEN Front(s) ELSE s

(* msdtyp.NewUnicodeStr(s, nullTerminate): offset, element count, padding *)
(* to the next 4-byte boundary and the UTF-16LE buffer of the string.      *)
NewUnicodeStr(s, nullTerminate) ==
  LET buf == ToUnicode(IF nullTerminate THEN NullTerminate(s) ELSE s)
  IN  [offset |-> 0, count |-> Len(buf) \div 2,
       paddlen |-> (4 - (Len(buf) % 4)) % 4, buffer |-> buf]

---------------------------------------------------------------------------
(* Writer: a bytes.Buffer of tokens, the referent-id counter threaded      *)
(* through one MarshalBinary by address (refId *uint32), and the request   *)
(* struct being marshalled, which the string writers update through their  *)
(* *RRPUnicodeStr argument.                                                *)

NewWriter(req) == [toks |-> << >>, refId |-> 1, req |-> req]

(* binary.Write of an n-byte unsigned field of kind k of field g. *)
Put(w, g, k, n, v) ==
  [w EXCEPT !.toks = Append(@, [g |-> g, k |-> k, v |-> IF n = 4 THEN U32(v) ELSE v % (256 ^ n),
                                            b |-> LE(v, n)])]

(* w.Write of raw bytes. *)
PutBytes(w, g, k, bs) ==
  [w EXCEPT !.toks = Append(@, [g |-> g, k |-> k, v |-> Len(bs), b |-> bs])]

Bytes(toks) == FlattenSeq([i \in DOMAIN toks |-> toks[i].b])

---------------------------------------------------------------------------
(* Reader: bytes.Reader over a response.  Every decoder returns on the     *)
(* first error, so an operation on a failed reader leaves it unchanged.    *)

NewReader(buf) == [buf |-> buf, pos |-> 0, err |-> FALSE]

(* r.Seek(off, io.SeekCurrent): a negative position fails, a position     *)
(* past the end does not.                                                  *)
Seek(r, off) ==
  IF r.err THEN r
  ELSE IF r.pos + off < 0 THEN [r EXCEPT !.err = TRUE]
  ELSE [r EXCEPT !.pos = r.pos + off]

(* r.Seek(off, io.SeekStart): a negative position fails. *)
SeekStart(r, off) ==
  IF r.err THEN r
  ELSE IF off < 0 THEN [r EXCEPT !.err = TRUE]
  ELSE [r EXCEPT !.pos = off]

(* Mutant of ReadBytes: a short read returns what remains, no error. *)
ReadBytesPartial(r, n) ==
  IF r.err THEN [r |-> r, v |-> << >>]
  ELSE LET e == IF r.pos + n > Len(r.buf) THEN Len(r.buf) ELSE r.pos + n
       IN  [r |-> [r EXCEPT !.pos = e], v |-> SubSeq(r.buf, r.pos + 1, e)]

(* binary.Read of n bytes: io.EOF / io.ErrUnexpectedEOF when fewer remain. *)
ReadBytes(r, n) ==
  IF r.err THEN [r |-> r, v |-> << >>]
  ELSE IF r.pos + n > Len(r.buf) THEN [r |-> [r EXCEPT !.err = TRUE], v |-> << >>]
  ELSE [r |-> [r EXCEPT !.pos = r.pos + n], v |-> SubSeq(r.buf, r.pos + 1, r.pos + n)]

(* binary.Read(r, le, &x) for an n-byte unsigned x. *)
ReadUint(r, n) == LET rb == ReadBytes(r, n) IN [r |-> rb.r, v |-> LEValue(rb.v)]

(* k consecutive binary.Read of n-byte unsigned fields, stopping at the    *)
(* first error: the values read, in order.                                 *)
ReadUints(r, n, k) ==
  LET rs[i \in 0..k] == IF i = 0 THEN [r |-> r, v |-> 0] ELSE ReadUint(rs[i - 1].r, n)
  IN  [r |-> rs[k].r, v |-> [i \in 1..k |-> rs[i].v]]

(* msdtyp.ReadConformantVaryingArray: MaxCount, Offset, ActualCount and   *)
(* ActualCount bytes; a short buffer is an error.                          *)
ReadConformantVaryingArray(r) ==
  LET hd == ReadUints(r, 4, 3)
      bs == ReadBytes(hd.r, hd.v[3])
  IN  [r |-> bs.r, v |-> bs.v]

(* Zero bytes that pad n bytes of an array to a 4-byte boundary. *)
Pad4(n) == [i \in 1..((4 - (n % 4)) % 4) |-> 0]

(* The rest of msdtyp.ReadConformantVaryingArrayPtr after the header      *)
(* (hd.v: MaxCount, Offset, ActualCount): a seek over Offset bytes,        *)
(* ActualCount bytes, and a seek over the padding of Offset + ActualCount. *)
ReadVaryingArrayBody(hd) ==
  LET bs == ReadBytes(Seek(hd.r, hd.v[2]), hd.v[3])
  IN  [r |-> Seek(bs.r, Len(Pad4(hd.v[2] + hd.v[3]))), v |-> bs.v]

(* msdtyp.ReadConformantVaryingArrayPtr: the referent id, 0 for a null    *)
(* pointer and no data, else the conformant-varying array.                 *)
ReadConformantVaryingArrayPtr(r) ==
  LET p == ReadUint(r, 4)
  IN  IF p.r.err \/ p.v = 0 THEN [r |-> p.r, v |-> << >>]
      ELSE ReadVaryingArrayBody(ReadUints(p.r, 4, 3))

=============================================================================

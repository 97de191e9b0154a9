---------------------------- MODULE Smb1Negotiate ----------------------------
(***************************************************************************)
(* The SMB1 negotiate exchange of package smb (src/smb/smb1.go): the      *)
(* request NewSMB1NegotiateReq builds and MarshalBinary encodes, a server *)
(* that answers it by MS-CIFS 2.2.4.52 and MS-SMB 2.2.4.5, a transport    *)
(* that may lose the tail of the answer, and the best-effort decoder      *)
(* SMB1NegotiateRes.UnmarshalBinary.                                      *)
(*                                                                         *)
(* Bytes are kept exactly.  Dialect names are abstracted to their length  *)
(* and identity: the name of dialect n is NameLength[n] copies of the     *)
(* non-zero byte 64 + n, so ByteCount and every offset are those of the   *)
(* real names, and two different names never have the same bytes.        *)
(* Numeric fields are kept as their little-endian bytes (TLC's integers   *)
(* cannot hold a uint64) and compared by value with Num.                  *)
(***************************************************************************)
EXTENDS Ndr

CONSTANTS
  ServerReplies,  \* the reply shapes the server may send
  Drops,          \* how many trailing bytes the transport may lose
  None,           \* a variable not yet set
  NoDialect, Refused, Failed, Pending

VARIABLES phase, req, reqBytes, reply, resBuf, dec

vars == << phase, req, reqBytes, reply, resBuf, dec >>

Zeros(n) == [i \in 1..n |-> 0]

(* The value of little-endian bytes, as those bytes without trailing zeros. *)
Num(bs) == SubSeq(bs, 1, SelectLastInSeq(bs, LAMBDA b : b # 0))

(* A little-endian field of n bytes holding v (v below 2^31). *)
Wide(v, n) == IF n > 4 THEN LE(v, 4) \o Zeros(n - 4) ELSE LE(v, n)

---------------------------------------------------------------------------
(* The header, SMB1Header, and its encoding by package encoder.           *)

HeaderOrder == << "Protocol", "Command", "Status", "Flags", "Flags2", "PIDHigh",
                  "SecurityFeatures", "Reserved", "TID", "PIDLow", "UID", "MID" >>

HeaderWidth == [Protocol |-> 4, Command |-> 1, Status |-> 4, Flags |-> 1,
                Flags2 |-> 2, PIDHigh |-> 2, SecurityFeatures |-> 8,
                Reserved |-> 2, TID |-> 2, PIDLow |-> 2, UID |-> 2, MID |-> 2]

(* ProtocolSmb, "\xFFSMB". *)
SmbMagic == << 255, 83, 77, 66 >>

(* encoder.Marshal of the header: its fields in order, each at its width. *)
MarshalHeader(h) == FlattenSeq([i \in DOMAIN HeaderOrder |-> h[HeaderOrder[i]]])

(* encoder.Unmarshal of 32 header bytes. *)
UnmarshalHeader(bs) ==
  LET off[i \in 0..Len(HeaderOrder)] ==
        IF i = 0 THEN 0 ELSE off[i - 1] + HeaderWidth[HeaderOrder[i]]
      at(f) == CHOOSE i \in DOMAIN HeaderOrder : HeaderOrder[i] = f
  IN  [f \in DOMAIN HeaderWidth |-> SubSeq(bs, off[at(f) - 1] + 1, off[at(f)])]

---------------------------------------------------------------------------
(* The request.                                                            *)

DialectNames == << "PC NETWORK PROGRAM 1.0", "LANMAN1.0", "Windows for Workgroups 3.1a",
                   "LM1.2X002", "LANMAN2.1", "NT LM 0.12", "SMB 2.002", "SMB 2.100",
                   "SMB 2.???" >>

NameLength == << 22, 9, 27, 9, 9, 10, 9, 9, 9 >>

NameBytes(n) == [j \in 1..NameLength[n] |-> 64 + n]

(* Mutant of DialectString: the literal "LANMAN1.0" lacks its "\x00". *)
DialectStringNoNul(n) == IF n = 2 THEN NameBytes(n) ELSE NameBytes(n) \o << 0 >>

(* The DialectString literal of dialect n, which carries its own NUL. *)
DialectString(n) == NameBytes(n) \o << 0 >>

(* The command code of SMB_COM_NEGOTIATE. *)
SMB1CommandNegotiate == 114

(* An SMB1Dialect: BufferFormat 0x2 and the dialect's string. *)
SMB1Dialect(n) == [BufferFormat |-> 2, DialectString |-> DialectString(n)]

(* Session.NewSMB1NegotiateReq: WordCount and ByteCount stay 0. *)
NewSMB1NegotiateReq ==
  [Header    |-> [Protocol |-> SmbMagic, Command |-> LE(SMB1CommandNegotiate, 1), Status |-> Zeros(4),
                  Flags |-> LE(24, 1), Flags2 |-> LE(51201, 2), PIDHigh |-> Zeros(2),
                  SecurityFeatures |-> Zeros(8), Reserved |-> Zeros(2),
                  TID |-> LE(65535, 2), PIDLow |-> Zeros(2), UID |-> Zeros(2),
                  MID |-> Zeros(2)],
   WordCount |-> 0,
   ByteCount |-> 0,
   Dialects  |-> [n \in DOMAIN NameLength |-> SMB1Dialect(n)]]

(* SMB1NegotiateReq.MarshalBinary: header, WordCount, then ByteCount and    *)
(* the dialects, each written as 0x2 and its string; BufferFormat and the   *)
(* struct's ByteCount are not used.                                         *)
MarshalSMB1NegotiateReq(r) ==
  LET dialectsBuffer ==
        FlattenSeq([i \in DOMAIN r.Dialects |-> << 2 >> \o r.Dialects[i].DialectString])
  IN  MarshalHeader(r.Header) \o << r.WordCount >>
        \o LE(U16(Len(dialectsBuffer)), 2) \o dialectsBuffer

---------------------------------------------------------------------------
(* The response decoder, SMB1NegotiateRes.UnmarshalBinary.  Its state is  *)
(* [off, panic, res]: the offset, whether a slice went out of range (a Go  *)
(* runtime panic) and the struct, whose fields are bytes.                  *)

WordFields == {"DialectIndex", "SecurityMode", "MaxMpxCount", "MaxVcCount", "MaxBufSize",
               "MaxRawSize", "SessionKey", "Capabilities", "SystemTime", "TimeZone",
               "KeyLength"}

ZeroRes ==
  [Header |-> [f \in DOMAIN HeaderWidth |-> Zeros(HeaderWidth[f])],
   WordCount |-> Zeros(1), DialectIndex |-> Zeros(2), SecurityMode |-> Zeros(1),
   MaxMpxCount |-> Zeros(2), MaxVcCount |-> Zeros(2), MaxBufSize |-> Zeros(4),
   MaxRawSize |-> Zeros(4), SessionKey |-> Zeros(4), Capabilities |-> Zeros(4),
   SystemTime |-> Zeros(8), TimeZone |-> Zeros(2), KeyLength |-> Zeros(1),
   ByteCount |-> Zeros(2), SecurityBlob |-> << >>]

(* Mutant of SMB1NegotiateResBody: MaxMpxCount and MaxVcCount read in swapped order. *)
SMB1NegotiateResBodySwapped ==
  << <<"SecurityMode", 1>>, <<"MaxVcCount", 2>>, <<"MaxMpxCount", 2>>,
     <<"MaxBufSize", 4>>, <<"MaxRawSize", 4>>, <<"SessionKey", 4>>,
     <<"Capabilities", 4>>, <<"SystemTime", 8>>, <<"TimeZone", 2>>, <<"KeyLength", 1>> >>

(* The optional fields after DialectIndex, in the order they are read. *)
SMB1NegotiateResBody ==
  << <<"SecurityMode", 1>>, <<"MaxMpxCount", 2>>, <<"MaxVcCount", 2>>,
     <<"MaxBufSize", 4>>, <<"MaxRawSize", 4>>, <<"SessionKey", 4>>,
     <<"Capabilities", 4>>, <<"SystemTime", 8>>, <<"TimeZone", 2>>, <<"KeyLength", 1>> >>

(* buf[offset : offset+n] into field f, and offset += n. *)
ReadField(st, buf, f, n) ==
  IF st.off + n > Len(buf)
  THEN [st EXCEPT !.panic = TRUE]
  ELSE [st EXCEPT !.off = st.off + n, !.res[f] = SubSeq(buf, st.off + 1, st.off + n)]

(* Mutant of ReadIfPresent: every field guarded by the 1-byte check. *)
ReadIfPresentNarrow(st, buf, f, n) ==
  IF Len(buf) >= st.off + 1 THEN ReadField(st, buf, f, n) ELSE st

(* if len(buf) >= offset+n { field = ...; offset += n } *)
ReadIfPresent(st, buf, f, n) ==
  IF Len(buf) >= st.off + n THEN ReadField(st, buf, f, n) ELSE st

ReadOptionalFields(st, buf) ==
  LET body == SMB1NegotiateResBody
      s[i \in 0..Len(body)] ==
        IF i = 0 THEN st ELSE ReadIfPresent(s[i - 1], buf, body[i][1], body[i][2])
  IN  s[Len(body)]

(* The blob is copied when KeyLength > 0 and all of it arrived. *)
ReadSecurityBlob(st, buf) ==
  LET kl == st.res.KeyLength[1]
  IN  IF kl > 0 /\ Len(buf) >= st.off + kl
      THEN [st EXCEPT !.res.SecurityBlob = SubSeq(buf, st.off + 1, st.off + kl)]
      ELSE st

ReadByteCountAndBlob(st, buf) ==
  IF Len(buf) >= st.off + 2
  THEN ReadSecurityBlob(ReadField(st, buf, "ByteCount", 2), buf)
  ELSE st

Finish(st) == [status |-> IF st.panic THEN "panic" ELSE "ok", res |-> st.res]

(* After WordCount: WordCount 0 means no dialect; otherwise DialectIndex,  *)
(* then each optional field that still fits.                               *)
DecodeWords(st, buf) ==
  IF st.res.WordCount[1] = 0
  THEN [status |-> "ok", res |-> [st.res EXCEPT !.DialectIndex = LE(65535, 2)]]
  ELSE IF Len(buf) < st.off + 2
  THEN [status |-> "error", res |-> st.res]
  ELSE Finish(ReadByteCountAndBlob(
                ReadOptionalFields(ReadField(st, buf, "DialectIndex", 2), buf), buf))

UnmarshalSMB1NegotiateRes(buf) ==
  IF Len(buf) < 37
  THEN [status |-> "error", res |-> ZeroRes]
  ELSE DecodeWords([off |-> 33, panic |-> FALSE,
                    res |-> [ZeroRes EXCEPT !.Header = UnmarshalHeader(SubSeq(buf, 1, 32)),
                                            !.WordCount = << buf[33] >>]], buf)

---------------------------------------------------------------------------
(* The server, which is the environment.  It parses the request by        *)
(* MS-CIFS 2.2.4.52.1, finds the name of a dialect it speaks in the list  *)
(* and answers with that dialect's word block (MS-CIFS 2.2.4.52.2 for     *)
(* core, LANMAN and NT LM 0.12, MS-SMB 2.2.4.5.2 for extended security).  *)
(* SMB2 answers to the SMB 2.x names are not read by this decoder.        *)

SrvPrepend(d, r) == [ok |-> r.ok, ds |-> << d >> \o r.ds]

(* The dialect strings of a request's data: 0x02, then bytes up to a NUL. *)
RECURSIVE SrvSplitDialects(_)
SrvSplitDialects(d) ==
  IF d = << >> THEN [ok |-> TRUE, ds |-> << >>]
  ELSE LET nul == SelectInSeq(d, LAMBDA b : b = 0)
       IN  IF d[1] # 2 \/ nul = 0 THEN [ok |-> FALSE, ds |-> << >>]
           ELSE SrvPrepend(SubSeq(d, 2, nul - 1), SrvSplitDialects(SubSeq(d, nul + 1, Len(d))))

SrvParseRequest(bs) ==
  IF Len(bs) < 35 \/ bs[33] # 0 \/ LEValue(SubSeq(bs, 34, 35)) # Len(bs) - 35
  THEN [ok |-> FALSE, ds |-> << >>]
  ELSE SrvSplitDialects(SubSeq(bs, 36, Len(bs)))

(* The dialects each reply shape answers. *)
SrvDialects == [core |-> {1}, lanman |-> {2, 3, 4, 5}, ntlm |-> {6}, ntlm_ext |-> {6}]

(* The word block of each shape, field by field with its width. *)
SrvWords ==
  [core     |-> << <<"DialectIndex", 2>> >>,
   lanman   |-> << <<"DialectIndex", 2>>, <<"SecurityMode", 2>>, <<"MaxBufSize", 2>>,
                   <<"MaxMpxCount", 2>>, <<"MaxVcCount", 2>>, <<"RawMode", 2>>,
                   <<"SessionKey", 4>>, <<"ServerTime", 2>>, <<"ServerDate", 2>>,
                   <<"TimeZone", 2>>, <<"KeyLength", 2>>, <<"Reserved", 2>> >>,
   ntlm     |-> << <<"DialectIndex", 2>>, <<"SecurityMode", 1>>, <<"MaxMpxCount", 2>>,
                   <<"MaxVcCount", 2>>, <<"MaxBufSize", 4>>, <<"MaxRawSize", 4>>,
                   <<"SessionKey", 4>>, <<"Capabilities", 4>>, <<"SystemTime", 8>>,
                   <<"TimeZone", 2>>, <<"KeyLength", 1>> >>,
   none     |-> << <<"DialectIndex", 2>> >>,
   error    |-> << >>]

(* The data block: the key or challenge, then what follows it. *)
SrvKey == [i \in 1..8 |-> 160 + i]
SrvToken == << 96, 3, 6 >>
SrvGuid == [i \in 1..16 |-> 16 + i]

SrvKeyOf(kind) == IF kind \in {"lanman", "ntlm"} THEN SrvKey ELSE << >>

SrvData(kind) ==
  CASE kind = "lanman"   -> SrvKey \o << 68, 0 >>
    [] kind = "ntlm"     -> SrvKey \o << 68, 0, 0, 0 >>
    [] kind = "ntlm_ext" -> SrvGuid \o SrvToken
    [] OTHER             -> << >>

SrvValues(kind, index) ==
  [DialectIndex |-> index, SecurityMode |-> 3, MaxMpxCount |-> 50, MaxVcCount |-> 1,
   MaxBufSize |-> 16644, MaxRawSize |-> 65536, SessionKey |-> 77, Capabilities |-> 58365,
   SystemTime |-> 1234567, TimeZone |-> 65416, KeyLength |-> Len(SrvKeyOf(kind)),
   RawMode |-> 2, ServerTime |-> 21, ServerDate |-> 22, Reserved |-> 0]

WordsOf(kind) == IF kind = "ntlm_ext" THEN SrvWords.ntlm ELSE SrvWords[kind]

STATUS_NOT_SUPPORTED == << 187, 0, 0, 192 >>

(* A reply: its shape, the dialect chosen, its bytes and what a decoder  *)
(* should find in each field of SMB1NegotiateRes (a value, as Num).      *)
SrvReply(kind, dialect, index, hdr) ==
  LET w    == WordsOf(kind)
      vals == SrvValues(kind, index)
      wbs  == FlattenSeq([i \in DOMAIN w |-> Wide(vals[w[i][1]], w[i][2])])
      h    == [hdr EXCEPT !.Flags = LE(152, 1),
                          !.Status = IF kind = "error" THEN STATUS_NOT_SUPPORTED ELSE Zeros(4)]
  IN  [kind    |-> kind,
       dialect |-> dialect,
       status  |-> h.Status,
       bytes   |-> MarshalHeader(h) \o << Len(wbs) \div 2 >> \o wbs
                     \o LE(Len(SrvData(kind)), 2) \o SrvData(kind),
       expect  |-> [f \in WordFields \cup {"WordCount", "ByteCount"} |->
                     CASE f = "WordCount" -> Num(<< Len(wbs) \div 2 >>)
                       [] f = "ByteCount" -> Num(LE(Len(SrvData(kind)), 2))
                       [] f = "DialectIndex" /\ kind = "error" -> Num(LE(65535, 2))
                       [] \E i \in DOMAIN w : w[i][1] = f -> Num(Wide(vals[f], 4))
                       [] OTHER -> << >>],
       blob    |-> IF kind = "ntlm_ext" THEN SrvToken ELSE SrvKeyOf(kind)]

(* The replies of shape k for a dialect of k the server found in list ds. *)
SrvFound(k, ds, hdr) ==
  UNION {{SrvReply(k, n, i - 1, hdr) : i \in {j \in DOMAIN ds : ds[j] = NameBytes(n)}} :
           n \in SrvDialects[k]}

(* Every reply the server may send to request bytes bs. *)
Replies(bs) ==
  LET offered == SrvParseRequest(bs)
      hdr     == UnmarshalHeader(SubSeq(bs, 1, 32))
  IN     UNION {SrvFound(k, offered.ds, hdr) : k \in ServerReplies \ {"none", "error"}}
     \cup {SrvReply("none", NoDialect, 65535, hdr) : x \in ServerReplies \cap {"none"}}
     \cup {SrvReply("error", Refused, 0, hdr) : x \in ServerReplies \cap {"error"}}

---------------------------------------------------------------------------
(* The exchange: build, marshal, answer (losing Drops bytes), decode.     *)

Init == /\ phase = "idle"
        /\ req = None /\ reqBytes = None /\ reply = None /\ resBuf = None /\ dec = None

NewReq == /\ phase = "idle"
          /\ req' = NewSMB1NegotiateReq
          /\ phase' = "built"
          /\ UNCHANGED << reqBytes, reply, resBuf, dec >>

MarshalReq == /\ phase = "built"
              /\ reqBytes' = MarshalSMB1NegotiateReq(req)
              /\ phase' = "sent"
              /\ UNCHANGED << req, reply, resBuf, dec >>

Respond == /\ phase = "sent"
           /\ \E rep \in Replies(reqBytes), d \in Drops :
                /\ d <= Len(rep.bytes)
                /\ reply' = rep
                /\ resBuf' = SubSeq(rep.bytes, 1, Len(rep.bytes) - d)
           /\ phase' = "answered"
           /\ UNCHANGED << req, reqBytes, dec >>

UnmarshalRes == /\ phase = "answered"
                /\ dec' = UnmarshalSMB1NegotiateRes(resBuf)
                /\ phase' = "done"
                /\ UNCHANGED << req, reqBytes, reply, resBuf >>

Next == NewReq \/ MarshalReq \/ Respond \/ UnmarshalRes

Spec == Init /\ [][Next]_vars

---------------------------------------------------------------------------
(* Refinement: the exchange implements NegotiateAbstract.  The client's   *)
(* outcome is the position in its own dialect list of the DialectIndex it *)
(* decoded; the server's choice is the dialect whose name it found.       *)

Outcome(d) ==
  IF d.status # "ok" THEN Failed
  ELSE IF LEValue(d.res.DialectIndex) = 65535 THEN NoDialect
  ELSE LEValue(d.res.DialectIndex) + 1

Abs == INSTANCE NegotiateAbstract WITH
         Offered <- DOMAIN NameLength,
         stage   <- CASE phase \in {"idle", "built"} -> "start"
                      [] phase = "sent"              -> "offered"
                      [] phase = "answered"          -> "answered"
                      [] phase = "done"              -> "learned",
         choice  <- IF phase \in {"answered", "done"} THEN reply.dialect ELSE Pending,
         outcome <- IF phase = "done" THEN Outcome(dec) ELSE Pending

---------------------------------------------------------------------------
(* Properties.                                                             *)

Bytes8(s) == \A i \in DOMAIN s : s[i] \in 0..255

TypeOK ==
  /\ phase \in {"idle", "built", "sent", "answered", "done"}
  /\ req = None \/ \A f \in DOMAIN req.Header : Bytes8(req.Header[f])
  /\ reqBytes = None \/ Bytes8(reqBytes)
  /\ resBuf = None \/ Bytes8(resBuf)
  /\ dec = None \/ (dec.status \in {"ok", "error", "panic"}
                     /\ \A f \in WordFields : Bytes8(dec.res[f]))

(* The negotiation the client learns is the one the server chose: the     *)
(* DialectIndex decoded by UnmarshalBinary, read against the dialect list *)
(* NewSMB1NegotiateReq built, names the dialect whose string the server   *)
(* found in the bytes MarshalBinary sent; or the decode fails.            *)
NegotiationRefined == Abs!Spec

(* UnmarshalBinary never slices past the end of what it received, however *)
(* many bytes the transport lost (a slice out of range panics in Go).     *)
NegotiateNeverPanics == phase = "done" => dec.status # "panic"

(* A complete reply that UnmarshalBinary accepts is decoded field by      *)
(* field: every word, ByteCount and the security blob hold what the       *)
(* server sent.                                                           *)
CompleteResponseDecoded ==
  (phase = "done" /\ resBuf = reply.bytes /\ dec.status = "ok")
    => /\ \A f \in WordFields \cup {"WordCount", "ByteCount"} :
            Num(dec.res[f]) = reply.expect[f]
       /\ dec.res.SecurityBlob = reply.blob

(* The comment at smb1.go:144 promises best-effort decoding of a short    *)
(* reply: each field either holds the server's value or is left zero.     *)
BestEffortFields ==
  (phase = "done" /\ dec.status = "ok")
    => \A f \in WordFields : Num(dec.res[f]) \in {<< >>, reply.expect[f]}

(* A server's error reply (WordCount 0, smb1.go:131) reaches the caller as *)
(* a decoded header carrying the server's status and DialectIndex 0xFFFF. *)
ErrorReplyDecoded ==
  (phase = "done" /\ reply.kind = "error" /\ resBuf = reply.bytes)
    => /\ dec.status = "ok"
       /\ dec.res.Header.Status = reply.status
       /\ dec.res.DialectIndex = LE(65535, 2)

=============================================================================

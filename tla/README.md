# TLA+ models of go-smb's MS-RRP codec, SMB1 negotiation and test program

This directory holds TLA+ models of three parts of go-smb, checked with TLC:
- the client-side codec for MS-RRP, the Windows Remote Registry protocol over
  DCE/RPC (`src/unnamed/part_001`, package `msrrp`);
- the SMB1 negotiate exchange (`src/smb/smb1.go`): the request, and the
  best-effort decoder of the reply;
- the test program `src/main.go`, which connects anonymously, then with
  credentials, and connects to IPC$.

## 1. The system

The code has no threads and no persistent state. Each operation is a
synchronous call, `MarshalBinary` or `UnmarshalBinary`, on a Go struct. Two
things make it worth model-checking: the data is laid out in NDR, and the
server it talks to is a separate program.

| Part | Source | State and operations |
|---|---|---|
| Primitive codec | `binary.Write`/`binary.Read`, `bytes.Reader`, and the msdtyp helpers `ToUnicode`, `FromUnicodeString`, `NullTerminate`, `StripNullByte`, `NewUnicodeStr` | The state is a byte buffer and a reader position. A `Seek` past the end succeeds. A short `Read` fails. |
| Referent-id allocator | `refId *uint32` threaded through one `MarshalBinary` (part_001:188-211, 935-941, 794-806, 1621-1657, 1712-1720) | A counter that embedded pointers read and then advance. The ids of EnumKey's LastWriteTime and CreateKey's lpdwDisposition are read without advancing it. |
| Unicode-string codec | `writeConformantVaryingString(Ptr)`, `writeRRPUnicodeStr`, `readConformantVaryingString(Ptr)`, `readRPCUnicodeStr`, `readRRPUnicodeStr` (67-211, 506-618) | A string is {Length, MaximumLength, pointer}, followed by {MaxCount, Offset, ActualCount, UTF-16 units, padding}. The writer also rewrites the caller's struct: it NUL-terminates `S` and raises `MaxLength`. |
| Operation catalogue | Request `MarshalBinary` and response `UnmarshalBinary` methods (634-1820) | Each request begins with a check that HKey is 20 bytes, then writes its fields in IDL order. Each response reads its fields in IDL order and stops at the first error. The value data of EnumValue, QueryValue and SetValue goes through the msdtyp array helpers `WriteConformantVaryingArrayPtr`, `WriteConformantArray` and `ReadConformantVaryingArrayPtr`. |
| Security-descriptor codec | `writeRPCSecurityAttributes`, `writeRPCSecurityDescriptor` (1621-1775) | Nested pointers and lengths. The counter is advanced at 1648 without an id being written. |
| REG_MULTI_SZ parser | `fromUnicodeStrArray` (35-65) | Splits the UTF-16 units of a buffer on NUL; a NUL after a NUL ends the list. A final string with no NUL is dropped. No code under `src/` calls it; it is meant for the data of a REG_MULTI_SZ value that QueryValue or EnumValue returns. |
| SMB1 negotiate | `smb/smb1.go` | `NewSMB1NegotiateReq` lists nine dialects; `MarshalBinary` writes the header, WordCount, ByteCount and the dialects. `UnmarshalBinary` reads a reply field by field, each field only if it still fits. |
| Test program | `src/main.go` | `main` runs `testNegotiation`, then `testAuthentication` when a user is given. Each test opens a session and defers `Close`; the second also defers `TreeDisconnect("IPC$")`. An authentication error ends the process with `os.Exit(1)`. |

How the parts interact in one call:
1. The caller fills a request struct.
2. `MarshalBinary` walks the request's fields. Every string goes through `writeRRPUnicodeStr`, which draws referent ids from the shared counter.
3. The bytes go to the server.
4. The response bytes, which may come back short, go to `UnmarshalBinary`.
5. `UnmarshalBinary` walks the response with one `bytes.Reader`. Any string reader that mis-sizes a string shifts every field after it.

Callers really do marshal the same struct more than once: a retry does, and so
does an enumeration loop that changes only the index.

### Hard behaviours and where they bite

These are listed in `PROJECT.json` under `hazards`:
- **Desync after an empty string.** `readRPCUnicodeStr` decides "null pointer" from Length == 0 (line 521). Any reader that mis-sizes a string shifts every later field.
- **Numeric edges in the header.**
  - Length is computed from Go's UTF-8 byte count (559).
  - `MaxLength*2` is computed in uint16 (574).
  - The reader's padding formula (117).
- **Pointer bookkeeping.**
  - The referent-id counter (207, 941, 1648).
  - The writer's padding (178).
- **Panics on input.**
  - `ReturnCode.UnmarshalBinary` has no length check (501).
  - A nil `LastWriteTime` is dereferenced (952).
  - A nil `*msdtyp.SecurityDescriptor`, the zero value of SaveKey's `SecurityAttributes`, is marshalled (1632).
- **Stale state on re-marshal.** The struct rewrite (557, 570) means a second marshal of the same struct starts from the rewritten values.
- **Truncated responses.** These are lost bytes at the transport:
  - decoders with no length check (1341);
  - a ReturnCode read from the end of the buffer (1222).
- **Reply layouts that depend on the request.** CreateKey with Disposition 0 sends a null lpdwDisposition, and the server's reply then has no Disposition. The decoder accepts its 28 bytes but reads 32 (827, 840).
- **Value data.**
  - QueryValue's decoder has no minimum length (1494).
  - The data array sits between a server-sized name and three counters, so a misread there shifts ReturnCode (1132).
  - The response reads lpcbData into `DataLen` and lpcbLen into `MaxLen`, the opposite of the request's naming (1522). After ERROR_MORE_DATA the size needed is in `DataLen`, and `MaxLen` is 0. A caller that follows the struct's comments (`MaxLen`: the bytes allocated) and retries with the response's `MaxLen` asks for 0 bytes again.
  - `fromUnicodeStrArray` drops a final string that has no NUL (55).
- **Security-descriptor sizes.** `cbInSecurityDescriptor` is raised to the descriptor's length, but the array's MaxCount, its size_is, is always that length (1734).

The SMB1 exchange and the test program interact only through
`smb.NewConnection`, whose negotiation code outside `src/` calls the SMB1
builder and decoder. The models keep them apart: `SmbTestCli` treats every
library call as a step of the environment that succeeds or fails.

More hard behaviours, in the SMB1 decoder and the test program:
- **Cut replies.** A field that does not fit is skipped, but the offset stays where it was. A later, narrower field then reads the skipped field's bytes (smb1.go:185-193).
- **Reply shapes.** Every reply is read with the NT LM 0.12 layout. That is wrong for LANMAN replies (WordCount 13) and for extended security (blob after a GUID, KeyLength 0), and the request itself invites both.
- **Minimum length.** 37 bytes are required, but an error reply is 35 (117).
- **Dialect list.** Each literal must carry its own NUL. Otherwise the server sees fewer dialects and every later DialectIndex names another dialect.
- **Deferred calls.** On every early return, the sessions must be closed in reverse order of registration (main.go:105, 125).

## 2. Modules

| Module | Models | Notes |
|---|---|---|
| `Ndr` | The primitive codec | A **writer** is `[toks, refId, req]` (req: the struct being marshalled). Each `binary.Write` appends a token `[g (field), k (kind), v (value at its width), b (bytes)]`, so properties can refer to fields by name. A **reader** is `[buf, pos, err]`. Once a reader has failed, every later operation is a no-op, which matches the early `return` after each `err != nil`. Go strings are sequences of code points: `GoLen` is the UTF-8 length, and `ToUnicode`/`FromUnicodeString` convert to and from UTF-16LE with surrogate pairs. |
| `RrpString` | The Unicode-string codec | One operator per Go function, with the same name. A reader's later stages (`ReadConformantVaryingStringBody`, `ReadVaryingElements`, `SkipPadding`, `ReadRPCUnicodeStrBody`, `StripRead`) are operators applied to the result of the stage before, following the code's sequence of reads and early returns. The writer carries the request struct, so `WriteRRPUnicodeStr(w, g, optional)` updates field `g` in place, as the Go code does through `*RRPUnicodeStr`. |
| `RrpMessages` | Fourteen request marshallers, eight response decoders, the security-descriptor writers and the msdtyp data-array writers | Results are `[status, toks, req]` and `[status, ReturnCode, Strings, Scalars, HKey]`. GetKeySecurity's descriptor bytes go in `Strings`, and so do the value data of EnumValue and QueryValue. For those two, `Scalars` holds Type, DataLen and MaxLen. A `msdtyp.SecurityDescriptor`, which is outside the repository, is modelled by the self-relative bytes its `MarshalBinary` returns. `status` is `"ok"`, `"error"` (an error was returned) or `"panic"` (a Go runtime panic). |
| `RrpCall` | One client making calls one after another | Described below. |
| `MCRrpCall` | Constant values for TLC | Described below. |

`RrpCall` has these variables:
- `op`: the current operation.
- `req`: the caller's struct.
- `sent`: the result of the last marshal.
- `res`: what the server sent, plus the number of bytes dropped.
- `resBuf`: the bytes actually received.
- `dec`: the result of the last decode.
- `strs`: the strings the caller's `fromUnicodeStrArray` returned.
- `phase`.

It has these actions:
- `Build`: the caller fills a struct.
- `MarshalReq`: a `MarshalBinary`. It is allowed again after a decode, which models a retry of the same struct.
- `Respond`: the server, which is the environment. It encodes by the NDR rules for the IDL and chooses where NDR leaves a choice: an empty string as a null pointer or as a pointer to an empty array, and NUL termination of RPC strings. The transport may also drop trailing bytes.
- `UnmarshalRes`: an `UnmarshalBinary`.
- `ParseMultiSz`: the caller runs `fromUnicodeStrArray` on the data of a REG_MULTI_SZ value it got back with ReturnCode 0. No code under `src/` makes this call; the step gives the parser the caller it is written for. `SplitUnits`, the parser's loop, is a `RECURSIVE` operator in `Ndr`.
- `RetryMoreData`: the caller of a QueryValue or EnumValue that got ERROR_MORE_DATA sets the request's `MaxLen` to the response's `DataLen` and calls again. The variable `retry` marks the second call. The history variable `held` records the value the server answered with, and on the retry the server reads that same value: no other caller writes it in between. No code under `src/` retries; the step is the caller the response's size fields exist for.

| `Smb1Negotiate` | The SMB1 negotiate exchange | Described below. |
| `MCSmb1Negotiate` | `Drops` for TLC | Every cut of the longest reply down to 37 bytes. |
| `NegotiateAbstract` | What a negotiation promises | The client offers; the server chooses a dialect, none, or refuses; the client learns the choice or fails. |
| `SmbTestCli` | The control flow of `src/main.go` | Described below. |

`MCRrpCall` gives values to the constants: the operations, handle lengths 19 and 20, caller strings, MaxLengths, CreateKey dispositions, the caller's security descriptor and its InSecurityDescriptor, server names and classes, the server's REG_MULTI_SZ values and how they are stored, the caller's data buffer sizes, return codes, empty-string forms and drops.

The server answers what it received. CreateKey returns a Disposition only when the request carried a non-null lpdwDisposition. GetKeySecurity echoes the request's `cbInSecurityDescriptor` as the MaxCount of its descriptor, and fails with ERROR_INSUFFICIENT_BUFFER when the descriptor does not fit. QueryValue and EnumValue answer with ERROR_MORE_DATA, the size needed and no data when the value does not fit the caller's lpcbData. Otherwise they return the data, Type, and lpcbData = lpcbLen = its length. The server holds each REG_MULTI_SZ value in one of three forms: with the list's final NUL ("double"), without it ("single"), or with the last string's NUL missing too ("unterminated"). It also holds a REG_DWORD.

`RrpCall` has no fairness and no liveness property. The code is synchronous:
each step is a function call that returns, and nothing waits on anything.

**`Smb1Negotiate`** keeps bytes exactly.
- A dialect name is abstracted to its length and identity: dialect n is `NameLength[n]` copies of byte 64+n. ByteCount and every offset are therefore those of the real names.
- Numeric fields stay as little-endian bytes, because TLC cannot hold a uint64. `Num` compares them by value.
- Each stage of the decoder is an operator applied to the result of the stage before. A stage's state is `[off, panic, res]`; `panic` records a slice out of range, which panics in Go.
- `SMB1NegotiateResBody` lists the optional fields in the order the code reads them, and `ReadIfPresent` is the code's `if len(buf) >= offset+n` guard.
- The header encoder (`encoder.Marshal`/`Unmarshal`) and `ProtocolSmb` are outside the repository and are modelled from the header's layout.

The variables are `phase`, `req`, `reqBytes`, `reply` (what the server sent and what each field means), `resBuf` and `dec`. The actions are:
- `NewReq`: `NewSMB1NegotiateReq`.
- `MarshalReq`: `MarshalBinary`.
- `Respond`: the server, which is the environment. It parses the request bytes by MS-CIFS 2.2.4.52.1 and finds in them the name of a dialect it speaks. It answers with an error reply, "no dialect" (0xFFFF), a core reply, a LANMAN reply (WordCount 13), or an NT LM 0.12 reply with a challenge or with extended security (MS-SMB 2.2.4.5.2). The transport may then lose any number of trailing bytes in `Drops`.
- `UnmarshalRes`: `UnmarshalBinary`.

A connection negotiates once, so the exchange stops after the decode (`CHECK_DEADLOCK FALSE`). SMB2 replies to the "SMB 2.x" names are not read by this decoder and are not generated.

**Refinement.** `Smb1Negotiate` implements `NegotiateAbstract` through `INSTANCE ... WITH`:
- the abstract stage comes from `phase`;
- the abstract choice is the dialect whose name the server found;
- the abstract outcome is the position, in the client's own list, of the DialectIndex the client decoded (or `Failed`).

`NegotiationRefined` is this `Abs!Spec`, checked as a `PROPERTY`. It ties the request encoding, the server's parse and the reply decoder together: an index is only right if all three agree.

**`SmbTestCli`** models `main`, `testNegotiation` and `testAuthentication`.
- `pc` is where `main` is.
- A running test function is a `frame` holding its position, its stack of deferred calls and its error.
- `Connect` (`NewConnection`), `CheckAuthenticated` and `TreeConnectIPC` choose success or failure. This is the environment.
- `RunDeferred` runs the last deferred call when the function returns, and `Return` hands the error back to `main`.
- `AfterAuthentication` is `os.Exit(1)`.
- The printing functions change no state.

Its specification has no fairness and the model checks no liveness property. `main` has no loop, so with every library call assumed to return it would end by the shape of its control flow; the one real risk, a `NewConnection` or `TreeConnect` that blocks, is outside what the code bounds (it sets no timeout), so no fairness is claimed.

## 3. Runs

| Run | Expect | What it shows |
|---|---|---|
| `core` | pass | Checks every operation except GetKeySecurity over ASCII names. It uses both valid and invalid handles, MaxLength 0 and 4, and empty and non-empty classes. CreateKey runs without security attributes and with attributes whose descriptor is set or nil; SaveKey, whose attributes are a value, runs with a descriptor set or nil (the zero value, which panics at 1632). SetKeySecurity runs with InSecurityDescriptor 0, equal to the descriptor's length, and 4096. EnumKey runs with a FILETIME and with a nil `LastWriteTime`, which panics at 952. QueryValue and EnumValue run with buffers of 4 and 16 bytes against REG_MULTI_SZ values of one and two strings, stored with and without the list's final NUL, and a REG_DWORD. SetValue sends the REG_MULTI_SZ data. 0, 1 or 4 bytes may be lost. It has 9943 distinct states. The properties it checks are listed below the table. |
| `string_header` | violation | An OpenKey sub-key `é` with MaxLength 32768. Length is written from the UTF-8 byte count, which is not 2 × ActualCount (line 559). MaximumLength wraps to 0 in uint16, which is below Length (574). |
| `empty_class_desync` | violation | The server sends ReturnCode 0 with an empty ClassOut encoded as a non-null pointer to an empty array. The client accepts the response and reports ReturnCode 4, which is the LastWriteTime referent id (521). |
| `rpc_nul` | violation | EnumValue's server NUL-terminates the value name, as the comment on `BaseRegEnumValueRes` (403-407) says Windows does. The decoder reads the name with `readRPCUnicodeStr` (1113), so the caller gets `B` plus a NUL (spec §4.1). QueryInfoKey's ClassOut is read the same way (1344). |
| `short_status` | violation | A DeleteKey status of 3 bytes panics in `le.Uint32` (501). |
| `createkey_null_disposition` | violation | `WholeResponseAccepted`: a CreateKey with Disposition 0 sends a null lpdwDisposition. The server's 28-byte reply is read as if it carried the pointer, and fails with EOF at ReturnCode (840). |
| `getkeysecurity_truncated` | violation | `NoSilentTruncation`: a GetKeySecurity reply that lost its last byte is accepted. ReturnCode is read from the last four bytes that arrived, which belong to the descriptor (1222). |
| `smb1_core` | pass | Error, no-dialect, core and NT LM 0.12 challenge replies, whole or cut at every length down to 37 bytes (317 states). Properties: `TypeOK`; `NegotiateNeverPanics`, the decoder never slices out of range; `CompleteResponseDecoded`, a whole accepted reply gives the server's value in every field and the blob; `NegotiationRefined`, described above. |
| `smb1_truncated` | violation | `BestEffortFields`: a field of a cut reply should hold the server's value or zero. A reply cut one byte into TimeZone is accepted with KeyLength 136, the low byte of TimeZone (smb1.go:190). |
| `smb1_ext_security` | violation | `CompleteResponseDecoded`: with the extended security that Flags2 0xc801 asks for, the server sends KeyLength 0 and the blob after a GUID. SecurityBlob stays empty (200). |
| `smb1_error_reply` | violation | `ErrorReplyDecoded`: the 35-byte error reply is rejected as too short, so the WordCount 0 branch (131) never sees the server's status (117). |
| `cli_core` | pass | Every flag setting and every outcome of every library call (107 states). Properties: `NoSessionLeak`, at exit no session is open and no tree connected, on every early return and on the `os.Exit(1)` path; `ExitZeroMeansAuthenticated`, exit 0 with credentials only after IPC$ was connected. |

Two marshalling hazards have no property. `core` reaches both, and neither has anything in the spec, a comment or a test to be checked against:
- A nil `LastWriteTime` or a nil security descriptor makes `MarshalBinary` panic (952, 1632). The spec lists no error for a nil pointer, and the zero value of each struct is legal Go.
- An InSecurityDescriptor of 4096 is sent as cbInSecurityDescriptor 4096 with an array whose MaxCount is the descriptor's length, 36 (1734). The spec's contract is what the code does; only the MS-RRP IDL ties MaxCount to the size_is field.

Leaving LANMAN replies out of `smb1_core` is deliberate. With `"lanman"` added to `ServerReplies`, `CompleteResponseDecoded` fails: every reply is read with the NT LM 0.12 layout (smb1.go:144). The hazard is listed in `PROJECT.json`.

A REG_MULTI_SZ value stored without its last NUL is also left out of `core`: with `MultiSzForms = {"unterminated"}`, `MultiSzDecoded` fails. The stored list `<< "B" >>` reaches the caller as `<< >>` (55). This has no run of its own, because no code under `src/` calls `fromUnicodeStrArray`.

The properties checked by `core`:
- **`TypeOK`**: every variable has its expected type.
- **`FieldsAligned`**: every field starts on its NDR alignment.
- **`RefIdsAscending`**: referent ids are non-zero and strictly ascending.
- **`StringHeaderConsistent`**: Length = 2·ActualCount, MaximumLength = 2·MaxCount, and Length ≤ MaximumLength.
- **`ReMarshalStable`**: marshalling the same struct again gives the same bytes.
- **`ReturnCodeDecoded`**: an accepted response yields the server's status.
- **`PayloadDecoded`**: an accepted successful response yields the server's strings, counters, times and handle.
- **`NoSilentTruncation`**: a response that lost bytes is never accepted.
- **`MultiSzDecoded`**: the strings `fromUnicodeStrArray` gives the caller for a REG_MULTI_SZ value are those the server holds. The property spans the server's storage form, the NDR data array, `ReadConformantVaryingArrayPtr` and the parse.
- **`MoreDataRetryFits`**: a retry after ERROR_MORE_DATA, with the size the first response reported, never gets ERROR_MORE_DATA again while the value is unchanged. The size must travel from the server's lpcbData, through the decoder's `DataLen`, into the request's `MaxLen` and back out as the retry's lpcbData and the MaxCount of its data array. Reading the two counters in the other order (1522) breaks it.
- **`WholeResponseAccepted`**: every reply the server sends whole is accepted. The decoder's minimum length and its reads agree with the reply the server builds for that request.

Each property of a passing run has a mutant in `PROJECT.json`: a plausible bug
in the mapped code that TLC catches under that run's configuration. Among the
MS-RRP mutants:
- OpenKeyRes demands 28 bytes;
- `fromUnicodeStrArray`'s loop stops one unit early;
- the value decoders read lpcbData into `MaxLen` and lpcbLen into `DataLen`.

The SMB1 mutants are:
- a 1-byte guard for every field;
- two fields read in swapped order;
- a dialect literal without its NUL.

The CLI mutants are:
- a missing `defer Close`;
- a TreeConnect error that is not returned.

**Bounds.** The bounds are chosen so that each interesting case occurs:
- Strings of 0, 1 and 2 characters, plus one already ending in NUL. With the added NUL these give odd and even unit counts, so both padding cases occur and `NullTerminate`'s no-op case is exercised.
- MaxLength 0, which the writer must raise, and 4, which is already larger than any string here.
- Drops of 1 byte, which cuts a field in half, and 4 bytes, which removes a whole field.
- One security descriptor, a self-relative header with an owner SID, 36 bytes. Its length is a multiple of 4, as every self-relative descriptor's is, so the padding after it is empty.
- REG_MULTI_SZ lists of one string and of two strings (of odd and even length), stored in the "double" and "single" forms. Data buffers of 4 bytes and of 16 bytes. The 4-byte buffer holds only the REG_DWORD and the one-string list without its final NUL. The 16-byte buffer holds every value. So both ERROR_MORE_DATA and a parse after each storage form occur.
- CreateKey's Disposition 1, which sends the pointer, in `core`, and 0, the null pointer, in `createkey_null_disposition`.

Longer strings repeat the same pattern modulo 4. Behaviours end after one
re-marshal because a second retry starts from the same struct as the first.

The SMB1 drops run from 0 to 44. That is every cut of the 81-byte NT LM reply down to the 37-byte minimum, so every optional field is cut at each of its bytes. The server's field values are distinct and non-zero, so any misread field shows. The CLI model has no bound: its state space is finite.

## 4. Not modelled, and the plan

There is no abstract MS-RRP specification with a refinement. The codec
keeps no state from one call to the next, so an abstract "the caller gets
what the server sent" specification would have one step per call and its
refinement mapping would be the invariants `ReturnCodeDecoded`,
`PayloadDecoded` and `NoSilentTruncation` restated. The refinement in this
project is the SMB1 one (`NegotiateAbstract`).

A retry of a value call while another client changes the value is not
modelled. The server may then answer ERROR_MORE_DATA again, and a caller has
to loop; no code under `src/` has such a loop.

These parts are not modelled:
- The two NOT IMPLEMENTED directions in smb1.go (93-95, 209-211) only return an error.
- `getDialectName` in main.go is never called.
- The NOT IMPLEMENTED directions of the MS-RRP types only return an error. `RpcSecurityAttributes.MarshalBinary` is `writeRPCSecurityAttributes` with a fresh counter, and no operation calls it.
- The text that main.go prints is left out.

------------------------------ MODULE MCRrpCall ------------------------------
(***************************************************************************)
(* Model-checking instances of RrpCall.  Strings are sequences of code     *)
(* points: 65 'A', 66 'B', 67 'C' (ASCII), 233 'e-acute' (two UTF-8 bytes, *)
(* one UTF-16 unit), 128512 (an emoji: four UTF-8 bytes, two UTF-16        *)
(* units) and 0 (NUL, as callers pass "Software\x00").                     *)
(***************************************************************************)
EXTENDS RrpCall

(* Caller strings: empty, one character, two (odd/even element counts     *)
(* with the NUL, so both padding cases occur) and already NUL-terminated.  *)
MCReqStringsAscii == {<< >>, << 65 >>, << 65, 66 >>, << 65, 0 >>}
MCReqStringsUnicode == {<< >>, << 233 >>, << 128512 >>}
MCReqStringsEmpty == {<< >>}
MCReqStringsOne == {<< 65 >>}
MCReqStringsAccent == {<< 233 >>}

(* MaxLength: 0 (raised by the writer), larger than any string here, and  *)
(* 32768, the smallest value whose doubling overflows Go's uint16.         *)
MCReqMaxLengths == {0, 4}
MCReqMaxLengthsWide == {4, 32768}
MCReqMaxLengthsWrap == {32768}

MCLastWriteTimes == {[Low |-> 0, High |-> 0]}
MCLastWriteTimesNil == {NIL, [Low |-> 0, High |-> 0]}

(* Caller's Disposition: REG_CREATED_NEW_KEY; and 0, no lpdwDisposition. *)
MCDispositions == {1}
MCDispositionsNull == {0}

(* A self-relative descriptor with an owner SID (S-1-5-32-544): control   *)
(* SE_SELF_RELATIVE, OffsetOwner 20, then the 16-byte SID; and the        *)
(* caller's InSecurityDescriptor: 0 (raised by the writer), exactly the  *)
(* descriptor's length, and 4096, the buffer size a GetKeySecurity caller  *)
(* offers and may pass back with the descriptor it got.                    *)
MCDescriptors == {<< 1, 0, 0, 128, 20, 0, 0, 0 >> \o [i \in 1..12 |-> 0]
                    \o << 1, 2, 0, 0, 0, 0, 0, 5, 32, 0, 0, 0, 32, 2, 0, 0 >>}
MCDescriptorSizes == {0, 36, 4096}

(* Server names of one and two characters: with the NUL, 2 and 3 UTF-16   *)
(* units, so one needs padding; the empty class and a one-letter class.    *)
MCServerNames == {<< 66 >>, << 66, 67 >>}
MCServerClasses == {<< >>, << 67 >>}

(* REG_MULTI_SZ values: one string, and two of odd and even length; as   *)
(* stored with the list's final NUL and without it.  A 4-byte buffer      *)
(* holds only the REG_DWORD and << "B" >> without the final NUL (the rest  *)
(* is ERROR_MORE_DATA); a 16-byte one holds every value.                   *)
MCServerValues == {<< << 66 >> >>, << << 66 >>, << 66, 67 >> >>}
MCMultiSzForms == {"double", "single"}
MCDataMaxLens == {4, 16}

(* Losing no byte, one byte, and a whole 32-bit field. *)
MCDrops == {0, 1, 4}
=============================================================================

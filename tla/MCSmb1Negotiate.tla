--------------------------- MODULE MCSmb1Negotiate ---------------------------
(***************************************************************************)
(* Constant values for checking Smb1Negotiate with TLC.                   *)
(***************************************************************************)
EXTENDS Smb1Negotiate

(* Every cut of the longest reply (81 bytes, NT LM 0.12 with a challenge)  *)
(* down to the 37 bytes the decoder requires, so each optional field is   *)
(* cut at each of its bytes.                                              *)
MCDrops == 0..44

=============================================================================

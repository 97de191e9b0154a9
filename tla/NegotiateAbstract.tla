-------------------------- MODULE NegotiateAbstract --------------------------
(***************************************************************************)
(* What a dialect negotiation promises, whatever its wire format: the     *)
(* client offers its dialects, the server answers with one of them, with  *)
(* "no dialect acceptable" or with a refusal, and the client learns that  *)
(* answer or fails.  It never learns a dialect the server did not choose. *)
(***************************************************************************)
CONSTANTS
  Offered,     \* the dialects the client offers, by their position
  NoDialect,   \* the server accepts none of them
  Refused,     \* the server answers with an error
  Failed,      \* the client could not decode the answer
  Pending      \* no answer yet

VARIABLES stage, choice, outcome

vars == << stage, choice, outcome >>

Init == stage = "start" /\ choice = Pending /\ outcome = Pending

(* The client sends its offer. *)
Offer == stage = "start" /\ stage' = "offered" /\ UNCHANGED << choice, outcome >>

(* The server decides. *)
Answer == /\ stage = "offered"
          /\ stage' = "answered"
          /\ choice' \in Offered \cup {NoDialect, Refused}
          /\ UNCHANGED outcome

(* The client reads the answer: it learns the server's choice or fails. *)
Learn == /\ stage = "answered"
         /\ stage' = "learned"
         /\ outcome' \in {choice, Failed}
         /\ UNCHANGED choice

Next == Offer \/ Answer \/ Learn

Spec == Init /\ [][Next]_vars

=============================================================================

----------------------------- MODULE MCExchange -----------------------------
(* The sets of pairs a configuration cannot write, for model checking Exchange. *)
EXTENDS Exchange

\* The owners of the first two orders cannot receive one of the tokens: a buyer and
\* a seller, of the token they locked or of the one they want.
SomeRefuse == {<<1, "buy">>, <<2, "sell">>}

NobodyRefuses == {}
=============================================================================

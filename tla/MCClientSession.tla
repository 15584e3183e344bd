--------------------------- MODULE MCClientSession ---------------------------
(* Finite instances of ClientSession for TLC. *)
EXTENDS ClientSession

(* One pair; two kinds of one instrument; two instruments. *)
OnePair == {<<"A", "trade">>}
TwoKinds == {<<"A", "trade">>, <<"A", "quote">>}
TwoInstruments == {<<"A", "trade">>, <<"B", "trade">>}

=============================================================================

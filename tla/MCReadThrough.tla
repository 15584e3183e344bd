--------------------------- MODULE MCReadThrough ---------------------------
(* Finite instances of ReadThrough for TLC. *)
EXTENDS ReadThrough, TLC

CONSTANTS h1, h2, l

(* Two historical sessions over a range the endpoint serves, or serves only *)
(* in part at first; a stitched one while the market trades, alone or        *)
(* beside a historical one.                                                  *)
Closed == [who |-> {h1, h2}, start |-> Ticks, served |-> Ticks, market |-> {0, 1}]
Lagged == [Closed EXCEPT !.served = 1]
Trading == [who |-> {l}, start |-> 1, served |-> 1, market |-> {0, 1, 2}]
Beside == [who |-> {h1, l}, start |-> 2, served |-> 1, market |-> {1, 2}]
All == {Closed, Lagged, Trading, Beside}
ClosedOnly == {Closed}
Sliver == {Lagged, Trading}
Busy == {[Closed EXCEPT !.market = {0, 1, 2}]}

(* Sessions differ in nothing but their name. *)
Symmetry == Permutations(Historical)

(* A range and one inside it, so that a plan has covered and missing parts. *)
NestedRanges == {<<0, 3>>, <<1, 2>>}
OneRange == {<<0, 2>>}

(* cached and refresh; cached alone. *)
Writing == BOOLEAN \X {TRUE}
Cached == {<<TRUE, TRUE>>}

=============================================================================

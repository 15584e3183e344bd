------------------------------ MODULE MCTapLog ------------------------------
(* Finite instances of TapLog for TLC. *)
EXTENDS TapLog

(* Source time runs against arrival order once. *)
Backwards == <<2, 1>>
(* A replay of every stream. *)
Window == {[streams |-> {}, from |-> 0, to |-> 3]}

=============================================================================

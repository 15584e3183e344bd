------------------------------ MODULE MCLaunch ------------------------------
(* Finite instances of Launch for TLC. *)
EXTENDS Launch, TLC

CONSTANTS a1, a2, d1, d2, d3

(* Two releases of one app below 1.0, or one of them twice. *)
SameRelease == (a1 :> <<0, 1>>) @@ (a2 :> <<0, 1>>)
TwoReleases == (a1 :> <<0, 1>>) @@ (a2 :> <<0, 2>>)

=============================================================================

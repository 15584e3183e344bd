------------------------------ MODULE MCDaemon ------------------------------
(* Finite instances of Daemon for TLC. *)
EXTENDS Daemon, TLC

CONSTANTS c1, c2

(* A backtest that also stops the daemon, beside a live consumer. *)
Backtest == c1 :> {"open-query", "cancel-query", "shutdown"} @@ c2 :> {"ask", "open-client", "close-client"}
(* Two consumers that use one client name. *)
Namesakes == [c \in Conns |-> {"open-client", "close-client"}]

=============================================================================

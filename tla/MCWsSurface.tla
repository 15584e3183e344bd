---------------------------- MODULE MCWsSurface ----------------------------
(* Model-checking instances of WsSurface.                                   *)
EXTENDS WsSurface

(* A data event, a control the stream suppresses, and a gap.                *)
Stream == [c \in Conns |-> <<"trade", "provider_disconnected", "gap">>]
Requests == [c \in Conns |-> {"subscribe", "watch-health", "close-client"}]
=============================================================================

--------------------------- MODULE MCShmTransport ---------------------------
(* Model-checking instances of ShmTransport.                                *)
EXTENDS ShmTransport

CONSTANTS i1, i2, i3

(* Two instruments in turn, a suppressed control, and the terminal event.   *)
Events == << [kind |-> "trade", inst |-> i1], [kind |-> "gap", inst |-> i2],
             [kind |-> "provider_error", inst |-> i1], [kind |-> "trade", inst |-> i1],
             [kind |-> "trade", inst |-> i2], [kind |-> "session_closing", inst |-> "none"] >>

(* The same, cut off by an instrument that cannot be announced.             *)
Long == << [kind |-> "trade", inst |-> i1], [kind |-> "trade", inst |-> i3],
           [kind |-> "session_closing", inst |-> "none"] >>

Streams == {Events, Long}
=============================================================================

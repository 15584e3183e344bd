----------------------------- MODULE WsSurface -----------------------------
(***************************************************************************)
(* The WebSocket client surface, both ends of the socket.                  *)
(*                                                                         *)
(* Daemon (crates/datamancerd/src/ws/): `listener::serve` accepts under a  *)
(* connection cap and spawns one `handle_connection` per socket, whose     *)
(* control loop, event pump, health pushers and socket writer are separate *)
(* tasks sharing one bounded outbound channel.                             *)
(*                                                                         *)
(* Client (crates/datamancer-client/src/ws.rs): a reader task demultiplexes*)
(* the socket into the event buffer and the table of pending requests; the *)
(* application issues one request at a time and drains the event stream.   *)
(*                                                                         *)
(* An event is its kind and its place in the session's stream; a frame is  *)
(* its type and what it carries.  Time enters only as the timeouts of the  *)
(* teardown, which may fire whenever their wait is unfinished.  A request   *)
(* that asks something of the library waits for its answer, however long    *)
(* that takes: no timeout covers it, and the control loop hears nothing     *)
(* meanwhile.                                                               *)
(***************************************************************************)
EXTENDS Naturals, Sequences, FiniteSets, SequencesExt

CONSTANTS
  Conns,            \* the sockets that ever reach the listener
  MaxConnections,   \* [ws].max_connections: the permits of the semaphore
  Depth,            \* [ws].channel_depth: the outbound channel
  WireCap,          \* bound: frames the socket holds between the two ends
  EventBuffer,      \* WsConfig::event_buffer
  Feed,             \* Feed[c]: the kinds of the events of c's session, in order
  Asks,             \* Asks[c]: the requests c's application makes
  MaxCalls,         \* bound: requests per connection
  MaxPushes,        \* bound: ticks of the health interval per connection
  MaxBreaks,        \* bound: sockets the network breaks
  Drains            \* TRUE: the event stream is drained by a task of its own

ASSUME WsAssumption ==
  /\ MaxConnections \in Nat \ {0} /\ Depth \in Nat \ {0}
  /\ WireCap \in Nat \ {0} /\ EventBuffer \in Nat \ {0}
  /\ Drains \in BOOLEAN

VARIABLES
  listener, \* "accepting", "draining" (shutdown broadcast), "returned", "exited"
  task,     \* task[c]: where handle_connection stands
  parked,   \* parked[c]: the reply its control loop is sending
  pump,     \* pump[c]: the event pump's task
  fed,      \* fed[c]: events the pump has taken from the session's stream
  cancel,   \* cancel[c]: the permit of the per-connection Notify
  pusher,   \* pusher[c]: health-push tasks are running
  pushes,   \* pushes[c]: ticks so far
  out,      \* out[c]: the outbound channel
  writer,   \* writer[c]: run_writer's task
  wire,     \* wire[c]: frames on the socket, towards the client
  up,       \* up[c]: requests on the socket, towards the daemon
  broken,   \* broken[c]: the network connection is dead
  reader,   \* reader[c]: run_reader's task; "gone" is PendingTable::closed
  pending,  \* pending[c]: PendingTable::map
  call,     \* call[c]: the application's request in progress
  buf,      \* buf[c]: the client's event buffer
  got,      \* got[c]: the events the application has read
  holds     \* holds[c]: the application holds the event stream

daemonVars == <<listener, task, parked, pump, fed, cancel, pusher, pushes, writer>>
clientVars == <<reader, pending, call, buf, got, holds>>
vars == <<daemonVars, out, wire, up, broken, clientVars>>

None == [type |-> "none"]
NoFrame == [type |-> "no_frame"]
Idle == [at |-> "idle", op |-> "none", id |-> 0]

(* Controls about the provider's connection stay off the event stream.     *)
ConnectionScoped == {"provider_connected", "provider_disconnected", "provider_error"}

(* wire::to_wire: an event's frame, or none for a connection-scoped control.*)
to_wire(ev) == IF ev.kind \in ConnectionScoped
                 THEN NoFrame
                 ELSE [type |-> "event", kind |-> ev.kind, n |-> ev.n]

(* wire::from_wire: the event a frame stands for, its fields verbatim.      *)
from_wire(f) == [kind |-> f.kind, n |-> f.n]

Event(c, n) == [kind |-> Feed[c][n], n |-> n]

Closing == [kind |-> "session_closing", n |-> 0]

(* WsReply: the answer to a request, echoing its id; the session's verdict  *)
(* in it is for the application and changes nothing on the way.             *)
WsReply(req) == [type |-> "reply", id |-> req.id, op |-> req.op]

HealthPushFrame == [type |-> "health"]
CloseFrame == [type |-> "close"]

(* Whoever holds a sender keeps the outbound channel open.                  *)
HasSender(c) ==
  \/ task[c] \in {"loop", "dispatch", "reply", "close", "pump"}
  \/ pump[c] = "run"
  \/ pusher[c]

(* The states of the control loop.                                          *)
Serving == {"loop", "dispatch", "reply"}

Busy == {c \in Conns : task[c] \notin {"none", "done"}}

SessionClosed(c) == task[c] \in {"pump", "writer", "done"}

Init ==
  /\ listener = "accepting"
  /\ task = [c \in Conns |-> "none"]
  /\ parked = [c \in Conns |-> None]
  /\ pump = [c \in Conns |-> "none"]
  /\ fed = [c \in Conns |-> 0]
  /\ cancel = [c \in Conns |-> FALSE]
  /\ pusher = [c \in Conns |-> FALSE]
  /\ pushes = [c \in Conns |-> 0]
  /\ writer = [c \in Conns |-> "none"]
  /\ out = [c \in Conns |-> <<>>]
  /\ wire = [c \in Conns |-> <<>>]
  /\ up = [c \in Conns |-> <<>>]
  /\ broken = [c \in Conns |-> FALSE]
  /\ reader = [c \in Conns |-> "none"]
  /\ pending = [c \in Conns |-> {}]
  /\ call = [c \in Conns |-> Idle]
  /\ buf = [c \in Conns |-> <<>>]
  /\ got = [c \in Conns |-> <<>>]
  /\ holds = [c \in Conns |-> FALSE]

----------------------------------------------------------------------------
(* The listener.                                                            *)

(* listener::serve, an accept: past the cap the socket is dropped at once,  *)
(* otherwise the permit is held for as long as the connection's task lives. *)
Accept(c) ==
  /\ listener = "accepting"
  /\ task[c] = "none"
  /\ Cardinality(Busy) < MaxConnections
  /\ task' = [task EXCEPT ![c] = "handshake"]
  /\ UNCHANGED <<listener, parked, pump, fed, cancel, pusher, pushes, writer,
                 out, wire, up, broken, clientVars>>

(* conn::ct_eq and accept_with_auth: the bearer token first, then the wire  *)
(* version among the offered subprotocols.                                  *)
authorized(token) == token = "right"
accept_with_auth(token, offered) ==
  IF ~authorized(token) THEN "unauthorized" ELSE IF ~offered THEN "bad_request" ELSE "accepted"

(* handle_connection up to its loop, with WsClient::connect on the other    *)
(* end: a refused upgrade ends the task, an accepted one starts the writer, *)
(* the pump and the client's reader.                                        *)
Handshake(c) ==
  /\ task[c] = "handshake"
  /\ \E token \in {"right", "wrong"}, offered \in BOOLEAN :
       IF accept_with_auth(token, offered) = "accepted"
         THEN /\ task' = [task EXCEPT ![c] = "loop"]
              /\ writer' = [writer EXCEPT ![c] = "run"]
              /\ pump' = [pump EXCEPT ![c] = "run"]
              /\ reader' = [reader EXCEPT ![c] = "read"]
              /\ holds' = [holds EXCEPT ![c] = TRUE]
         ELSE /\ task' = [task EXCEPT ![c] = "done"]
              /\ UNCHANGED <<writer, pump, reader, holds>>
  /\ UNCHANGED <<listener, parked, fed, cancel, pusher, pushes, out, wire, up,
                 broken, pending, call, buf, got>>

(* The supervisor's shutdown resolves: accepts stop, every connection is    *)
(* signalled.                                                               *)
Shutdown ==
  /\ listener = "accepting"
  /\ listener' = "draining"
  /\ UNCHANGED <<task, parked, pump, fed, cancel, pusher, pushes, writer, out,
                 wire, up, broken, clientVars>>

(* serve returns once the tasks are joined or after three seconds, when the *)
(* dropped JoinSet aborts the connection tasks that are left; the tasks     *)
(* those spawned are not theirs to abort.                                   *)
ServeReturns ==
  /\ listener = "draining"
  /\ listener' = "returned"
  /\ task' = [c \in Conns |-> IF c \in Busy THEN "done" ELSE task[c]]
  /\ UNCHANGED <<parked, pump, fed, cancel, pusher, pushes, writer, out, wire,
                 up, broken, clientVars>>

(* The process exits behind it and takes every socket and task along.       *)
ProcessExits ==
  /\ listener = "returned"
  /\ listener' = "exited"
  /\ broken' = [c \in Conns |-> TRUE]
  /\ pump' = [c \in Conns |-> "none"]
  /\ writer' = [c \in Conns |-> "done"]
  /\ pusher' = [c \in Conns |-> FALSE]
  /\ out' = [c \in Conns |-> <<>>]
  /\ UNCHANGED <<task, parked, fed, cancel, pushes, wire, up, clientVars>>

----------------------------------------------------------------------------
(* One connection: control loop, pump, pushers, writer.                     *)

(* dispatch, its reply: a request that does not parse is answered with the  *)
(* id 0, every other with its own.                                          *)
dispatch(req) ==
  IF req.op = "unknown" THEN [WsReply(req) EXCEPT !.id = 0] ELSE WsReply(req)

(* dispatch answers these itself; all others await the library: a session's  *)
(* subscribe and unsubscribe the provider and the controller, a catalog the  *)
(* provider's REST interface.                                                *)
AnsweredHere == {"unknown", "close-client", "watch-health"}

(* The control loop takes a frame off the socket and dispatches it.         *)
ReadRequest(c) ==
  /\ task[c] = "loop" /\ up[c] # <<>>
  /\ parked' = [parked EXCEPT ![c] = dispatch(Head(up[c]))]
  /\ up' = [up EXCEPT ![c] = Tail(@)]
  /\ task' = [task EXCEPT ![c] =
       IF Head(up[c]).op \in AnsweredHere THEN "reply" ELSE "dispatch"]
  /\ UNCHANGED <<listener, pump, fed, cancel, pusher, pushes, writer, out, wire,
                 broken, clientVars>>

(* dispatch(...).await: the library answers.                                *)
Dispatched(c) ==
  /\ task[c] = "dispatch"
  /\ task' = [task EXCEPT ![c] = "reply"]
  /\ UNCHANGED <<listener, parked, pump, fed, cancel, pusher, pushes, writer, out,
                 wire, up, broken, clientVars>>

(* The reply enters the outbound channel when there is room; only then does *)
(* watch-health start its pusher and close-client leave the loop.           *)
SendReply(c) ==
  /\ task[c] = "reply" /\ writer[c] = "run" /\ Len(out[c]) < Depth
  /\ out' = [out EXCEPT ![c] = Append(@, parked[c])]
  /\ parked' = [parked EXCEPT ![c] = None]
  /\ pusher' = [pusher EXCEPT ![c] = @ \/ parked[c].op = "watch-health"]
  /\ task' = [task EXCEPT ![c] =
       IF parked[c].op = "close-client" THEN "close" ELSE "loop"]
  /\ UNCHANGED <<listener, pump, fed, cancel, pushes, writer, wire, up, broken, clientVars>>

(* What ends the control loop besides close-client: the daemon's shutdown   *)
(* and the pump's cancel, both also raced against the parked reply, the     *)
(* socket's end or error, and a closed outbound channel.                    *)
Ends(c) ==
  \/ listener # "accepting"
  \/ cancel[c]
  \/ task[c] = "loop" /\ broken[c] /\ up[c] = <<>>
  \/ task[c] = "reply" /\ writer[c] = "done"

(* Faulty variant: the parked reply is not raced against the two signals.   *)
LoopBreaks_deaf(c) ==
  /\ task[c] = "loop"
  /\ Ends(c)
  /\ task' = [task EXCEPT ![c] = "close"]
  /\ parked' = [parked EXCEPT ![c] = None]
  /\ cancel' = [cancel EXCEPT ![c] = FALSE]
  /\ UNCHANGED <<listener, pump, fed, pusher, pushes, writer, out, wire, up,
                 broken, clientVars>>

LoopBreaks(c) ==
  /\ task[c] \in {"loop", "reply"}
  /\ Ends(c)
  /\ task' = [task EXCEPT ![c] = "close"]
  /\ parked' = [parked EXCEPT ![c] = None]
  /\ cancel' = [cancel EXCEPT ![c] = FALSE]
  /\ UNCHANGED <<listener, pump, fed, pusher, pushes, writer, out, wire, up,
                 broken, clientVars>>

(* Teardown: abort the health pushers and close the session, whose stream   *)
(* then ends behind a terminal event.                                       *)
CloseSession(c) ==
  /\ task[c] = "close"
  /\ pusher' = [pusher EXCEPT ![c] = FALSE]
  /\ task' = [task EXCEPT ![c] = "pump"]
  /\ UNCHANGED <<listener, parked, pump, fed, cancel, pushes, writer, out, wire,
                 up, broken, clientVars>>

(* Wait two seconds at most for the pump, then drop the last sender.        *)
AwaitPump(c) ==
  /\ task[c] = "pump"
  /\ task' = [task EXCEPT ![c] = "writer"]
  /\ UNCHANGED <<listener, parked, pump, fed, cancel, pusher, pushes, writer,
                 out, wire, up, broken, clientVars>>

(* Wait two seconds at most for the writer; the permit goes back with the   *)
(* task, whether the writer has finished or lives on.                       *)
AwaitWriter(c) ==
  /\ task[c] = "writer"
  /\ task' = [task EXCEPT ![c] = "done"]
  /\ UNCHANGED <<listener, parked, pump, fed, cancel, pusher, pushes, writer,
                 out, wire, up, broken, clientVars>>

(* WsDataSink::publish: a suppressed event counts as delivered, a frame is  *)
(* try_sent, a full or closed channel rejects it.                           *)
Rejects(c, frame) == frame # NoFrame /\ (writer[c] # "run" \/ Len(out[c]) >= Depth)
publish(c, frame) ==
  out' = IF frame = NoFrame \/ Rejects(c, frame)
           THEN out ELSE [out EXCEPT ![c] = Append(@, frame)]

(* Faulty variant: the pump steps over an event the channel has no room for.*)
PumpEvent_skips(c) ==
  /\ pump[c] = "run" /\ fed[c] < Len(Feed[c])
  /\ publish(c, to_wire(Event(c, fed[c] + 1)))
  /\ fed' = [fed EXCEPT ![c] = @ + 1]
  /\ UNCHANGED <<listener, task, parked, pump, cancel, pusher, pushes, writer,
                 wire, up, broken, clientVars>>

(* spawn_pump, one event: a rejection stops the pump and signals cancel.    *)
PumpEvent(c) ==
  /\ pump[c] = "run" /\ fed[c] < Len(Feed[c])
  /\ LET frame == to_wire(Event(c, fed[c] + 1)) IN
       /\ publish(c, frame)
       /\ pump' = [pump EXCEPT ![c] = IF Rejects(c, frame) THEN "ended" ELSE @]
       /\ cancel' = [cancel EXCEPT ![c] = @ \/ Rejects(c, frame)]
  /\ fed' = [fed EXCEPT ![c] = @ + 1]
  /\ UNCHANGED <<listener, task, parked, pusher, pushes, writer, wire, up,
                 broken, clientVars>>

(* spawn_pump, the end of a closed session's stream: the terminal event is  *)
(* published like any other, and may be rejected like any other.            *)
PumpTerminal(c) ==
  /\ pump[c] = "run" /\ SessionClosed(c)
  /\ publish(c, to_wire(Closing))
  /\ pump' = [pump EXCEPT ![c] = "ended"]
  /\ cancel' = [cancel EXCEPT ![c] = @ \/ Rejects(c, to_wire(Closing))]
  /\ UNCHANGED <<listener, task, parked, fed, pusher, pushes, writer, wire, up,
                 broken, clientVars>>

(* spawn_health_push, one tick: dropped when the channel is full, the last  *)
(* one when it is closed.                                                   *)
HealthPush(c) ==
  /\ pusher[c] /\ pushes[c] < MaxPushes
  /\ pushes' = [pushes EXCEPT ![c] = @ + 1]
  /\ pusher' = [pusher EXCEPT ![c] = writer[c] = "run"]
  /\ publish(c, HealthPushFrame)
  /\ UNCHANGED <<listener, task, parked, pump, fed, cancel, writer, wire, up,
                 broken, clientVars>>

(* run_writer, one frame: onto the socket when it has room; a failed send   *)
(* closes the channel.                                                      *)
Write(c) ==
  /\ writer[c] = "run" /\ out[c] # <<>>
  /\ IF broken[c]
       THEN /\ writer' = [writer EXCEPT ![c] = "done"]
            /\ out' = [out EXCEPT ![c] = <<>>]
            /\ UNCHANGED wire
       ELSE /\ Len(wire[c]) < WireCap
            /\ wire' = [wire EXCEPT ![c] = Append(@, Head(out[c]))]
            /\ out' = [out EXCEPT ![c] = Tail(@)]
            /\ UNCHANGED writer
  /\ UNCHANGED <<listener, task, parked, pump, fed, cancel, pusher, pushes, up,
                 broken, clientVars>>

(* run_writer, the channel closed and drained: a clean Close frame.         *)
WriterCloses(c) ==
  /\ writer[c] = "run" /\ out[c] = <<>> /\ ~HasSender(c)
  /\ broken[c] \/ Len(wire[c]) < WireCap
  /\ writer' = [writer EXCEPT ![c] = "done"]
  /\ wire' = [wire EXCEPT ![c] = IF broken[c] THEN @ ELSE Append(@, CloseFrame)]
  /\ UNCHANGED <<listener, task, parked, pump, fed, cancel, pusher, pushes, out,
                 up, broken, clientVars>>

----------------------------------------------------------------------------
(* The network and the client.                                              *)

(* The connection dies; each end finds out when it next uses it.            *)
Break(c) ==
  /\ reader[c] = "read" /\ ~broken[c]
  /\ Cardinality({x \in Conns : broken[x]}) < MaxBreaks
  /\ broken' = [broken EXCEPT ![c] = TRUE]
  /\ UNCHANGED <<daemonVars, out, wire, up, clientVars>>

(* Faulty variant: registers whether or not the reader has left.            *)
Call_unlatched(c) ==
  /\ reader[c] # "none" /\ call[c].at = "idle" /\ call[c].id < MaxCalls
  /\ \E op \in Asks[c] :
       LET id == call[c].id + 1 IN
       /\ call' = [call EXCEPT ![c] = [at |-> "write", op |-> op, id |-> id]]
       /\ pending' = [pending EXCEPT ![c] = @ \cup {id}]
  /\ UNCHANGED <<daemonVars, out, wire, up, broken, reader, buf, got, holds>>

(* WsClient::request up to the registration: refused at once when the       *)
(* reader has left, otherwise the id is in the table before it is sent.     *)
Call(c) ==
  /\ reader[c] # "none" /\ call[c].at = "idle" /\ call[c].id < MaxCalls
  /\ \E op \in Asks[c] :
       LET id == call[c].id + 1 IN
       IF reader[c] = "gone"
         THEN /\ call' = [call EXCEPT ![c] = [at |-> "idle", op |-> op, id |-> id]]
              /\ UNCHANGED pending
         ELSE /\ call' = [call EXCEPT ![c] = [at |-> "write", op |-> op, id |-> id]]
              /\ pending' = [pending EXCEPT ![c] = @ \cup {id}]
  /\ UNCHANGED <<daemonVars, out, wire, up, broken, reader, buf, got, holds>>

(* A socket that is dead, or whose far end has closed, may take the bytes   *)
(* all the same.                                                            *)
Doubtful(c) == broken[c] \/ writer[c] = "done"

(* WsClient::request, the write: sent and awaited, or failed and taken back *)
(* out of the table.  An entry the reader has cleared meanwhile fails the   *)
(* wait at once.                                                            *)
WriteCall(c) ==
  /\ call[c].at = "write"
  /\ \/ /\ up' = [up EXCEPT ![c] = IF Doubtful(c) THEN @
                    ELSE Append(@, [op |-> call[c].op, id |-> call[c].id])]
        /\ call' = [call EXCEPT ![c].at = IF call[c].id \in pending[c] THEN "await" ELSE "idle"]
        /\ UNCHANGED pending
     \/ /\ Doubtful(c)
        /\ call' = [call EXCEPT ![c].at = "idle"]
        /\ pending' = [pending EXCEPT ![c] = @ \ {call[c].id}]
        /\ UNCHANGED up
  /\ UNCHANGED <<daemonVars, out, wire, broken, reader, buf, got, holds>>

(* A reply settles the request that awaits its id; close() consumes the     *)
(* client.                                                                  *)
Settled(c, f) ==
  IF f.type = "reply" /\ f.id \in pending[c] /\ f.id = call[c].id
    THEN [call[c] EXCEPT !.at = IF call[c].op = "close-client" THEN "closed" ELSE "idle"]
    ELSE call[c]

(* run_reader, one frame: an event waits for room in the buffer, or goes    *)
(* nowhere once the stream was dropped; a reply settles its request; a      *)
(* health push is best effort.                                              *)
Read(c) ==
  /\ reader[c] = "read" /\ wire[c] # <<>>
  /\ LET f == Head(wire[c]) IN
       /\ f.type # "close"
       /\ f.type = "event" /\ holds[c] => Len(buf[c]) < EventBuffer
       /\ buf' = IF f.type = "event" /\ holds[c]
                   THEN [buf EXCEPT ![c] = Append(@, from_wire(f))] ELSE buf
       /\ pending' = IF f.type = "reply"
                       THEN [pending EXCEPT ![c] = @ \ {f.id}] ELSE pending
       /\ call' = [call EXCEPT ![c] = Settled(c, f)]
  /\ wire' = [wire EXCEPT ![c] = Tail(@)]
  /\ UNCHANGED <<daemonVars, out, up, broken, reader, got, holds>>

(* run_reader, the socket's end: every pending request fails and the latch  *)
(* turns later ones away.                                                   *)
ReaderExits(c) ==
  /\ reader[c] = "read"
  /\ broken[c] \/ (wire[c] # <<>> /\ Head(wire[c]).type = "close")
  /\ reader' = [reader EXCEPT ![c] = "gone"]
  /\ pending' = [pending EXCEPT ![c] = {}]
  /\ call' = [call EXCEPT ![c].at = IF @ = "await" THEN "idle" ELSE @]
  /\ wire' = [wire EXCEPT ![c] = <<>>]
  /\ UNCHANGED <<daemonVars, out, up, broken, buf, got, holds>>

(* The application reads an event; without a task of its own for that, not  *)
(* while it waits for a reply.                                              *)
Consume(c) ==
  /\ buf[c] # <<>> /\ holds[c]
  /\ Drains \/ call[c].at \notin {"write", "await"}
  /\ got' = [got EXCEPT ![c] = Append(@, Head(buf[c]))]
  /\ buf' = [buf EXCEPT ![c] = Tail(@)]
  /\ UNCHANGED <<daemonVars, out, wire, up, broken, reader, pending, call, holds>>

(* The application drops the event stream; the control plane lives on.      *)
DropStream(c) ==
  /\ holds[c] /\ got[c] = <<>>
  /\ holds' = [holds EXCEPT ![c] = FALSE]
  /\ buf' = [buf EXCEPT ![c] = <<>>]
  /\ UNCHANGED <<daemonVars, out, wire, up, broken, reader, pending, call, got>>

----------------------------------------------------------------------------
DaemonStep(c) ==
  \/ Handshake(c) \/ ReadRequest(c) \/ SendReply(c) \/ LoopBreaks(c)
  \/ CloseSession(c) \/ AwaitPump(c) \/ AwaitWriter(c)
PumpStep(c) == PumpEvent(c) \/ PumpTerminal(c)
WriterStep(c) == Write(c) \/ WriterCloses(c)
ReaderStep(c) == Read(c) \/ ReaderExits(c)

Next ==
  \/ Shutdown \/ ServeReturns \/ ProcessExits
  \/ \E c \in Conns :
       \/ Accept(c) \/ DaemonStep(c) \/ Dispatched(c) \/ PumpStep(c) \/ HealthPush(c) \/ WriterStep(c)
       \/ Break(c) \/ Call(c) \/ WriteCall(c) \/ ReaderStep(c) \/ Consume(c) \/ DropStream(c)

Spec == Init /\ [][Next]_vars

(* Every task is scheduled; nothing makes the library answer, the           *)
(* application read its events, the network break or the daemon stop.       *)
Fairness ==
  /\ WF_vars(ServeReturns \/ ProcessExits)
  /\ \A c \in Conns :
    /\ WF_vars(DaemonStep(c)) /\ WF_vars(PumpStep(c)) /\ WF_vars(WriterStep(c))
    /\ WF_vars(ReaderStep(c)) /\ WF_vars(WriteCall(c))

FairSpec == Spec /\ Fairness

----------------------------------------------------------------------------
(* Properties.                                                              *)

(* What may reach the application of the first n events: all but the        *)
(* suppressed ones.                                                         *)
Visible(c, n) ==
  SelectSeq([i \in 1..n |-> Event(c, i)], LAMBDA ev : to_wire(ev) # NoFrame)

(* Loss is by disconnection, never by silent drop: whatever the application *)
(* has read is what the session's stream carried from its first event on,   *)
(* without a hole, and a session_closing comes after all of it.             *)
NoSilentDrop ==
  \A c \in Conns : IsPrefix(got[c], Append(Visible(c, fed[c]), Closing))

(* The control loop waits for the library and is never answered.           *)
Held(c) == [](task[c] = "dispatch")

(* A request does not outwait its connection: whoever drains its events     *)
(* gets every request answered or failed, whatever the daemon and the       *)
(* network do, also one that registers as the reader leaves.  Only the      *)
(* library can hold it up, by never answering, and the end of the           *)
(* connection or of the daemon releases it even then.                       *)
RequestsResolve ==
  \A c \in Conns :
    WF_vars(Consume(c)) =>
      ((call[c].at \in {"write", "await"})
         ~> (call[c].at \in {"idle", "closed"} \/ (Held(c) /\ []~broken[c])))

(* A connection that is cancelled, shut down or disconnected is torn down   *)
(* even when its client reads nothing and its outbound channel is full, and *)
(* with the daemon's shutdown also one that the library holds; and with its *)
(* task the socket ends: a client that drains sees it close, because no     *)
(* pusher keeps the outbound channel open.                                  *)
TornDown ==
  \A c \in Conns :
    /\ (task[c] \in Serving /\ Ends(c))
         ~> (task[c] = "done" \/ (Held(c) /\ [](listener = "accepting")))
    /\ WF_vars(Consume(c)) =>
         ((task[c] = "done" /\ writer[c] = "run") ~> (writer[c] = "done"))

(* What the control loop's comments promise: an overrun or a shutdown tears *)
(* the connection down promptly instead of leaving the client silently      *)
(* stalled.  Violated: while it awaits dispatch the loop hears neither, and *)
(* the library may keep it waiting.                                         *)
PromptTeardown ==
  \A c \in Conns : (task[c] \in Serving /\ cancel[c]) ~> (task[c] = "done")

(* What client.rs promises of a graceful close: its stream ends with        *)
(* session_closing.                                                         *)
GracefulSaysSo ==
  \A c \in Conns :
    (listener = "accepting" /\ call[c].at = "closed" /\ reader[c] = "gone" /\ holds[c] /\ buf[c] = <<>> /\ ~broken[c])
      => (got[c] # <<>> /\ Last(got[c]) = Closing)
=============================================================================

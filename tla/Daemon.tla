------------------------------- MODULE Daemon -------------------------------
(***************************************************************************)
(* The daemon's control plane (datamancerd/src/server.rs, shutdown.rs):    *)
(* control connections, the single actor that owns clients and queries,    *)
(* the pumps that feed their data services, teardown at EOF, and the drain *)
(* that follows a shutdown.                                                *)
(*                                                                         *)
(* A connection carries one request at a time.  What a library session     *)
(* does is reduced to whether it still runs; what a service carries is     *)
(* left out.  Operations dispatched off the actor are in ConfigService.    *)
(***************************************************************************)
EXTENDS Integers, Sequences, FiniteSets

CONSTANTS
    Conns,        \* control connections, each used once
    Speaks,       \* the operations each peer uses; only one under the daemon's uid
                  \* gets "shutdown" past the gate
    Names,        \* client names
    None,         \* no name
    MaxClients,   \* [iceoryx2] max_clients
    MaxQueries,   \* [iceoryx2] max_queries
    Depth,        \* capacity of the command channel (256)
    Tidy,         \* every connection opens one client, and speaks of what it opened only
    MaxIds,       \* bound: data services ever opened
    MaxStrays     \* bound: query sessions left by a failed open, at a time

Ids == 0 .. MaxIds - 1
Ops == {"ask", "open-client", "close-client", "open-query", "cancel-query", "shutdown"}

ASSUME DaemonAssumption ==
    /\ Speaks \in [Conns -> SUBSET Ops] /\ None \notin Names /\ Tidy \in BOOLEAN
    /\ {MaxClients, MaxQueries, MaxIds, MaxStrays} \subseteq Nat /\ Depth \in Nat \ {0, 1}

VARIABLES
    conn,      \* serve_connection, per connection
    cmds,      \* the actor's command channel
    srv,       \* the actor: phase, draining, next_client_id, what is left to drain
    clients,   \* name -> its ClientEntry; id = -1 when there is none
    queries,   \* ids in the query table
    work,      \* id -> the query's pump and its library session
    anchors,   \* startup anchors: held, dropped, and gone once their session ended
    tap,       \* the shared tap log: flushed by the drain
    actor,     \* "waits": inside the handler of the first command, for a reader
    stuck,     \* ids whose reader does not read: the pump is in a publish that retries
    stray      \* library sessions of queries that failed to open, and their closes

vars == <<conn, cmds, srv, clients, queries, work, anchors, tap, actor, stuck, stray>>

NoClient == [id |-> -1, by |-> None]
NewConn == [pc |-> "new", client |-> None, queries |-> {}]
NoWork == [pump |-> "none", session |-> "none", closing |-> FALSE, by |-> None]

Init ==
    /\ conn = [c \in Conns |-> NewConn]
    /\ cmds = <<>>
    /\ srv = [phase |-> "run", draining |-> FALSE, next |-> 0, left |-> {}, flushed |-> FALSE, accept |-> TRUE]
    /\ clients = [n \in Names |-> NoClient]
    /\ queries = {} /\ work = [i \in Ids |-> NoWork]
    /\ anchors = "held" /\ tap = FALSE
    /\ actor = "free" /\ stuck = {} /\ stray = [open |-> 0, closing |-> 0]

Live == {n \in Names : clients[n].id # -1}
(* A command stays first in cmds until its handler ends; it is out of the   *)
(* channel as soon as the handler waits.                                    *)
Room == IF actor = "waits" THEN Depth + 1 - Len(cmds) ELSE Depth - Len(cmds)
Cmd(op, c, arg) == [op |-> op, conn |-> c, arg |-> arg]

-----------------------------------------------------------------------------
(* Control connections. *)

Accept(c) ==
    /\ conn[c].pc = "new" /\ srv.accept
    /\ conn' = [conn EXCEPT ![c].pc = "idle"]
    /\ UNCHANGED <<cmds, srv, clients, queries, work, anchors, tap, actor, stuck, stray>>

(* What a peer asks for.  "ask" stands for the operations that leave the    *)
(* daemon as it is: subscribe and unsubscribe, which name a client and ask  *)
(* its session, and ping, lists, snapshot, health.                          *)
Args(c, op) ==
    CASE op = "open-client" -> IF Tidy /\ conn[c].client # None THEN {} ELSE Names
      [] op = "close-client" -> IF Tidy THEN {conn[c].client} \cap Names ELSE Names
      [] op = "ask" -> IF Tidy THEN {conn[c].client} ELSE Names \cup {None}
      [] op = "cancel-query" -> IF Tidy THEN conn[c].queries ELSE {i \in Ids : i < srv.next}
      [] OTHER -> {None}

Opens == {"open-client", "open-query"}
(* serve_connection reads a line and forwards it. *)
Forward(c, r) ==
    /\ conn[c].pc = "idle" /\ Room > 0
    /\ r.op \in Opens => srv.next + Cardinality({k \in DOMAIN cmds : cmds[k].op \in Opens}) < MaxIds
    /\ cmds' = Append(cmds, r)
    /\ conn' = [conn EXCEPT ![c].pc = "wait"]
    /\ UNCHANGED <<srv, clients, queries, work, anchors, tap, actor, stuck, stray>>

(* TeardownArm::apply: a successful open arms the EOF teardown; a cancel    *)
(* that found its query, or found none, disarms it.                         *)
TeardownArm(t, r) ==
    [t EXCEPT
       !.client = IF r.op = "open-client" /\ r.ok THEN r.arg ELSE @,
       !.queries = IF r.op = "open-query" /\ r.ok THEN @ \cup {r.id}
                   ELSE IF r.op = "cancel-query" /\ (r.ok \/ r.unknown) THEN @ \ {r.arg} ELSE @]

(* The actor's reply reaches serve_connection, which arms its teardown and  *)
(* writes the line.                                                         *)
Reply(r, ok, unknown, id) ==
    LET reply == [op |-> r.op, arg |-> r.arg, ok |-> ok, unknown |-> unknown, id |-> id] IN
    conn' = [conn EXCEPT ![r.conn] = [TeardownArm(@, reply) EXCEPT !.pc = "idle"]]

(* The peer has gone: EOF, or a reply that could not be written. *)
HangUp(c) ==
    /\ conn[c].pc = "idle"
    /\ conn' = [conn EXCEPT ![c].pc = "eof"]
    /\ UNCHANGED <<cmds, srv, clients, queries, work, anchors, tap, actor, stuck, stray>>

(* Faulty variant: the connection forgets the queries it opened. *)
emergency_teardown_client(c) ==
    /\ conn[c].pc = "eof" /\ Room > 0
    /\ conn' = [conn EXCEPT ![c] = [NewConn EXCEPT !.pc = "gone"]]
    /\ cmds' = IF conn[c].client = None THEN cmds ELSE Append(cmds, Cmd("disconnect", c, conn[c].client))
    /\ UNCHANGED <<srv, clients, queries, work, anchors, tap, actor, stuck, stray>>

(* emergency_teardown: one command for the client, then one for the queries. *)
emergency_teardown(c) ==
    /\ conn[c].pc = "eof" /\ Room > 1
    /\ conn' = [conn EXCEPT ![c] = [NewConn EXCEPT !.pc = "gone"]]
    /\ cmds' = cmds \o (IF conn[c].client = None THEN <<>> ELSE <<Cmd("disconnect", c, conn[c].client)>>)
                     \o (IF conn[c].queries = {} THEN <<>> ELSE <<Cmd("cancel-queries", c, conn[c].queries)>>)
    /\ UNCHANGED <<srv, clients, queries, work, anchors, tap, actor, stuck, stray>>

-----------------------------------------------------------------------------
(* The actor.  A handler runs to its end before the next command.  A        *)
(* handler that asks a client's session, or closes it, ends when the        *)
(* session's controller answers.  The controller may be waiting for room in *)
(* the client's stream, behind a pump whose publish retries until a reader  *)
(* that does not read has room: the handler may then wait, without bound.   *)

HeadStuck ==
    /\ cmds # <<>> /\ Head(cmds).op \in {"ask", "close-client", "disconnect"}
    /\ Head(cmds).arg \in Live /\ clients[Head(cmds).arg].id \in stuck

HandlerWaits ==
    /\ srv.phase = "run" /\ actor = "free" /\ HeadStuck
    /\ actor' = "waits"
    /\ UNCHANGED <<conn, cmds, srv, clients, queries, work, anchors, tap, stuck, stray>>

(* A reader stops reading, and its pump is caught in a publish; it reads on. *)
ReaderStalls(i) ==
    /\ i \notin stuck /\ (work[i].pump = "running" \/ \E n \in Live : clients[n].id = i)
    /\ stuck' = stuck \cup {i}
    /\ UNCHANGED <<conn, cmds, srv, clients, queries, work, anchors, tap, actor, stray>>

ReaderReads(i) ==
    /\ i \in stuck /\ stuck' = stuck \ {i}
    /\ UNCHANGED <<conn, cmds, srv, clients, queries, work, anchors, tap, actor, stray>>

Served(op) ==
    /\ srv.phase = "run" /\ cmds # <<>> /\ Head(cmds).op = op
    /\ cmds' = Tail(cmds) /\ actor' = "free"

(* Subscribe, list-clients, ping, snapshot, health and the like. *)
HandleAsk ==
    /\ Served("ask")
    /\ LET r == Head(cmds) IN Reply(r, r.arg \in Live \cup {None}, FALSE, 0)
    /\ UNCHANGED <<srv, clients, queries, work, anchors, tap, stuck, stray>>

(* open_client: a taken name, the cap, a service or a seed subscription may *)
(* refuse it; the id is used up only when all of it succeeds.               *)
open_client(fits) ==
    /\ Served("open-client")
    /\ LET r == Head(cmds)
           ok == fits /\ r.arg \notin Live /\ Cardinality(Live) < MaxClients IN
         /\ fits \/ (r.arg \notin Live /\ Cardinality(Live) < MaxClients)
         /\ Reply(r, ok, FALSE, 0)
         /\ clients' = IF ok THEN [clients EXCEPT ![r.arg] = [id |-> srv.next, by |-> r.conn]] ELSE clients
         /\ srv' = IF ok THEN [srv EXCEPT !.next = @ + 1] ELSE srv
    /\ UNCHANGED <<queries, work, anchors, tap, stuck, stray>>

(* teardown_client: the entry leaves, its session is closed, which waits    *)
(* for the controller however long that takes, and its pump is drained      *)
(* within two seconds or aborted.  The actor alone sees the table, so the   *)
(* entry's leaving is shown when the handler ends; nothing depends on its   *)
(* reader from then on.                                                     *)
teardown_client(n) == clients' = [clients EXCEPT ![n] = NoClient] /\ stuck' = stuck \ {clients[n].id}

HandleCloseClient ==
    /\ Served("close-client")
    /\ LET r == Head(cmds) IN teardown_client(r.arg) /\ Reply(r, r.arg \in Live, FALSE, 0)
    /\ UNCHANGED <<srv, queries, work, anchors, tap, stray>>

HandleDisconnect ==
    /\ Served("disconnect")
    /\ teardown_client(Head(cmds).arg)
    /\ UNCHANGED <<conn, srv, queries, work, anchors, tap, stray>>

(* open_query: "refused" before there is a session (range, cap, library),   *)
(* or "late", by the service or the stream of a session that already        *)
(* fetches, which a task of its own then closes.                            *)
open_query(how) ==
    /\ Served("open-query")
    /\ how # "refused" => Cardinality(queries) < MaxQueries
    /\ how = "late" => stray.open < MaxStrays
    /\ LET r == Head(cmds)
           ok == how = "ok" IN
         /\ Reply(r, ok, FALSE, srv.next)
         /\ queries' = IF ok THEN queries \cup {srv.next} ELSE queries
         /\ work' = IF ok THEN [work EXCEPT ![srv.next] =
                      [pump |-> "running", session |-> "fetching", closing |-> FALSE, by |-> r.conn]] ELSE work
         /\ srv' = IF ok THEN [srv EXCEPT !.next = @ + 1] ELSE srv
    /\ stray' = IF how = "late" THEN [open |-> stray.open + 1, closing |-> stray.closing + 1] ELSE stray
    /\ UNCHANGED <<clients, anchors, tap, stuck>>

(* close_query_session, for a session that has no entry; nothing was ever   *)
(* attached to its stream, so its controller waits for nobody.              *)
StrayCloses ==
    /\ stray.open > 0 /\ stray.closing > 0
    /\ stray' = [open |-> stray.open - 1, closing |-> stray.closing - 1]
    /\ UNCHANGED <<conn, cmds, srv, clients, queries, work, anchors, tap, actor, stuck>>

(* The entry's pump is aborted, which drops the stream, and its session is  *)
(* closed by a task of its own (close_query_session).                       *)
Cancelled(ids) ==
    [i \in Ids |-> IF i \in ids THEN [work[i] EXCEPT !.pump = "aborted", !.closing = TRUE] ELSE work[i]]


cancel_query ==
    /\ Served("cancel-query")
    /\ LET r == Head(cmds)
           known == r.arg \in queries IN
         /\ Reply(r, known, ~known, 0)
         /\ queries' = queries \ {r.arg}
         /\ work' = Cancelled({r.arg} \cap queries)
    /\ UNCHANGED <<srv, clients, anchors, tap, stuck, stray>>

HandleCancelQueries ==
    /\ Served("cancel-queries")
    /\ queries' = queries \ Head(cmds).arg
    /\ work' = Cancelled(Head(cmds).arg \cap queries)
    /\ UNCHANGED <<conn, srv, clients, anchors, tap, stuck, stray>>

(* Faulty variant: the finished query is forgotten, its session not closed. *)
HandleQueryFinished_forgets ==
    /\ Served("finished")
    /\ queries' = queries \ {Head(cmds).arg}
    /\ UNCHANGED <<conn, srv, clients, work, anchors, tap, stuck, stray>>

HandleQueryFinished ==
    /\ Served("finished")
    /\ LET i == Head(cmds).arg IN
         /\ queries' = queries \ {i}
         /\ work' = IF i \in queries THEN [work EXCEPT ![i].closing = TRUE] ELSE work
    /\ UNCHANGED <<conn, srv, clients, anchors, tap, stuck, stray>>

-----------------------------------------------------------------------------
(* Query pumps and the library sessions behind them. *)

(* The fetch is over: SessionClosing is in the stream and the controller    *)
(* waits for the stream to be dropped.                                      *)
FetchEnds(i) ==
    /\ work[i].session = "fetching"
    /\ work' = [work EXCEPT ![i].session = "parked"]
    /\ UNCHANGED <<conn, cmds, srv, clients, queries, anchors, tap, actor, stuck, stray>>


(* spawn_query_pump stops at SessionClosing, or when the sink rejects; it   *)
(* drops the stream, which releases a parked controller.  A pump inside a   *)
(* publish that retries does neither.                                       *)
PumpStops(i) ==
    /\ work[i].pump = "running" /\ i \notin stuck
    /\ work' = [work EXCEPT ![i].pump = "report", ![i].session = IF @ = "parked" THEN "gone" ELSE @]
    /\ UNCHANGED <<conn, cmds, srv, clients, queries, anchors, tap, actor, stuck, stray>>

PumpReports(i) ==
    /\ work[i].pump = "report" /\ Room > 0
    /\ cmds' = Append(cmds, Cmd("finished", None, i))
    /\ work' = [work EXCEPT ![i].pump = "ended"]
    /\ UNCHANGED <<conn, srv, clients, queries, anchors, tap, actor, stuck, stray>>

(* Session::close reaches the controller, which aborts its fetch; behind a  *)
(* reader that does not read it may have to wait for that.                  *)
SessionCloses(i) ==
    /\ work[i].closing
    /\ work' = [work EXCEPT ![i].closing = FALSE, ![i].session = "gone"]
    /\ stuck' = stuck \ {i}
    /\ UNCHANGED <<conn, cmds, srv, clients, queries, anchors, tap, actor, stray>>

-----------------------------------------------------------------------------
(* Shutdown: run() leaves its loop and drains. *)

(* The signals are arms of the loop that awaits the handler. *)
Signal ==
    /\ srv.phase = "run" /\ actor = "free"
    /\ srv' = [srv EXCEPT !.phase = "surfaces", !.draining = TRUE]
    /\ UNCHANGED <<conn, cmds, clients, queries, work, anchors, tap, actor, stuck, stray>>

HandleShutdown ==
    /\ Served("shutdown")
    /\ Reply(Head(cmds), TRUE, FALSE, 0)
    /\ srv' = [srv EXCEPT !.phase = "surfaces", !.draining = TRUE]
    /\ UNCHANGED <<clients, queries, work, anchors, tap, stuck, stray>>

(* The web and WebSocket surfaces stop within their bounds; then every      *)
(* query is aborted, the client table handed to the drain, and accepting    *)
(* and the diagnostics ticker stop.                                         *)
abort_all_queries ==
    /\ srv.phase = "surfaces"
    /\ srv' = [srv EXCEPT !.phase = "close", !.left = Live, !.accept = FALSE]
    /\ queries' = {} /\ work' = Cancelled(queries)
    /\ UNCHANGED <<conn, cmds, clients, anchors, tap, actor, stuck, stray>>

(* The process ends: its tasks with it, its sockets closed. *)
Exit(flushed) ==
    /\ srv' = [srv EXCEPT !.phase = "exited", !.accept = FALSE, !.flushed = flushed, !.left = {}]
    /\ conn' = [c \in Conns |-> [NewConn EXCEPT !.pc = "gone"]]
    /\ cmds' = <<>> /\ work' = [i \in Ids |-> NoWork]
    /\ stray' = [open |-> 0, closing |-> 0] /\ stuck' = {}

Draining == srv.phase \in {"close", "tap", "flush"}

(* Faulty variant: the sinks are flushed and dropped before the tap log. *)
drain_sinks_first ==
    \/ \E n \in srv.left :
         /\ srv.phase = "close"
         /\ srv' = [srv EXCEPT !.left = @ \ {n}] /\ teardown_client(n)
         /\ UNCHANGED <<conn, cmds, queries, work, anchors, tap, actor, stray>>
    \/ /\ srv.phase = "close" /\ srv.left = {}
       /\ srv' = [srv EXCEPT !.phase = "tap", !.flushed = TRUE] /\ anchors' = "dropped"
       /\ UNCHANGED <<conn, cmds, clients, queries, work, tap, actor, stuck, stray>>
    \/ /\ srv.phase = "tap" /\ Exit(TRUE) /\ tap' = TRUE
       /\ UNCHANGED <<clients, queries, anchors, actor>>

(* drain, after that: close every client, each for as long as its session   *)
(* takes, drop the anchors, flush the tap log, then the sinks.              *)
drain ==
    \/ \E n \in srv.left :
         /\ srv.phase = "close"
         /\ srv' = [srv EXCEPT !.left = @ \ {n}] /\ teardown_client(n)
         /\ UNCHANGED <<conn, cmds, queries, work, anchors, tap, actor, stray>>
    \/ /\ srv.phase = "close" /\ srv.left = {}
       /\ srv' = [srv EXCEPT !.phase = "tap"] /\ anchors' = "dropped"
       /\ UNCHANGED <<conn, cmds, clients, queries, work, tap, actor, stuck, stray>>
    \/ /\ srv.phase = "tap" /\ srv' = [srv EXCEPT !.phase = "flush"] /\ tap' = TRUE
       /\ UNCHANGED <<conn, cmds, clients, queries, work, anchors, actor, stuck, stray>>
    \/ /\ srv.phase = "flush" /\ Exit(TRUE)
       /\ UNCHANGED <<clients, queries, anchors, tap, actor>>

(* drain_servicing_late_requests: requests are refused, the rest dropped. *)
ServeLate ==
    /\ Draining /\ cmds # <<>> /\ cmds' = Tail(cmds)
    /\ IF Head(cmds).op \in {"disconnect", "cancel-queries", "finished"} THEN UNCHANGED conn
       ELSE Reply(Head(cmds), FALSE, FALSE, 0)
    /\ UNCHANGED <<srv, clients, queries, work, anchors, tap, actor, stuck, stray>>

(* The whole drain is bounded by shutdown_timeout. *)
DrainTimesOut ==
    /\ Draining
    /\ Exit(FALSE) /\ clients' = [n \in Names |-> NoClient]
    /\ UNCHANGED <<queries, anchors, tap, actor>>

(* A dropped anchor's authoritative session ends on its own task. *)
AnchorGone ==
    /\ anchors = "dropped" /\ srv.phase # "exited"
    /\ anchors' = "gone"
    /\ UNCHANGED <<conn, cmds, srv, clients, queries, work, tap, actor, stuck, stray>>

-----------------------------------------------------------------------------
Handler ==
    \/ HandleAsk \/ HandleCloseClient \/ HandleDisconnect \/ cancel_query
    \/ HandleCancelQueries \/ HandleQueryFinished \/ HandleShutdown
    \/ \E fits \in BOOLEAN : open_client(fits)
    \/ \E how \in {"ok", "refused", "late"} : open_query(how)
Actor == Handler \/ HandlerWaits \/ abort_all_queries \/ drain \/ ServeLate
QueryStep(i) == PumpStops(i) \/ PumpReports(i) \/ SessionCloses(i)

Next ==
    \/ \E c \in Conns : Accept(c) \/ emergency_teardown(c) \/ HangUp(c) \/ \E op \in Speaks[c] : \E x \in Args(c, op) : Forward(c, Cmd(op, c, x))
    \/ Actor \/ Signal \/ DrainTimesOut \/ AnchorGone \/ StrayCloses
    \/ \E i \in Ids : FetchEnds(i) \/ QueryStep(i) \/ ReaderStalls(i) \/ ReaderReads(i)

Spec == Init /\ [][Next]_vars
(* The actor and the pumps are polled, and the drain's timer runs.  Senders *)
(* on a full channel queue in order.  What waits behind a reader goes on    *)
(* only if the reader reads, and does if it reads now and then: it waits    *)
(* for one place.  No peer is assumed to speak or to hang up, no reader to  *)
(* read, no fetch to end, no client to be closed in time and no signal to   *)
(* come.                                                                    *)
FairSpec ==
    /\ Spec /\ SF_vars(~HeadStuck /\ Handler)
    /\ WF_vars(HandlerWaits \/ abort_all_queries \/ ServeLate) /\ WF_vars(DrainTimesOut)
    /\ \A i \in Ids : SF_vars(i \notin stuck /\ QueryStep(i))

-----------------------------------------------------------------------------
(* What is sent to the actor: requests, which wait for their reply, and the  *)
(* words of connections and pumps that ended, which do not.                 *)
Command ==
    [op : {"open-query", "shutdown"}, conn : Conns, arg : {None}]
    \cup [op : {"ask"}, conn : Conns, arg : Names \cup {None}]
    \cup [op : {"open-client", "close-client", "disconnect"}, conn : Conns, arg : Names]
    \cup [op : {"cancel-query"}, conn : Conns, arg : Ids]
    \cup [op : {"cancel-queries"}, conn : Conns, arg : SUBSET Ids]
    \cup [op : {"finished"}, conn : {None}, arg : Ids]
Connection == [pc : {"new", "idle", "wait", "eof", "gone"}, client : Names \cup {None},
               queries : SUBSET Ids]
Query == [pump : {"none", "running", "report", "ended", "aborted"},
          session : {"none", "fetching", "parked", "gone"}, closing : BOOLEAN,
          by : Conns \cup {None}]
Phases == {"run", "surfaces", "close", "tap", "flush", "exited"}

TypeOK ==
    /\ conn \in [Conns -> Connection] /\ cmds \in Seq(Command)
    /\ srv \in [phase : Phases, draining : BOOLEAN, next : 0 .. MaxIds, left : SUBSET Names,
                flushed : BOOLEAN, accept : BOOLEAN]
    /\ clients \in [Names -> [id : Ids \cup {-1}, by : Conns \cup {None}]]
    /\ queries \subseteq Ids /\ work \in [Ids -> Query]
    /\ anchors \in {"held", "dropped", "gone"} /\ tap \in BOOLEAN
    /\ actor \in {"free", "waits"} /\ stuck \subseteq Ids /\ stray \in [open : Nat, closing : Nat]

(* No provider fetch runs unattended: a query's session that is still       *)
(* fetching has its entry in the table, or its close is under way, and so   *)
(* does a session whose query failed to open.  The pump may have stopped    *)
(* long before (a rejected event).                                          *)
FetchAttended ==
    /\ \A i \in Ids : work[i].session = "fetching" => i \in queries \/ work[i].closing
    /\ stray.open <= stray.closing

(* A connection that is gone leaves nothing running: what it opened is torn *)
(* down, or the command that tears it down is queued.                       *)
Queued(op, x) == \E k \in 1 .. Len(cmds) : cmds[k].op = op /\ (IF op = "cancel-queries" THEN x \in cmds[k].arg ELSE cmds[k].arg = x)
NothingLeftBehind ==
    srv.phase = "run" =>
      /\ \A n \in Live : conn[clients[n].by].pc = "gone" => Queued("disconnect", n)
      /\ \A i \in queries : conn[work[i].by].pc = "gone" => Queued("cancel-queries", i)

(* EOF teardown never closes a client another connection opened: a rejected *)
(* open, a stale name or an earlier owner must not reach it.                *)
TeardownOwn ==
    [][ srv.phase = "run" /\ cmds # <<>> /\ cmds' = Tail(cmds) /\ Head(cmds).op = "disconnect" =>
          \A n \in Names : clients'[n] # clients[n] => clients[n].by = Head(cmds).conn ]_vars

(* The durable record first: the tap log is flushed after every client is   *)
(* closed and the anchors are dropped, and before the sinks are.            *)
DurableFirst == (tap => Live = {} /\ anchors # "held") /\ (srv.flushed => tap)

(* Every request is answered, or its connection ends: during normal work,   *)
(* while the daemon drains, and after it has gone.  One thing can keep the  *)
(* actor from it: a handler waiting for a client whose reader never reads   *)
(* again.                                                                   *)
Wedged == actor = "waits" /\ HeadStuck

(* server.rs, ClientEntry::close: "bound the wait so a wedged pump cannot   *)
(* hang shutdown"; cancel_query: "awaiting a session shutdown there would   *)
(* stall every other control op behind it".                                 *)
NeverWedged == \A c \in Conns : conn[c].pc = "wait" ~> conn[c].pc # "wait"


(***************************************************************************)
(* What makes them so.                                                     *)
(***************************************************************************)

(* Every open that is queued still finds an id.                             *)
OpensIn(q) == {k \in DOMAIN q : q[k].op \in Opens}
Enough == srv.next + Cardinality(OpensIn(cmds)) <= MaxIds

(* A request in the channel is the only one of its connection, which waits   *)
(* for the reply; a tidy peer opens its client once.                        *)
Waiting ==
    \A k \in 1 .. Len(cmds) : cmds[k].op \in Ops =>
        /\ conn[cmds[k].conn].pc = "wait"
        /\ Tidy /\ cmds[k].op = "open-client" => conn[cmds[k].conn].client = None
        /\ \A j \in 1 .. Len(cmds) : cmds[j].op \in Ops /\ cmds[j].conn = cmds[k].conn => j = k

(* What a connection opened is armed for its teardown as long as it lasts,   *)
(* and the teardown is queued from then on.                                 *)
ClientArmed(n) ==
    LET c == clients[n].by IN
      /\ c \in Conns
      /\ Tidy => IF conn[c].pc = "gone" THEN Queued("disconnect", n) ELSE conn[c].client = n
QueryArmed(i) ==
    LET c == work[i].by IN
      /\ c \in Conns
      /\ IF conn[c].pc = "gone" THEN Queued("cancel-queries", i) ELSE i \in conn[c].queries
Armed ==
    srv.phase = "run" => (\A n \in Live : ClientArmed(n)) /\ (\A i \in queries : QueryArmed(i))

(* How far the drain is.                                                    *)
Phased ==
    /\ srv.phase \in {"run", "surfaces", "close"} => anchors = "held" /\ ~tap
    /\ srv.phase # "exited" => ~srv.flushed
    /\ srv.phase = "close" => Live \subseteq srv.left
    /\ srv.phase \in {"tap", "flush"} => Live = {} /\ anchors # "held"
    /\ srv.phase = "flush" => tap
    /\ srv.phase # "run" => actor = "free"

DaemonInv == TypeOK /\ Enough /\ Waiting /\ Armed /\ Phased /\ FetchAttended /\ DurableFirst

=============================================================================

----------------------------- MODULE Diagnostics -----------------------------
(***************************************************************************)
(* How the health of a provider and of its live substreams is recorded,    *)
(* sampled, reduced and shown: LiveStats of each authoritative session     *)
(* (crates/datamancer/src/client.rs) and the ProviderAccounting shared by  *)
(* them (accounting.rs), both written by the controllers as they receive   *)
(* the provider's controls; Datamancer::snapshot (session.rs), which reads *)
(* them without a common lock; HealthView (datamancer-core/src/health.rs), *)
(* which reduces a snapshot; and the surfaces that show the result: the    *)
(* diagnostics and health planes of the shared-memory transport and the    *)
(* web server's live swap with its event stream.                           *)
(*                                                                         *)
(* A surface only reads, so a behaviour follows one of them (`surface`).   *)
(* The provider's hub is reduced to what it tells its routes; ProviderHub  *)
(* models how it gets there.                                               *)
(***************************************************************************)
EXTENDS Integers, Sequences, FiniteSets, SequencesExt

CONSTANTS
    Streams,     \* (instrument, kind) pairs, each opened at most once
    Traded,      \* the streams that data arrives on
    Backfilled,  \* the streams that may be opened with a backfill
    Surfaces,    \* subset of {"diagnostics", "health", "web", "none"}
    Causes,      \* why the hub may lose or fail a connection
    MaxTime,     \* bound: how often the clock moves, one event a tick
    UnreadTime,  \* the same bound when no surface is followed
    QuietAfter,  \* quiet_after_ns
    RingCap      \* events the backfill holds back (resume_buffer_events)

ASSUME BoundsAssumption ==
    MaxTime \in Nat /\ UnreadTime \in Nat /\ QuietAfter \in Nat /\ RingCap \in Nat \ {0}
ASSUME StreamsAssumption == Traded \subseteq Streams /\ Backfilled \subseteq Streams
ASSUME CausesAssumption == Causes \subseteq {"error", "unauth", "disabled"}
ASSUME SurfacesAssumption == Surfaces \subseteq {"diagnostics", "health", "web", "none"}

VARIABLES
    clock,
    enabled,   \* the provider's setting, read by Provider::enabled
    link,      \* the hub: "never", "up", or the cause it is down for
    sess,      \* per stream: "idle", "opening", "backfill", "live", "leaving", "gone"
    sent,      \* per stream: everything the provider sent on its channel
    taken,     \* per stream: how much of it the controller has received
    ring,      \* per stream: arrivals held back by a running backfill
    lost,      \* per stream: the ring evicted a data event
    stats,     \* per stream: its LiveStats
    acc,       \* the provider's ProviderAccounting
    surface,   \* the surface this behaviour follows, if any
    snap,      \* the snapshot its task is assembling
    shown      \* what its readers get: the last snapshot published there

hub == <<clock, enabled, link>>
streams == <<sess, sent, taken, ring, lost>>
records == <<stats, acc>>
reading == <<surface, snap, shown>>
vars == <<hub, streams, records, reading>>

(* StreamConnection, LiveStats and ProviderAccounting.                     *)
Pending == [phase |-> "pending", since |-> 0, cause |-> "none"]
Up(t) == [phase |-> "up", since |-> t, cause |-> "none"]
Down(t, cause) == [phase |-> "down", since |-> t, cause |-> cause]

LiveStats == [connection : [phase : {"pending", "up", "down"}, since : Nat,
                            cause : {"none"} \cup Causes],
              rx : Nat, gap_rx : Nat, backfilling : BOOLEAN]

NewStats == [connection |-> Pending, rx |-> 0, gap_rx |-> 0, backfilling |-> FALSE]

(* The counters of calls and messages only grow and are left out.          *)
ProviderAccounting == [ever_connected : BOOLEAN, auth_failed : BOOLEAN, reconnects : Nat]

NewAccounting == [ever_connected |-> FALSE, auth_failed |-> FALSE, reconnects |-> 0]

Nothing == [streams |-> "none"]
Idle == [at |-> -1]

-----------------------------------------------------------------------------
(* What the provider tells its routes.                                     *)

Event(kind, cause, t) == [kind |-> kind, cause |-> cause, rx |-> t]

(* A route lasts from a successful subscribe to the unsubscribe.           *)
Routed(s) == sess[s] \in {"backfill", "live", "leaving"}

(* The registry's Weak upgrades while an opener or a referrer is there.    *)
Visible == {s \in Streams : sess[s] \in {"opening", "backfill", "live"}}

Limit == IF surface = "none" THEN UnreadTime ELSE MaxTime
Tick == clock < Limit /\ clock' = clock + 1

broadcast_control(ev) ==
    sent' = [s \in Streams |-> IF Routed(s) THEN Append(sent[s], ev) ELSE sent[s]]

HubConnects ==
    /\ Tick /\ enabled /\ link # "up"
    /\ link' = "up"
    /\ broadcast_control(Event("connected", "none", clock'))
    /\ UNCHANGED <<enabled, sess, taken, ring, lost, records, reading>>

(* The connection drops, or an attempt fails: classified by its cause.     *)
HubFails(cause) ==
    /\ Tick
    /\ cause = "disabled" => ~enabled
    /\ link' = cause
    /\ broadcast_control(Event("disconnected", cause, clock'))
    /\ UNCHANGED <<enabled, sess, taken, ring, lost, records, reading>>

HubData(s) ==
    /\ Tick /\ s \in Traded /\ link = "up" /\ Routed(s)
    /\ sent' = [sent EXCEPT ![s] = Append(@, Event("data", "none", clock'))]
    /\ UNCHANGED <<enabled, link, sess, taken, ring, lost, records, reading>>

SetEnabled ==
    /\ Tick
    /\ enabled' = ~enabled
    /\ UNCHANGED <<link, streams, records, reading>>

-----------------------------------------------------------------------------
(* Opening and closing a stream.                                           *)

(* The registry slot is taken and start_live called.                       *)
Open(s) ==
    /\ sess[s] = "idle"
    /\ sess' = [sess EXCEPT ![s] = "opening"]
    /\ UNCHANGED <<hub, sent, taken, ring, lost, records, reading>>

(* start_live or subscribe failed: nobody is left to carry the evidence.   *)
record_open_failure(unauthenticated) ==
    [acc EXCEPT !.auth_failed = @ \/ unauthenticated]

OpenFails(s, unauthenticated) ==
    /\ sess[s] = "opening"
    /\ sess' = [sess EXCEPT ![s] = "gone"]
    /\ acc' = record_open_failure(unauthenticated)
    /\ UNCHANGED <<hub, sent, taken, ring, lost, stats, reading>>

(* A route that joins a connected hub is told so; run_live starts with a   *)
(* backfill if the session asks for one.                                   *)
Subscribed(s, backfill) ==
    /\ sess[s] = "opening" /\ (backfill => s \in Backfilled)
    /\ sess' = [sess EXCEPT ![s] = IF backfill THEN "backfill" ELSE "live"]
    /\ sent' = IF link = "up"
               THEN [sent EXCEPT ![s] = Append(@, Event("connected", "none", clock))] ELSE sent
    /\ stats' = [stats EXCEPT ![s].backfilling = backfill]
    /\ UNCHANGED <<hub, taken, ring, lost, acc, reading>>

(* The last referrer drops its guard, and with it the session's last Arc.  *)
Leave(s) ==
    /\ sess[s] \in {"backfill", "live"}
    /\ sess' = [sess EXCEPT ![s] = "leaving"]
    /\ UNCHANGED <<hub, sent, taken, ring, lost, records, reading>>

(* The controller takes the removal, leaves its loop and unsubscribes.     *)
teardown_upstream(s) ==
    /\ sess[s] = "leaving"
    /\ sess' = [sess EXCEPT ![s] = "gone"]
    /\ stats' = [stats EXCEPT ![s].backfilling = FALSE]
    /\ ring' = [ring EXCEPT ![s] = <<>>]
    /\ UNCHANGED <<hub, sent, taken, lost, acc, reading>>

-----------------------------------------------------------------------------
(* The controller receives an event.                                       *)

(* Faulty variant: every disconnect starts the outage anew.                *)
record_connection_restart(conn, ev) ==
    CASE ev.kind = "connected" -> IF conn.phase = "up" THEN conn ELSE Up(ev.rx)
      [] ev.kind = "disconnected" -> Down(ev.rx, ev.cause)
      [] OTHER -> conn

(* A repeated connect changes nothing, a repeated disconnect only the      *)
(* cause: the outage keeps its start.                                      *)
record_connection(conn, ev) ==
    CASE ev.kind = "connected" -> IF conn.phase = "up" THEN conn ELSE Up(ev.rx)
      [] ev.kind = "disconnected" ->
            Down(IF conn.phase = "down" THEN conn.since ELSE ev.rx, ev.cause)
      [] OTHER -> conn

(* Folds a received control, with the transition it made, into the         *)
(* provider's counters.                                                    *)
record_provider_control(ev, conn) ==
    LET connects == ev.kind = "connected" /\ conn.phase # "up"
        rejected == ev.kind = "disconnected" /\ ev.cause = "unauth"
    IN  [acc EXCEPT !.ever_connected = @ \/ connects,
                    !.auth_failed = rejected \/ (@ /\ ~connects),
                    !.reconnects = @ + (IF connects /\ conn.phase = "down" THEN 1 ELSE 0)]

(* On delivery: the receipt times of the last data event and gap.          *)
record_event(st, ev) ==
    CASE ev.kind = "data" -> [st EXCEPT !.rx = ev.rx]
      [] ev.kind = "gap" -> [st EXCEPT !.gap_rx = ev.rx]
      [] OTHER -> st

(* Faulty variant: controls count when they are delivered, so one that a   *)
(* backfill holds back is not counted until then.                          *)
note_provider_arrival_late(s, ev) ==
    IF sess[s] = "backfill" THEN UNCHANGED records
    ELSE /\ acc' = record_provider_control(ev, stats[s].connection)
         /\ stats' = [stats EXCEPT ![s] = record_event(
                         [@ EXCEPT !.connection = record_connection(@, ev)], ev)]

(* At receipt, whether or not the event is then held back; what is not     *)
(* held back is delivered in the same turn of the loop.                    *)
note_provider_arrival(s, ev) ==
    LET noted == [stats[s] EXCEPT !.connection = record_connection(@, ev)] IN
    /\ acc' = record_provider_control(ev, stats[s].connection)
    /\ stats' = [stats EXCEPT ![s] =
                     IF sess[s] = "backfill" THEN noted ELSE record_event(noted, ev)]

buffer_live_arrival(s, ev) ==
    LET full == Len(ring[s]) = RingCap
        kept == IF full THEN Tail(ring[s]) ELSE ring[s]
    IN  /\ ring' = [ring EXCEPT ![s] = IF sess[s] = "backfill" THEN Append(kept, ev) ELSE @]
        /\ lost' = [lost EXCEPT ![s] =
               @ \/ (sess[s] = "backfill" /\ full /\ Head(ring[s]).kind = "data")]

Receive(s) ==
    /\ Routed(s) /\ taken[s] < Len(sent[s])
    /\ taken' = [taken EXCEPT ![s] = @ + 1]
    /\ LET ev == sent[s][taken[s] + 1]
       IN  note_provider_arrival(s, ev) /\ buffer_live_arrival(s, ev)
    /\ UNCHANGED <<hub, sess, sent, reading>>

(* The backfill ends: what it could not serve and what the ring evicted    *)
(* are gaps, what the ring held is delivered, and the flag is cleared.     *)
flush_backfill_pending(s, unserved) ==
    /\ sess[s] = "backfill"
    /\ sess' = [sess EXCEPT ![s] = "live"]
    /\ LET gap == Event("gap", "none", clock)
           delivered == (IF unserved \/ lost[s] THEN <<gap>> ELSE <<>>) \o ring[s]
       IN  stats' = [stats EXCEPT ![s] =
               FoldLeft(record_event, [@ EXCEPT !.backfilling = FALSE], delivered)]
    /\ ring' = [ring EXCEPT ![s] = <<>>]
    /\ UNCHANGED <<hub, sent, taken, lost, acc, reading>>

-----------------------------------------------------------------------------
(* HealthView::from_snapshot.                                              *)

ConnectionState == {"unknown", "connected", "disconnected", "unauthenticated"}

(* CompanionUnreachable is reserved: nothing produces it.                  *)
ProviderState == {"connected", "connecting", "disconnected", "unauthenticated", "disabled", "idle"}

Liveness == [is : {"awaiting", "live", "gapped", "backfilling"}, since : {0}]
            \cup [is : {"stale", "quiet"}, since : Nat]

provider_state(p) ==
    CASE ~p.enabled -> "disabled"
      [] p.state = "unauthenticated" -> "unauthenticated"
      [] p.active = 0 -> "idle"
      [] p.state = "unknown" -> "connecting"
      [] OTHER -> p.state

fault_since(conn) == conn.phase = "down" /\ conn.cause # "disabled"

liveness(s, at) ==
    CASE s.backfilling -> [is |-> "backfilling", since |-> 0]
      [] fault_since(s.connection) -> [is |-> "stale", since |-> s.connection.since]
      [] s.rx = 0 -> [is |-> "awaiting", since |-> 0]
      [] at - s.rx > QuietAfter -> [is |-> "quiet", since |-> s.rx]
      [] s.gap_rx > 0 /\ at - s.gap_rx <= QuietAfter -> [is |-> "gapped", since |-> 0]
      [] OTHER -> [is |-> "live", since |-> 0]

HealthView(snapshot) ==
    [provider |-> provider_state(snapshot.provider),
     streams |-> [s \in DOMAIN snapshot.sessions |-> liveness(snapshot.sessions[s], snapshot.at)]]

(* GET /api/health: with one provider, it must be enabled and well.         *)
ready(view) == view.provider \in {"connected", "idle"}

-----------------------------------------------------------------------------
(* Assembling a snapshot: two passes, and the controllers run between      *)
(* them.  Within a pass the reads are one step.                            *)

(* The provider's state from the phases of the streams sampled.            *)
connection_state(handles) ==
    LET conns == {stats[s].connection : s \in handles}
        down == {c \in conns : c.phase = "down"}
    IN  CASE \E c \in conns : c.phase = "up" -> "connected"
          [] \/ \E c \in down : c.cause = "unauth"
             \/ handles = {} /\ acc.auth_failed -> "unauthenticated"
          [] down # {} \/ (handles = {} /\ acc.ever_connected) -> "disconnected"
          [] OTHER -> "unknown"

(* The clock, the registry under its lock, and the providers.              *)
ProviderSnapshot(handles) ==
    [state |-> connection_state(handles), enabled |-> enabled, active |-> Cardinality(handles)]

Sample ==
    /\ snap = Idle /\ surface # "none"
    /\ snap' = [at |-> clock, handles |-> Visible, provider |-> ProviderSnapshot(Visible)]
    /\ UNCHANGED <<hub, streams, records, surface, shown>>

(* The streams are read again, by the handles sampled first.               *)
AuthoritativeSessionSnapshot(s) ==
    [connection |-> stats[s].connection, rx |-> stats[s].rx,
     gap_rx |-> stats[s].gap_rx, backfilling |-> stats[s].backfilling]

SystemSnapshot ==
    [at |-> snap.at, provider |-> snap.provider,
     sessions |-> [s \in snap.handles |-> AuthoritativeSessionSnapshot(s)]]

stamped_health_view(snapshot) == HealthView(snapshot)

publish(snapshot) ==
    shown' = IF surface = "health" THEN stamped_health_view(snapshot) ELSE snapshot

Publish ==
    /\ snap # Idle
    /\ publish(SystemSnapshot)
    /\ snap' = Idle
    /\ UNCHANGED <<hub, streams, records, surface>>

(* A plane may refuse a sample (too large, no loan), and the catalog that  *)
(* goes into it may fail to load: the task warns and keeps ticking.        *)
PublishFails ==
    /\ snap # Idle /\ surface # "web"
    /\ snap' = Idle
    /\ UNCHANGED <<hub, streams, records, surface, shown>>

(***************************************************************************)
(* A reader is given the newest: a plane's subscriber drains to it, or     *)
(* finds it when it joins (history_size 1); the web's event stream wakes   *)
(* on the version and loads the swap.                                      *)
(***************************************************************************)
receive_latest == shown
live_json_stream == shown

View ==
    CASE surface = "health" -> receive_latest
      [] surface = "diagnostics" -> HealthView(receive_latest)
      [] surface = "web" -> HealthView(live_json_stream)

(* The web's swap is filled before its listener binds.                     *)
warm == [at |-> 0, provider |-> ProviderSnapshot({}), sessions |-> [s \in {} |-> NewStats]]

-----------------------------------------------------------------------------
Init ==
    /\ clock = 0 /\ enabled = TRUE /\ link = "never"
    /\ sess = [s \in Streams |-> "idle"]
    /\ sent = [s \in Streams |-> <<>>] /\ taken = [s \in Streams |-> 0]
    /\ ring = [s \in Streams |-> <<>>] /\ lost = [s \in Streams |-> FALSE]
    /\ stats = [s \in Streams |-> NewStats] /\ acc = NewAccounting
    /\ surface \in Surfaces /\ snap = Idle
    /\ shown = IF surface = "web" THEN warm ELSE Nothing

Environment ==
    \/ HubConnects \/ SetEnabled
    \/ \E cause \in Causes : HubFails(cause)
    \/ \E s \in Streams :
          \/ HubData(s) \/ Open(s) \/ Leave(s)
          \/ \E b \in BOOLEAN : OpenFails(s, b) \/ Subscribed(s, b)

Next ==
    \/ Environment
    \/ \E s \in Streams :
          \/ Receive(s) \/ teardown_upstream(s)
          \/ \E b \in BOOLEAN : flush_backfill_pending(s, b)
    \/ Sample \/ Publish \/ PublishFails

Spec == Init /\ [][Next]_vars

(***************************************************************************)
(* The runtime keeps polling a controller with events queued, the ticker   *)
(* keeps ticking, and a surface that fails does not fail every time.       *)
(* Nothing obliges the provider, an opener or a referrer to act, a         *)
(* backfill to end, or a controller to let go of its route.                *)
(***************************************************************************)
Fairness ==
    /\ \A s \in Streams : WF_vars(Receive(s))
    /\ WF_vars(Sample) /\ SF_vars(Publish)

FairSpec == Spec /\ Fairness

-----------------------------------------------------------------------------
TypeOK ==
    /\ clock \in 0..Limit /\ enabled \in BOOLEAN
    /\ link \in {"never", "up"} \cup Causes
    /\ sess \in [Streams -> {"idle", "opening", "backfill", "live", "leaving", "gone"}]
    /\ \A s \in Streams : taken[s] \in 0..Len(sent[s]) /\ Len(ring[s]) <= RingCap
    /\ stats \in [Streams -> LiveStats] /\ acc \in ProviderAccounting
    /\ surface \in Surfaces /\ snap.at \in -1..Limit
    /\ snap # Idle => snap.provider.state \in ConnectionState
    /\ shown # Nothing =>
          /\ View.provider \in ProviderState
          /\ \A s \in DOMAIN View.streams : View.streams[s] \in Liveness

(* The connection controls a stream has received, oldest first.            *)
Received(s) ==
    SelectSeq(SubSeq(sent[s], 1, taken[s]), LAMBDA ev : ev.kind \in {"connected", "disconnected"})

(* The positions of q where its kind differs from the one before.          *)
Turns(q) == {i \in DOMAIN q : i = 1 \/ q[i].kind # q[i - 1].kind}

(***************************************************************************)
(* A stream's phase is what its controls say, however they were repeated   *)
(* or reclassified and whatever a backfill held back: up or down by the    *)
(* last one, since the first of the last run of its kind (an outage's      *)
(* clock is not restarted), with the last cause; and the provider's count  *)
(* of reconnects is that of the ends of outages its streams went through.  *)
(* (record_connection, record_provider_control.)                           *)
(***************************************************************************)
PhaseFollowsControls ==
    /\ \A s \in Streams :
          LET q == Received(s)
              turn == CHOOSE i \in Turns(q) : \A k \in Turns(q) : k <= i
          IN  stats[s].connection =
                  IF q = <<>> THEN Pending
                  ELSE IF q[turn].kind = "connected" THEN Up(q[turn].rx)
                  ELSE Down(q[turn].rx, q[Len(q)].cause)
    /\ acc.reconnects = Cardinality({<<s, i>> \in Streams \X (1..Limit) :
           i > 1 /\ i \in Turns(Received(s)) /\ Received(s)[i].kind = "connected"})

(* The hub is down on a fault, and has been since the stream joined it.     *)
Faulted(s) ==
    /\ link \notin {"up", "disabled"}
    /\ \E i \in DOMAIN sent[s] : sent[s][i].kind = "disconnected"

(* The view tells the hub's truth about the streams that are running.      *)
Truthful ==
    /\ shown # Nothing
    /\ LET view == View IN
       /\ DOMAIN view.streams = Visible
       /\ (view.provider = "disabled") = ~enabled
       /\ (enabled /\ link = "up" /\ \E s \in Visible : Routed(s)) => view.provider = "connected"
       /\ view.provider = "connected" => link = "up"
       /\ (\E s \in Visible : sess[s] = "live" /\ Faulted(s)) => ~ready(view)
       /\ \A s \in Visible : sess[s] = "live" =>
             /\ (view.streams[s].is = "stale") = Faulted(s)
             /\ view.streams[s].is # "backfilling"

(***************************************************************************)
(* What is shown becomes true: when the provider and its users settle, the *)
(* reader of every surface is left with a view that says the provider is   *)
(* connected exactly when its hub is, that marks a stream stale exactly    *)
(* when it is down on a fault, and that lists the open streams, whatever   *)
(* order controls, backfills, departures, samples and failed publishes     *)
(* came in.                                                                *)
(***************************************************************************)
ViewSettles == surface # "none" => <>[]Truthful

(***************************************************************************)
(* The claim of ProviderState::Unauthenticated that it is reported "until  *)
(* a connect succeeds": with no open ever refused and nothing requested, a *)
(* provider whose hub is connected does not read as rejected.              *)
(***************************************************************************)
RejectionCleared ==
    (\A s \in Streams : sess[s] = "gone" /\ sent[s] # <<>>) /\ link = "up"
        => connection_state({}) # "unauthenticated"

=============================================================================

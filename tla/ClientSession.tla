---------------------------- MODULE ClientSession ----------------------------
(***************************************************************************)
(* One client session: the ClientController task of crates/datamancer/src/ *)
(* client.rs.  It interleaves the substreams of the pairs it subscribes to *)
(* into one stream, which a consumer takes, drops and takes again; while   *)
(* no stream is held, a bounded ring keeps the newest events and accounts  *)
(* for the evicted ones per instrument.                                    *)
(*                                                                         *)
(* A substream offers what FanOut promises of a referrer's channel (its    *)
(* DeliveryInv): source-stamped events in increasing `seq`, with a gap     *)
(* control where some were lost.  It is drawn on demand: an item is chosen *)
(* when the controller polls it.                                           *)
(***************************************************************************)
EXTENDS Integers, Sequences, FiniteSets

CONSTANTS
    Pairs,           \* the (instrument, kind) pairs, as 2-tuples
    Times,           \* source timestamps an event may carry
    RingCap,         \* resume_buffer_events
    OutCap,          \* capacity of the consumer's channel (default_buffer)
    MaxRouted,       \* bound: data events and gaps drawn from substreams
    MaxFlips,        \* bound: connection transitions of the provider
    MaxOpens,        \* bound: subscribe calls
    MaxTakes         \* bound: take_events calls

ASSUME PairsAssumption == (\A p \in Pairs : p = <<p[1], p[2]>>) /\ IsFiniteSet(Pairs)
ASSUME BoundAssumption ==
    /\ Times \subseteq Int /\ RingCap \in Nat \ {0} /\ OutCap \in Nat \ {0}
    /\ {MaxRouted, MaxFlips, MaxOpens, MaxTakes} \subseteq Nat

Instruments == {p[1] : p \in Pairs}

(***************************************************************************)
(* An event on the multiplexed stream.  `pair` is the pair it came from (a *)
(* gap control shows its consumer only the instrument) and `open` tells    *)
(* the subscriptions of a pair apart: the authoritative session behind a   *)
(* re-opened pair may be a new one, counting from zero.  "sub" stands for  *)
(* SubscriptionChanged, "conn" for ProviderConnected / Disconnected and    *)
(* "closing" for SessionClosing, which carry no span.                      *)
(***************************************************************************)
Event(kind, p, n, seq, from, to) ==
    [kind |-> kind, pair |-> p, open |-> n, seq |-> seq, from |-> from, to |-> to]
NoPair == <<"-", "-">>
Control(kind) == Event(kind, NoPair, 0, 0, 0, 0)
NoGap == Control("none")
Events ==
    [kind : {"data", "gap", "sub", "conn", "closing"}, pair : Pairs \cup {NoPair},
     open : Nat, seq : Nat, from : Int, to : Int]

VARIABLES
    phase,         \* "running", "closing" (emit_session_closing) or "exited"
    close_asked,   \* a Close command is queued, or the handle was dropped
    entries,       \* the subscription set
    sink,          \* ClientSink: "attached" or "detached"
    out,           \* the attached channel: [open, q]
    ring,          \* ClientRing: [buf, dropped]
    work,          \* events the running handler has yet to deliver
    stats,         \* ClientStats: [occupancy, dropped_events]
    seen,          \* seen_provider_state of the one provider modelled
    opens,         \* per pair: how often it was subscribed
    next,          \* per pair: the next seq its substream offers
    flips,         \* connection transitions of the provider so far
    heard,         \* per pair: how many of them its substream has delivered
    takes,         \* take_events calls so far
    recv,          \* history: what the consumer received, over all streams
    routed,        \* history: spanned events taken from the substreams
    abandoned,     \* history: events a dropped stream held
    told,          \* history: connection transitions passed to the sink
    left           \* history: some pair left the subscription set

delivery == <<sink, out, ring, stats, recv, abandoned>>
source == <<opens, next, flips, heard, routed, left>>
vars == <<phase, close_asked, entries, work, delivery, source, seen, told, takes>>

-----------------------------------------------------------------------------
(* ClientRing.                                                             *)

EmptyRing == [buf |-> <<>>, dropped |-> [i \in Instruments |-> NoGap]]

has_span(ev) == ev.kind \in {"data", "gap"}

Least(a, b) == IF a <= b THEN a ELSE b
Greatest(a, b) == IF a >= b THEN a ELSE b

Widen(gap, ev) == [gap EXCEPT !.from = Least(@, ev.from), !.to = Greatest(@, ev.to)]
note_drop(dropped, ev) ==
    IF ~has_span(ev) THEN dropped
    ELSE [dropped EXCEPT ![ev.pair[1]] = IF @ = NoGap THEN [ev EXCEPT !.kind = "gap"] ELSE Widen(@, ev)]

full(r) == Len(r.buf) = RingCap

push(r, ev) ==
    IF full(r)
    THEN [buf |-> Append(Tail(r.buf), ev), dropped |-> note_drop(r.dropped, Head(r.buf))]
    ELSE [r EXCEPT !.buf = Append(@, ev)]

(* The orders in which flush_ring may emit the gaps: by first-evicted seq, *)
(* ties in the order the hash map yields them.                             *)
GapOrders(r) ==
    LET gaps == {i \in Instruments : r.dropped[i] # NoGap} IN
    {o \in [1..Cardinality(gaps) -> gaps] :
        /\ \A i \in gaps : \E n \in DOMAIN o : o[n] = i
        /\ \A m, n \in DOMAIN o : m < n => r.dropped[o[m]].seq <= r.dropped[o[n]].seq}

(* Faulty variant: the gaps trail the survivors.                           *)
into_parts_gaps_last(r, order) == r.buf \o [n \in DOMAIN order |-> r.dropped[order[n]]]

into_parts(r, order) == [n \in DOMAIN order |-> r.dropped[order[n]]] \o r.buf

-----------------------------------------------------------------------------
(* deliver, one event at a time: send to the consumer, waiting for room in *)
(* its channel; a closed or absent consumer means the ring.                *)

Idle == phase = "running" /\ work = <<>>

Send ==
    /\ sink = "attached" /\ out.open /\ Len(out.q) < OutCap
    /\ out' = [out EXCEPT !.q = Append(@, Head(work))]
    /\ UNCHANGED <<sink, ring, stats>>

(* Faulty variant: a send into a dropped stream is waited for.             *)
Buffer_unaware ==
    /\ sink = "detached"
    /\ ring' = push(ring, Head(work))
    /\ UNCHANGED <<sink, out, stats>>

Buffer ==
    /\ sink = "detached" \/ ~out.open
    /\ LET r == IF sink = "attached" THEN EmptyRing ELSE ring IN
       /\ ring' = push(r, Head(work))
       /\ stats' = [occupancy |-> Len(ring'.buf),
                    dropped_events |-> stats.dropped_events + IF full(r) THEN 1 ELSE 0]
    /\ sink' = "detached"
    /\ UNCHANGED out

(* The handler ends with its last event; after SessionClosing the task     *)
(* exits and drops the guard of every subscription.                        *)
deliver ==
    /\ work # <<>>
    /\ Send \/ Buffer
    /\ work' = Tail(work)
    /\ IF phase = "closing"
       THEN phase' = "exited" /\ entries' = {}
       ELSE UNCHANGED <<phase, entries>>
    /\ UNCHANGED <<close_asked, recv, abandoned, source, seen, told, takes>>

-----------------------------------------------------------------------------
(* route: one arm of the select, per substream item.                       *)

(* Data, and per-symbol controls, ride through unchanged.                  *)
RouteEvent(p, ev) ==
    /\ Idle /\ p \in entries
    /\ Len(routed) < MaxRouted
    /\ work' = <<ev>>
    /\ routed' = Append(routed, ev)
    /\ next' = [next EXCEPT ![p] = @ + 1]
    /\ UNCHANGED <<phase, close_asked, entries, delivery, opens, flips, heard, left,
                   seen, told, takes>>

RouteData(p, t) == RouteEvent(p, Event("data", p, opens[p], next[p], t, t + 1))
RouteGap(p, f, t) == RouteEvent(p, Event("gap", p, opens[p], next[p], f, t))

(* The provider's state after its n-th transition: connects, drops, ...    *)
StateAt(n) == IF n % 2 = 1 THEN "connected" ELSE "disconnected"

ProviderFlips ==
    /\ flips < MaxFlips
    /\ flips' = flips + 1
    /\ UNCHANGED <<phase, close_asked, entries, work, delivery, opens, next, heard,
                   routed, left, seen, told, takes>>

(* note_conn: only a state other than the recorded one is forwarded.       *)
note_conn(new) == seen # new

RouteConn(p) ==
    /\ Idle /\ p \in entries /\ heard[p] < flips
    /\ heard' = [heard EXCEPT ![p] = @ + 1]
    /\ LET new == StateAt(heard'[p]) IN
       IF note_conn(new)
       THEN seen' = new /\ told' = Append(told, new) /\ work' = <<Control("conn")>>
       ELSE UNCHANGED <<seen, told, work>>
    /\ UNCHANGED <<phase, close_asked, entries, delivery, opens, next, flips, routed,
                   left, takes>>

(* The substream closed; nothing more is drawn from it.                    *)
Leave(p) ==
    /\ Idle /\ p \in entries
    /\ entries' = entries \ {p}
    /\ left' = TRUE
    /\ work' = <<Control("sub")>>
    /\ UNCHANGED <<phase, close_asked, delivery, opens, next, flips, heard, routed,
                   seen, told, takes>>

handle_substream_end(p) == Leave(p)

-----------------------------------------------------------------------------
(* Commands.                                                               *)

unsubscribe(p) == Leave(p)

(* Either a new authoritative session is created, whose hub is connected   *)
(* and reports so to the new route, or a running one is joined: wherever   *)
(* it stands in the provider's transitions, and without that report.       *)
subscribe(p) ==
    /\ Idle /\ p \notin entries
    /\ opens[p] < MaxOpens
    /\ entries' = entries \cup {p}
    /\ opens' = [opens EXCEPT ![p] = @ + 1]
    /\ \/ /\ StateAt(flips) = "connected"
          /\ next' = [next EXCEPT ![p] = 0]
          /\ heard' = [heard EXCEPT ![p] = flips - 1]
       \/ /\ UNCHANGED next
          /\ \E h \in 1..flips : heard' = [heard EXCEPT ![p] = h]
    /\ UNCHANGED <<phase, close_asked, work, delivery, flips, routed, left, seen,
                   told, takes>>

(* Take: a fresh channel replaces the sink, then the ring is flushed into  *)
(* it.  `held` is FALSE when the caller gave up waiting for the reply: the *)
(* receiver is already gone when the flush starts.                         *)
take_events(held) ==
    /\ Idle /\ takes < MaxTakes
    /\ sink = "detached" \/ ~out.open
    /\ takes' = takes + 1
    /\ sink' = "attached"
    /\ out' = [open |-> held, q |-> <<>>]
    /\ stats' = [stats EXCEPT !.occupancy = 0]
    /\ IF sink = "detached"
       THEN \E o \in GapOrders(ring) : work' = into_parts(ring, o)
       ELSE UNCHANGED work
    /\ ring' = EmptyRing
    /\ UNCHANGED <<phase, close_asked, entries, recv, abandoned, source, seen, told>>

(* The holder calls close, or drops the handle.                            *)
AskClose ==
    /\ ~close_asked
    /\ close_asked' = TRUE
    /\ UNCHANGED <<phase, entries, work, delivery, source, seen, told, takes>>

emit_session_closing ==
    /\ Idle /\ close_asked
    /\ phase' = "closing"
    /\ work' = <<Control("closing")>>
    /\ UNCHANGED <<close_asked, entries, delivery, source, seen, told, takes>>

-----------------------------------------------------------------------------
(* The consumer.                                                           *)

Recv ==
    /\ out.open /\ out.q # <<>>
    /\ recv' = Append(recv, Head(out.q))
    /\ out' = [out EXCEPT !.q = Tail(@)]
    /\ UNCHANGED <<phase, close_asked, entries, work, sink, ring, stats, abandoned,
                   source, seen, told, takes>>

DropStream ==
    /\ out.open
    /\ abandoned' = abandoned \cup {out.q[i] : i \in DOMAIN out.q}
    /\ out' = [open |-> FALSE, q |-> <<>>]
    /\ UNCHANGED <<phase, close_asked, entries, work, sink, ring, stats, recv,
                   source, seen, told, takes>>

-----------------------------------------------------------------------------
Init ==
    /\ phase = "running" /\ close_asked = FALSE /\ entries = {}
    /\ sink = "detached" /\ out = [open |-> FALSE, q |-> <<>>]
    /\ ring = EmptyRing /\ work = <<>>
    /\ stats = [occupancy |-> 0, dropped_events |-> 0]
    /\ seen = "unknown"
    /\ opens = [p \in Pairs |-> 0] /\ next = [p \in Pairs |-> 0]
    /\ flips = 1 /\ heard = [p \in Pairs |-> 0] /\ takes = 0
    /\ recv = <<>> /\ routed = <<>> /\ abandoned = {}
    /\ told = <<>> /\ left = FALSE

Substream(p) ==
    \/ \E t \in Times : RouteData(p, t)
    \/ \E f, t \in Times : f <= t /\ RouteGap(p, f, t + 1)
    \/ RouteConn(p)
    \/ handle_substream_end(p)

Next ==
    \/ deliver
    \/ \E p \in Pairs : Substream(p) \/ subscribe(p) \/ unsubscribe(p)
    \/ ProviderFlips
    \/ \E held \in BOOLEAN : take_events(held)
    \/ AskClose \/ emit_session_closing
    \/ Recv \/ DropStream

Spec == Init /\ [][Next]_vars

(***************************************************************************)
(* The runtime polls the task while it has something to do, and            *)
(* tokio::select! picks among ready arms at random, so a queued command is *)
(* not passed over for ever.                                               *)
(***************************************************************************)
TaskFairness == WF_vars(deliver) /\ SF_vars(emit_session_closing)

(* A consumer that polls the stream it holds.                              *)
ConsumerFairness == WF_vars(Recv)

FairSpec == Spec /\ TaskFairness /\ ConsumerFairness

-----------------------------------------------------------------------------
TypeOK ==
    /\ phase \in {"running", "closing", "exited"} /\ close_asked \in BOOLEAN
    /\ entries \subseteq Pairs /\ sink \in {"attached", "detached"}
    /\ out \in [open : BOOLEAN, q : Seq(Events)]
    /\ ring \in [buf : Seq(Events), dropped : [Instruments -> Events \cup {NoGap}]]
    /\ Len(ring.buf) <= RingCap /\ Len(out.q) <= OutCap
    /\ work \in Seq(Events)
    /\ stats \in [occupancy : Nat, dropped_events : Nat]
    /\ seen \in {"unknown", "connected", "disconnected"}
    /\ opens \in [Pairs -> Nat] /\ next \in [Pairs -> Nat]
    /\ flips \in Nat /\ heard \in [Pairs -> Nat] /\ takes \in Nat
    /\ recv \in Seq(Events) /\ routed \in Seq(Events) /\ abandoned \subseteq Events
    /\ told \in Seq({"connected", "disconnected"}) /\ left \in BOOLEAN

Elems(s) == {s[i] : i \in DOMAIN s}

(* A gap control g accounts for the loss of e: same instrument, a span     *)
(* that includes e's and, on e's own numbering, a seq no later than e's.   *)
Covers(g, e) ==
    /\ g.kind = "gap" /\ g.pair[1] = e.pair[1]
    /\ g.from <= e.from /\ e.to <= g.to
    /\ (g.pair = e.pair /\ g.open = e.open) => g.seq <= e.seq

Answers(x, e) == x = e \/ Covers(x, e)

(* Everything the session still holds for its consumer.                    *)
Held == Elems(out.q) \cup Elems(ring.buf) \cup Elems(work)
            \cup {ring.dropped[i] : i \in Instruments}

(***************************************************************************)
(* No event is lost without account: what was drawn from a substream has   *)
(* been received, is on its way, was in a stream the consumer dropped, or  *)
(* a gap control in one of those places covers it.  The ring's eviction,   *)
(* the flush that is interrupted by another drop and the take whose caller *)
(* has gone all preserve this (push, note_drop, flush_ring, deliver).      *)
(***************************************************************************)
LossAccounted ==
    phase # "exited" =>
        \A e \in Elems(routed) :
            \E x \in Elems(recv) \cup Held \cup abandoned : Answers(x, e)

(***************************************************************************)
(* Loss is in-band and in order: when the consumer receives a data event,  *)
(* everything drawn before it has been received, covered by a gap control  *)
(* received before, or was in a stream the consumer itself dropped.  It is *)
(* why flush_ring emits the gaps before the survivors.                     *)
(***************************************************************************)
HolelessBut(excused) ==
    \A i \in DOMAIN recv : \A m, n \in DOMAIN routed :
        m < n /\ routed[n] = recv[i] /\ recv[i].kind = "data" =>
            \E x \in {recv[k] : k \in 1..(i - 1)} \cup excused : Answers(x, routed[m])

NoSilentHole == HolelessBut(abandoned)

(***************************************************************************)
(* What makes it so.  An event is accounted for by a set when a member     *)
(* answers for it; what counts is how that set stands to the place an      *)
(* event has on its way to the consumer.                                   *)
(***************************************************************************)
Accounts(S, e) == \E x \in S : Answers(x, e)
Upto(s, j) == {s[k] : k \in 1..(j - 1)}

(* A data event has S ahead of it: all that was drawn before it is there.   *)
Follows(drawn, x, S) ==
    x.kind = "data" => \A m, n \in DOMAIN drawn : m < n /\ drawn[n] = x => Accounts(S, drawn[m])
(* So is all that has an earlier number in its own subscription.  A gap that *)
(* starts at x may therefore be widened: no earlier number needs it.         *)
Heads(drawn, x, S) ==
    has_span(x) => \A e \in Elems(drawn) :
        e.pair = x.pair /\ e.open = x.open /\ e.seq < x.seq => Accounts(S, e)
Behind(x, S) == Follows(routed, x, S) /\ Heads(routed, x, S)

Settled == Elems(recv) \cup abandoned
Gaps == {ring.dropped[i] : i \in Instruments}
Ahead == Settled \cup Elems(out.q) \cup Gaps \cup Elems(ring.buf)

InOrder ==
    /\ \A i \in DOMAIN recv : Follows(routed, recv[i], Upto(recv, i) \cup abandoned)
    /\ \A j \in DOMAIN out.q : Follows(routed, out.q[j], Settled \cup Upto(out.q, j))
    /\ \A i \in Instruments : Heads(routed, ring.dropped[i], Settled)
    /\ \A j \in DOMAIN ring.buf : Behind(ring.buf[j], Settled \cup Gaps \cup Upto(ring.buf, j))
    /\ \A j \in DOMAIN work : Behind(work[j], Ahead \cup Upto(work, j))
    /\ \A e \in Elems(routed) : Accounts(Ahead \cup Elems(work), e)

(* Where events can be at all: an attached sink has an empty ring, a         *)
(* dropped stream holds nothing.                                             *)
Shape ==
    /\ sink = "attached" => ring = EmptyRing
    /\ sink = "detached" => ~out.open
    /\ ~out.open => out.q = <<>>
    /\ \A i \in Instruments :
         ring.dropped[i] # NoGap => ring.dropped[i].kind = "gap" /\ ring.dropped[i].pair[1] = i

(* The next number of a substream is new to everything on the way.           *)
NumberedNext ==
    /\ \A e \in Elems(routed) : has_span(e)
    /\ \A x \in Elems(recv) \cup Held : has_span(x) =>
         /\ x.pair \in Pairs /\ x.open <= opens[x.pair]
         /\ x.open = opens[x.pair] => x.seq < next[x.pair]

SessionInv == TypeOK /\ Shape /\ NumberedNext /\ InOrder

Before(x, y) ==
    has_span(x) /\ has_span(y) /\ x.pair = y.pair /\ x.open = y.open => x.seq < y.seq
Sorted(s) == \A i, k \in DOMAIN s : i < k => Before(s[i], s[k])

(***************************************************************************)
(* Within one subscription of one pair the consumer sees increasing seq,   *)
(* over every take and drop of the stream: neither the ring nor an         *)
(* interrupted flush reorders or repeats (a gap rides the first-evicted    *)
(* slot, so it sorts before the survivors).                                *)
(***************************************************************************)
OrderedPerPair == Sorted(recv)

(* What makes it so: numbers increase all the way through the stream, the    *)
(* gaps, the ring and the work, in that order.                               *)
Chained(S, s) == Sorted(s) /\ \A x \in S, y \in Elems(s) : Before(x, y)
SortedInv ==
    /\ Sorted(recv)
    /\ Chained(Elems(recv), out.q)
    /\ \A x \in Elems(recv) \cup Elems(out.q), g \in Gaps : Before(x, g)
    /\ Chained(Elems(recv) \cup Elems(out.q) \cup Gaps, ring.buf)
    /\ Chained(Elems(recv) \cup Elems(out.q) \cup Gaps \cup Elems(ring.buf), work)

(***************************************************************************)
(* The resume-buffer figures an operator reads never understate a loss:    *)
(* there are at least as many evictions on dropped_events as events drawn  *)
(* that are nowhere any more.                                              *)
(***************************************************************************)
LossCounted ==
    phase # "exited" =>
        Cardinality(Elems(routed) \ (Elems(recv) \cup Held \cup abandoned))
            <= stats.dropped_events

(***************************************************************************)
(* The coalescer settles on the truth: once every subscribed substream has *)
(* delivered every connection transition, the recorded (and last reported) *)
(* state is the provider's, however the substreams were interleaved.  Only *)
(* a client that never gave up a pair has this guarantee: one that leaves  *)
(* takes the transitions its substream still held with it.                 *)
(***************************************************************************)
ConnSettles ==
    (/\ phase = "running" /\ ~left /\ told # <<>>
     /\ \A p \in entries : heard[p] = flips)
        => seen = StateAt(flips) /\ told[Len(told)] = seen

(***************************************************************************)
(* close() returns and every subscription is released, whatever is queued, *)
(* as long as the consumer polls the stream it holds or drops it.          *)
(***************************************************************************)
CloseCompletes == close_asked ~> (phase = "exited")

-----------------------------------------------------------------------------
(* What the documentation says and the controller does not do.             *)

(***************************************************************************)
(* Session::take_events: events undelivered in a dropped stream's channel  *)
(* "are never `seq`-stamped, so the delivered stream stays contiguous".    *)
(***************************************************************************)
ContiguousDelivery == HolelessBut({})

(***************************************************************************)
(* client.rs, Ordering: the key `(instrument, seq)` is "monotonic *within* *)
(* each instrument", here over one subscription of every pair.             *)
(***************************************************************************)
OrderedPerInstrument ==
    (\A p \in Pairs : opens[p] <= 1) =>
        \A i, k \in DOMAIN recv :
            /\ i < k /\ recv[i].kind = "data" /\ recv[k].kind = "data"
            /\ recv[i].pair[1] = recv[k].pair[1]
            => recv[i].seq < recv[k].seq

=============================================================================

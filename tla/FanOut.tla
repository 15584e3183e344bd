------------------------------- MODULE FanOut -------------------------------
(***************************************************************************)
(* One authoritative live session: the controller of one (instrument,      *)
(* kind) pair (crates/datamancer/src/session.rs, run_live) that stamps     *)
(* `seq` at the source, tees to the tap log and fans the stamped stream    *)
(* out to its referrers over bounded channels (crates/datamancer/src/      *)
(* client.rs, FanOut).  It covers one session from the moment its first    *)
(* referrer is seeded to the moment its controller exits; the registry and *)
(* the provider hub around it are in LiveRegistry.                         *)
(*                                                                         *)
(* A bounded channel is everything it ever accepted (`sent`) together with *)
(* the number of events its receiver has taken (`read`).                   *)
(***************************************************************************)
EXTENDS Integers, Sequences, FiniteSets

CONSTANTS
    Referrers,   \* subscriber ids the session's counter may hand out
    Cap,         \* capacity of a referrer's channel (default_buffer)
    Synthetic,   \* Seq::SYNTHETIC, u64::MAX in the code: never stamped
    Times,       \* source timestamps an event may carry
    Unserved,    \* bound: spans the backfill may fail to serve
    Controls,    \* span-less control kinds the provider may send
    Toggles      \* tap-log settings an opener or SetPersistence may ask for

(***************************************************************************)
(* The code's capacity is 1024.  With room for two events the two          *)
(* consecutive try_sends of `fanout` (owed gap, then event) are            *)
(* indistinguishable from one step, whatever the receiver does between.    *)
(***************************************************************************)
ASSUME CapAssumption == Cap \in Nat /\ Cap >= 2
ASSUME SyntheticAssumption == Synthetic \in Nat /\ Synthetic >= 1
ASSUME InputAssumption ==
    Times \subseteq Int /\ Controls \subseteq {"sub", "control"} /\ Toggles \subseteq BOOLEAN

(***************************************************************************)
(* A market event: a data event spans [from, to) with to = from + 1, a gap *)
(* control its embedded span; "sub" is SubscriptionChanged{active: true},  *)
(* "control" every control without an instrument span that is not cached.  *)
(***************************************************************************)
EventKinds == {"data", "gap", "sub", "control"}
MarketEvent == [kind : EventKinds, seq : Nat, from : Int, to : Int]
NoEvent == [kind |-> "none", seq |-> 0, from |-> 0, to |-> 0]

VARIABLES
    phase,           \* "running" until run_live returns
    next_seq,        \* the single-writer source counter
    log,             \* history: the canonical stream, in stamping order
    write_tap_log,   \* the tap-log axis of the session's PersistenceOptions
    tap,             \* what was teed to the tap log
    seed,            \* "pending" until the latest-value future resolves
    data_forwarded,
    subscribers,     \* ids in the fan-out map
    had_subscriber,
    last_subscription_changed,
    pending,         \* per referrer: the gap owed to it, or NoEvent
    sent,            \* per referrer: events its channel accepted
    read,            \* per referrer: how many of them it has taken
    rx,              \* per referrer: "new", "open" or "closed" receiver
    removals,        \* ids queued on the unbounded removal channel
    joined           \* history: next_seq when the referrer was added

controller == <<next_seq, log, write_tap_log, tap, seed, data_forwarded>>
fan == <<subscribers, had_subscriber, last_subscription_changed, pending>>
channels == <<sent, read, rx>>
vars == <<phase, controller, fan, channels, removals, joined>>

-----------------------------------------------------------------------------
(* What a dropped event contributes to a gap, and how it is folded.        *)

gap_coords(ev) == ev.kind \in {"data", "gap"}

Min2(a, b) == IF a <= b THEN a ELSE b
Max2(a, b) == IF a >= b THEN a ELSE b

absorb(p, ev) ==
    [p EXCEPT !.from = Min2(p.from, ev.from), !.to = Max2(p.to, ev.to)]

absorb_drop(p, ev) ==
    IF ~gap_coords(ev) THEN p
    ELSE IF p # NoEvent THEN absorb(p, ev)
    ELSE [kind |-> "gap", seq |-> ev.seq, from |-> ev.from, to |-> ev.to]

(***************************************************************************)
(* One referrer's share of FanOut::fanout: first the gap owed to it, then  *)
(* the event, each with try_send.  Full channels fold the event into the   *)
(* gap.                                                                    *)
(***************************************************************************)
Room(r) == Cap - (Len(sent[r]) - read[r])

(* Faulty variant: the event is sent ahead of the gap owed before it.       *)
SentBy_event_first(r, ev) ==
    IF pending[r] # NoEvent
    THEN CASE Room(r) <= 0 -> sent[r]
           [] Room(r) = 1  -> Append(sent[r], pending[r])
           [] OTHER        -> Append(Append(sent[r], ev), pending[r])
    ELSE IF Room(r) >= 1 THEN Append(sent[r], ev) ELSE sent[r]

SentBy(r, ev) ==
    IF pending[r] # NoEvent
    THEN CASE Room(r) <= 0 -> sent[r]
           [] Room(r) = 1  -> Append(sent[r], pending[r])
           [] OTHER        -> Append(Append(sent[r], pending[r]), ev)
    ELSE IF Room(r) >= 1 THEN Append(sent[r], ev) ELSE sent[r]

(* Faulty variant: the first event a full channel refuses opens no gap.    *)
PendingBy_forgetful(r, ev) ==
    IF Room(r) <= 0 /\ pending[r] # NoEvent THEN absorb_drop(pending[r], ev) ELSE NoEvent

PendingBy(r, ev) ==
    IF pending[r] # NoEvent
    THEN CASE Room(r) <= 0 -> absorb_drop(pending[r], ev)
           [] Room(r) = 1  -> absorb_drop(NoEvent, ev)
           [] OTHER        -> NoEvent
    ELSE IF Room(r) >= 1 THEN NoEvent ELSE absorb_drop(NoEvent, ev)

(* Live referrers are offered the event, closed ones leave the map.        *)
fanout(ev) ==
    LET live == {r \in subscribers : rx[r] = "open"} IN
    /\ sent' = [r \in Referrers |-> IF r \in live THEN SentBy(r, ev) ELSE sent[r]]
    /\ pending' = [r \in Referrers |-> IF r \in live THEN PendingBy(r, ev) ELSE pending[r]]
    /\ subscribers' = live
    /\ last_subscription_changed' =
           IF ev.kind = "sub" THEN ev ELSE last_subscription_changed

should_teardown == had_subscriber /\ subscribers = {}

(* The loop checks for teardown before it waits for the next input.        *)
Polling == phase = "running" /\ ~should_teardown

-----------------------------------------------------------------------------
(* The stamping pipeline.                                                  *)

CanStamp == next_seq + 1 # Synthetic

stamp(kind, from, to) == [kind |-> kind, seq |-> next_seq, from |-> from, to |-> to]

(* emit: stamp and deliver; forward: stamp, tee and deliver.               *)
Stamped(ev) ==
    /\ CanStamp
    /\ next_seq' = next_seq + 1
    /\ log' = Append(log, ev)
    /\ fanout(ev)
    /\ UNCHANGED <<phase, had_subscriber, write_tap_log, read, rx, removals, joined>>

(* Faulty variant: the tee records the provider's unstamped event.         *)
tee_unstamped(ev) ==
    tap' = IF ev.kind = "data" /\ write_tap_log
           THEN Append(tap, [ev EXCEPT !.seq = 0]) ELSE tap

tee(ev) ==
    tap' = IF ev.kind = "data" /\ write_tap_log THEN Append(tap, ev) ELSE tap

forward(ev) ==
    /\ Stamped(ev)
    /\ tee(ev)
    /\ data_forwarded' = (data_forwarded \/ ev.kind = "data")

(* An arrival from the provider channel: data or a control.                *)
ProviderData(t) ==
    /\ Polling
    /\ forward(stamp("data", t, t + 1))
    /\ UNCHANGED seed

ProviderControl(kind) ==
    /\ Polling
    /\ forward(stamp(kind, 0, 0))
    /\ UNCHANGED seed

(* A span the backfill could not serve: forwarded, though not teed.        *)
emit_gap(f, t) ==
    /\ Polling
    /\ Cardinality({i \in DOMAIN log : log[i].kind = "gap"}) < Unserved
    /\ forward(stamp("gap", f, t))
    /\ UNCHANGED seed

(* The latest-value seed: first data event, unless a live one won.         *)
SeedArrives(t) ==
    /\ Polling /\ seed = "pending"
    /\ seed' = "done"
    /\ \/ ~data_forwarded /\ forward(stamp("data", t, t + 1))
       \/ /\ data_forwarded
          /\ UNCHANGED <<phase, next_seq, log, write_tap_log, tap, data_forwarded,
                         fan, channels, removals, joined>>

SeedEmpty ==
    /\ Polling /\ seed = "pending"
    /\ seed' = "done"
    /\ UNCHANGED <<phase, next_seq, log, write_tap_log, tap, data_forwarded,
                   fan, channels, removals, joined>>

SetPersistence(on) ==
    /\ Polling
    /\ write_tap_log' = on
    /\ UNCHANGED <<phase, next_seq, log, tap, seed, data_forwarded,
                   fan, channels, removals, joined>>

(* The counter met the reservation: stamping panics and the task dies.     *)
SeqExhausted ==
    /\ Polling /\ ~CanStamp
    /\ phase' = "stopped"
    /\ UNCHANGED <<controller, fan, channels, removals, joined>>

-----------------------------------------------------------------------------
(* Referrers.                                                              *)

(* Faulty variant: the state replayed to a joiner takes the next number.    *)
add_renumbered(r) ==
    /\ Polling /\ rx[r] = "new"
    /\ subscribers' = subscribers \cup {r}
    /\ had_subscriber' = TRUE
    /\ joined' = [joined EXCEPT ![r] = next_seq]
    /\ sent' = [sent EXCEPT ![r] =
           IF last_subscription_changed = NoEvent THEN <<>>
           ELSE <<[last_subscription_changed EXCEPT !.seq = next_seq]>>]

(* AddSubscriber: the joiner's fresh channel first gets the cached state.  *)
add(r) ==
    /\ Polling /\ rx[r] = "new"
    /\ subscribers' = subscribers \cup {r}
    /\ had_subscriber' = TRUE
    /\ joined' = [joined EXCEPT ![r] = next_seq]
    /\ sent' = [sent EXCEPT ![r] = IF last_subscription_changed = NoEvent
                                   THEN <<>> ELSE <<last_subscription_changed>>]

AddSubscriber(r) ==
    /\ add(r)
    /\ rx' = [rx EXCEPT ![r] = "open"]
    /\ UNCHANGED <<phase, controller, last_subscription_changed, pending, read, removals>>

(* The opener was cancelled while its AddSubscriber was queued: the        *)
(* receiver is gone and no guard will ever queue a removal.                *)
AddCancelled(r) ==
    /\ add(r)
    /\ rx' = [rx EXCEPT ![r] = "closed"]
    /\ UNCHANGED <<phase, controller, last_subscription_changed, pending, read, removals>>

(* The referrer takes one event from its channel.                          *)
Recv(r) ==
    /\ rx[r] = "open" /\ read[r] < Len(sent[r])
    /\ read' = [read EXCEPT ![r] = @ + 1]
    /\ UNCHANGED <<phase, controller, fan, sent, rx, removals, joined>>

(* The referrer drops its guard, which queues the removal, and its channel. *)
DropReferrer(r) ==
    /\ rx[r] = "open"
    /\ rx' = [rx EXCEPT ![r] = "closed"]
    /\ removals' = removals \cup {r}
    /\ UNCHANGED <<phase, controller, fan, sent, read, joined>>

RemoveSubscriber(r) ==
    /\ Polling /\ r \in removals
    /\ removals' = removals \ {r}
    /\ subscribers' = subscribers \ {r}
    /\ UNCHANGED <<phase, controller, had_subscriber, last_subscription_changed,
                   pending, channels, joined>>

-----------------------------------------------------------------------------
(* Ways out of run_live.                                                   *)

Exit ==
    /\ phase' = "stopped"
    /\ UNCHANGED <<controller, fan, channels, removals, joined>>

Teardown == phase = "running" /\ should_teardown /\ Exit

(* Faulty variant: the controller itself keeps a sender of the channel.    *)
RemovalChannelPinned == Polling /\ FALSE /\ Exit

(* Every strong reference is gone, so the removal channel is closed.       *)
RemovalChannelClosed ==
    /\ Polling /\ removals = {}
    /\ \A r \in Referrers : rx[r] # "open"
    /\ Exit

ProviderExit == Polling /\ Exit

Init ==
    /\ phase = "running" /\ next_seq = 0 /\ log = <<>>
    /\ write_tap_log \in Toggles /\ tap = <<>>
    /\ seed \in {"pending", "done"} /\ data_forwarded = FALSE
    /\ \E first \in Referrers :
          /\ subscribers = {first}
          /\ rx = [r \in Referrers |-> IF r = first THEN "open" ELSE "new"]
    /\ had_subscriber = TRUE /\ last_subscription_changed = NoEvent
    /\ pending = [r \in Referrers |-> NoEvent]
    /\ sent = [r \in Referrers |-> <<>>]
    /\ read = [r \in Referrers |-> 0]
    /\ removals = {}
    /\ joined = [r \in Referrers |-> 0]

ControllerInput ==
    \/ \E t \in Times : ProviderData(t) \/ SeedArrives(t)
    \/ \E kind \in Controls : ProviderControl(kind)
    \/ \E f, t \in Times : f <= t /\ emit_gap(f, t + 1)
    \/ SeedEmpty
    \/ \E on \in Toggles : SetPersistence(on)
    \/ \E r \in Referrers : AddSubscriber(r) \/ AddCancelled(r)
    \/ ProviderExit

Next ==
    \/ ControllerInput
    \/ SeqExhausted
    \/ \E r \in Referrers : Recv(r) \/ DropReferrer(r) \/ RemoveSubscriber(r)
    \/ Teardown
    \/ RemovalChannelClosed

Spec == Init /\ [][Next]_vars

(***************************************************************************)
(* The runtime keeps polling the controller's ready channels and wakes a   *)
(* consumer that awaits its stream.  Nothing obliges the provider, a       *)
(* joiner or a leaving referrer to act.                                    *)
(***************************************************************************)
Fairness ==
    /\ \A r \in Referrers : WF_vars(Recv(r)) /\ WF_vars(RemoveSubscriber(r))
    /\ WF_vars(Teardown) /\ WF_vars(RemovalChannelClosed)

FairSpec == Spec /\ Fairness

-----------------------------------------------------------------------------
TypeOK ==
    /\ phase \in {"running", "stopped"}
    /\ next_seq \in Nat /\ log \in Seq(MarketEvent)
    /\ write_tap_log \in BOOLEAN /\ tap \in Seq(MarketEvent)
    /\ seed \in {"pending", "done"} /\ data_forwarded \in BOOLEAN
    /\ subscribers \subseteq Referrers /\ had_subscriber \in BOOLEAN
    /\ last_subscription_changed \in MarketEvent \cup {NoEvent}
    /\ pending \in [Referrers -> MarketEvent \cup {NoEvent}]
    /\ sent \in [Referrers -> Seq(MarketEvent)]
    /\ read \in [Referrers -> Nat]
    /\ rx \in [Referrers -> {"new", "open", "closed"}]
    /\ removals \subseteq Referrers
    /\ joined \in [Referrers -> Nat]

(***************************************************************************)
(* What the properties say of one referrer: q is what its channel          *)
(* accepted, p the gap owed to it, lg the canonical stream, j the position *)
(* at which it joined.                                                     *)
(***************************************************************************)

(* A gap control g accounts for the loss of event e.                       *)
Covers(g, e) ==
    /\ g.kind = "gap" /\ g.seq <= e.seq
    /\ g.from <= e.from /\ e.to <= g.to

(* By position i of q, event e has arrived or a gap accounts for it.       *)
SeenBy(q, i, e) == \E k \in 1..i : q[k] = e \/ Covers(q[k], e)

Ordered(q, p) ==
    /\ \A i, k \in 1..Len(q) : i < k => q[i].seq < q[k].seq
    /\ p # NoEvent => \A i \in 1..Len(q) : q[i].seq < p.seq

Stands(e, lg) == e.seq < Len(lg) /\ (e = lg[e.seq + 1] \/ Covers(e, lg[e.seq + 1]))

Holeless(q, lg, j) ==
    \A i \in 1..Len(q) : \A s \in j .. (q[i].seq - 1) :
        gap_coords(lg[s + 1]) => SeenBy(q, i, lg[s + 1])

Accounted(q, p, lg, j) ==
    \A s \in j .. (Len(lg) - 1) :
        gap_coords(lg[s + 1]) => SeenBy(q, Len(q), lg[s + 1]) \/ Covers(p, lg[s + 1])

(***************************************************************************)
(* Every referrer sees the stream in strictly increasing `seq` order, gap  *)
(* controls included, and a gap still owed to it starts after everything   *)
(* already accepted: fanout flushes the gap ahead of resumed delivery, and *)
(* a late joiner's replayed SubscriptionChanged is older than the rest.    *)
(***************************************************************************)
OrderedDelivery == \A r \in Referrers : Ordered(sent[r], pending[r])

(***************************************************************************)
(* Source stamping: all referrers see the same event under a `seq`.  What  *)
(* a referrer gets under seq s is the s-th stamped event, or a gap control *)
(* standing for it where the s-th event was one that can be lost.          *)
(***************************************************************************)
SameAcrossReferrers ==
    \A r \in Referrers : \A i \in 1..Len(sent[r]) : Stands(sent[r][i], log)

(***************************************************************************)
(* Loss is in-band and in order: when a referrer reaches an event with     *)
(* `seq` q, every data event and gap stamped since it joined and before q  *)
(* has reached it, or a gap it has already seen covers that event's span.  *)
(* This is what absorb_drop and the flush-first rule of fanout are for.    *)
(***************************************************************************)
NoSilentHole == \A r \in Referrers : Holeless(sent[r], log, joined[r])

(***************************************************************************)
(* Nothing is forgotten at the end of the stream either: whatever was      *)
(* stamped since an attached referrer joined is in its channel, covered by *)
(* a gap there, or covered by the gap still owed to it.                    *)
(***************************************************************************)
LossAccounted ==
    \A r \in subscribers :
        rx[r] = "open" => Accounted(sent[r], pending[r], log, joined[r])

(***************************************************************************)
(* The inductive strengthening of the four properties above: the log is    *)
(* numbered by the counter, an owed gap and the cached control stand for   *)
(* stamped events, and an id that has not joined has no state.             *)
(***************************************************************************)
LogNumbered ==
    next_seq = Len(log) /\ \A i \in 1..Len(log) : log[i].seq = i - 1

OwedReal ==
    \A r \in Referrers : pending[r] # NoEvent =>
        pending[r].kind = "gap" /\ Stands(pending[r], log)

CachedReal ==
    last_subscription_changed # NoEvent =>
        /\ last_subscription_changed.seq < Len(log)
        /\ last_subscription_changed = log[last_subscription_changed.seq + 1]

NotJoined ==
    \A r \in Referrers : rx[r] = "new" =>
        sent[r] = <<>> /\ pending[r] = NoEvent /\ r \notin subscribers

JoinedInLog == \A r \in Referrers : joined[r] <= Len(log)

DeliveryInv ==
    /\ TypeOK /\ LogNumbered /\ OwedReal /\ CachedReal /\ NotJoined /\ JoinedInLog
    /\ OrderedDelivery /\ SameAcrossReferrers /\ NoSilentHole /\ LossAccounted

(***************************************************************************)
(* The session implements the lossy stream: every step of the controller   *)
(* and of its referrers is a step of LossyStream or leaves it unchanged.   *)
(* What is lost to a referrer and not yet reported is every spanned event  *)
(* since the one its owed gap is numbered after.                           *)
(***************************************************************************)
LostSince(p, lg) == {s \in p.seq .. (Len(lg) - 1) : gap_coords(lg[s + 1])}

Unreported == [r \in Referrers |->
    IF rx[r] = "open" /\ pending[r] # NoEvent THEN LostSince(pending[r], log) ELSE {}]

Stream == INSTANCE LossyStream WITH
    Receivers <- Referrers, Lossless <- {"sub", "control"}, out <- sent, lost <- Unreported

ImplementsLossyStream == Stream!Spec

(***************************************************************************)
(* What the refinement rests on beyond the delivery invariant: an owed gap *)
(* is exactly the one for what was lost since its number, whoever listens  *)
(* is in the fan-out map, only ids whose receiver is gone are queued for   *)
(* removal, and the cached control is a SubscriptionChanged.               *)
(***************************************************************************)
Exact(p, lg) ==
    /\ p.seq \in LostSince(p, lg)
    /\ \A s \in LostSince(p, lg) : p.from <= lg[s + 1].from /\ lg[s + 1].to <= p.to
    /\ \E s \in LostSince(p, lg) : lg[s + 1].from = p.from
    /\ \E s \in LostSince(p, lg) : lg[s + 1].to = p.to

OwedExact ==
    \A r \in Referrers :
        rx[r] = "open" /\ pending[r] # NoEvent => Exact(pending[r], log)

Roster ==
    /\ \A r \in Referrers : rx[r] = "open" => r \in subscribers
    /\ \A r \in removals : rx[r] = "closed"

CachedSub ==
    last_subscription_changed # NoEvent => last_subscription_changed.kind = "sub"

StreamInv == OwedExact /\ Roster /\ CachedSub

(***************************************************************************)
(* The seed is a stand-in for the first value and never an extra one: no   *)
(* seed is stamped after a live data event.  (run_live's data_forwarded.)  *)
(* Stated on steps: the step that resolves the seed future stamps an event *)
(* only when the canonical stream holds no data event yet.                 *)
(***************************************************************************)
SeedOnlyFirst ==
    [][seed = "pending" /\ seed' = "done" /\ log' # log
         => \A i \in DOMAIN log : log[i].kind # "data"]_vars

(* What makes it so: data_forwarded is set with the first data event.      *)
SeedInv == ~data_forwarded => \A i \in DOMAIN log : log[i].kind # "data"

(***************************************************************************)
(* The tap log holds the source `seq` verbatim, in order, so replaying it  *)
(* reproduces the delivered events (forward stamps before it tees).        *)
(***************************************************************************)
TapReplaysStream ==
    /\ \A i \in DOMAIN tap : tap[i].seq < Len(log) /\ tap[i] = log[tap[i].seq + 1]
    /\ \A i, j \in DOMAIN tap : i < j => tap[i].seq < tap[j].seq

(***************************************************************************)
(* A real event never carries the synthetic sentinel: the counter stops    *)
(* the session before it reaches the reservation.                          *)
(***************************************************************************)
NeverSynthetic == \A i \in DOMAIN log : log[i].seq # Synthetic

(* What makes it so: the counter itself stays below the reservation.       *)
CounterInv == next_seq < Synthetic

(***************************************************************************)
(* Refcounted teardown: once every referrer that joined is gone for good,  *)
(* the controller leaves run_live and releases the upstream, also when a   *)
(* cancelled opener left an id behind that nobody will remove.             *)
(***************************************************************************)
UpstreamReleased ==
    <>[](\A r \in Referrers : rx[r] # "open") => <>(phase = "stopped")

(***************************************************************************)
(* The FanOut comment's "surfaced to it once the channel drains ... never  *)
(* silently lost": while the session runs, a gap owed to an attached       *)
(* referrer is delivered.                                                  *)
(***************************************************************************)
OwedGapSurfaces ==
    \A r \in Referrers :
        (pending[r] # NoEvent /\ rx[r] = "open" /\ phase = "running")
            ~> (pending[r] = NoEvent \/ rx[r] # "open" \/ phase # "running")

=============================================================================

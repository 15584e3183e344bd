---------------------------- MODULE FanOutProofs ----------------------------
(***************************************************************************)
(* Machine-checked proofs about FanOut: type correctness and the delivery  *)
(* invariant, for every set of referrers, every channel capacity of at     *)
(* least two, every set of timestamps and every reservation of `seq`.      *)
(***************************************************************************)
EXTENDS FanOut, TLAPS

(* An event stamped by the counter is a market event numbered next_seq.    *)
LEMMA StampType ==
    ASSUME TypeOK, NEW k \in EventKinds, NEW f \in Int, NEW t \in Int
    PROVE  /\ stamp(k, f, t) \in MarketEvent
           /\ stamp(k, f, t).seq = next_seq
           /\ stamp(k, f, t).kind = k
  BY DEF TypeOK, stamp, MarketEvent

(* Folding a loss keeps the owed gap a market event or nothing.            *)
LEMMA AbsorbType ==
    ASSUME NEW p \in MarketEvent \cup {NoEvent}, NEW e \in MarketEvent
    PROVE  absorb_drop(p, e) \in MarketEvent \cup {NoEvent}
  <1>1. CASE ~gap_coords(e)
    BY <1>1 DEF absorb_drop
  <1>2. CASE gap_coords(e) /\ p = NoEvent
    BY <1>2 DEF absorb_drop, MarketEvent, EventKinds
  <1>3. CASE gap_coords(e) /\ p # NoEvent
    <2>1. p \in MarketEvent
      BY <1>3
    <2>2. Min2(p.from, e.from) \in Int /\ Max2(p.to, e.to) \in Int
      BY <2>1 DEF Min2, Max2, MarketEvent
    <2>3. absorb(p, e) \in MarketEvent
      BY <2>1, <2>2 DEF absorb, MarketEvent
    <2> QED
      BY <1>3, <2>3 DEF absorb_drop
  <1> QED
    BY <1>1, <1>2, <1>3

(* fanout keeps the fan-out state well typed.                              *)
LEMMA FanoutType ==
    ASSUME TypeOK, NEW e \in MarketEvent, fanout(e)
    PROVE  /\ subscribers' \subseteq Referrers
           /\ last_subscription_changed' \in MarketEvent \cup {NoEvent}
           /\ pending' \in [Referrers -> MarketEvent \cup {NoEvent}]
           /\ sent' \in [Referrers -> Seq(MarketEvent)]
  <1>1. ASSUME NEW r \in Referrers
        PROVE  /\ SentBy(r, e) \in Seq(MarketEvent)
               /\ PendingBy(r, e) \in MarketEvent \cup {NoEvent}
    <2>1. /\ sent[r] \in Seq(MarketEvent)
          /\ pending[r] \in MarketEvent \cup {NoEvent}
      BY DEF TypeOK
    <2>2. pending[r] # NoEvent => Append(sent[r], pending[r]) \in Seq(MarketEvent)
      BY <2>1
    <2>3. pending[r] # NoEvent =>
             Append(Append(sent[r], pending[r]), e) \in Seq(MarketEvent)
      BY <2>2
    <2>4. Append(sent[r], e) \in Seq(MarketEvent)
      BY <2>1
    <2>5. /\ absorb_drop(pending[r], e) \in MarketEvent \cup {NoEvent}
          /\ absorb_drop(NoEvent, e) \in MarketEvent \cup {NoEvent}
      BY <2>1, AbsorbType
    <2>6. Room(r) \in Int
      BY <2>1, CapAssumption DEF Room, TypeOK
    <2> QED
      BY <2>1, <2>2, <2>3, <2>4, <2>5, <2>6 DEF SentBy, PendingBy
  <1> QED
    BY <1>1 DEF fanout, TypeOK

(* The initial states are well typed.                                      *)
LEMMA InitTypeOK == Init => TypeOK
  <1> SUFFICES ASSUME Init PROVE TypeOK
    OBVIOUS
  <1>1. /\ write_tap_log \in BOOLEAN /\ data_forwarded \in BOOLEAN
        /\ had_subscriber \in BOOLEAN
    BY InputAssumption, Zenon DEF Init
  <1>2. /\ subscribers \subseteq Referrers
        /\ rx \in [Referrers -> {"new", "open", "closed"}]
    BY DEF Init
  <1>3. /\ pending \in [Referrers -> MarketEvent \cup {NoEvent}]
        /\ sent \in [Referrers -> Seq(MarketEvent)]
        /\ read \in [Referrers -> Nat]
        /\ joined \in [Referrers -> Nat]
    BY DEF Init
  <1> QED
    BY <1>1, <1>2, <1>3 DEF Init, TypeOK

(* Type correctness of the controller, the fan-out and the channels.       *)
THEOREM TypeCorrect == Spec => []TypeOK
  <1>1. Init => TypeOK
    BY InitTypeOK
  <1>2. TypeOK /\ [Next]_vars => TypeOK'
    <2> SUFFICES ASSUME TypeOK, [Next]_vars PROVE TypeOK'
      OBVIOUS
    <2>1. ASSUME NEW e \in MarketEvent, Stamped(e), tee(e) \/ UNCHANGED tap,
                 seed' \in {"pending", "done"}, data_forwarded' \in BOOLEAN
          PROVE  TypeOK'
      <3>1. /\ subscribers' \subseteq Referrers
            /\ last_subscription_changed' \in MarketEvent \cup {NoEvent}
            /\ pending' \in [Referrers -> MarketEvent \cup {NoEvent}]
            /\ sent' \in [Referrers -> Seq(MarketEvent)]
        BY <2>1, FanoutType DEF Stamped
      <3>2. log' \in Seq(MarketEvent) /\ next_seq' \in Nat
        BY <2>1 DEF Stamped, TypeOK
      <3>3. tap' \in Seq(MarketEvent)
        <4>1. tap' \in {tap, Append(tap, e)}
          BY <2>1, Zenon DEF tee
        <4>2. {tap, Append(tap, e)} \subseteq Seq(MarketEvent)
          BY DEF TypeOK
        <4> QED
          BY <4>1, <4>2
      <3> QED
        <4>1. /\ UNCHANGED <<phase, read, rx, removals, joined>>
              /\ write_tap_log' = write_tap_log /\ had_subscriber' = had_subscriber
          BY <2>1 DEF Stamped
        <4> QED
          BY <2>1, <3>1, <3>2, <3>3, <4>1 DEF TypeOK
    <2>2. ASSUME NEW t \in Times, ProviderData(t) PROVE TypeOK'
      <3>1. stamp("data", t, t + 1) \in MarketEvent
        BY InputAssumption, StampType DEF EventKinds
      <3> QED
        BY <2>1, <2>2, <3>1 DEF ProviderData, forward, TypeOK
    <2>3. ASSUME NEW k \in Controls, ProviderControl(k) PROVE TypeOK'
      <3>1. stamp(k, 0, 0) \in MarketEvent
        BY InputAssumption, StampType DEF EventKinds
      <3> QED
        BY <2>1, <2>3, <3>1 DEF ProviderControl, forward, TypeOK
    <2>4. ASSUME NEW f \in Times, NEW t \in Times, emit_gap(f, t + 1) PROVE TypeOK'
      <3>1. stamp("gap", f, t + 1) \in MarketEvent
        BY InputAssumption, StampType DEF EventKinds
      <3> QED
        BY <2>1, <2>4, <3>1 DEF emit_gap, forward, TypeOK
    <2>5. ASSUME NEW t \in Times, SeedArrives(t) PROVE TypeOK'
      <3>1. stamp("data", t, t + 1) \in MarketEvent
        BY InputAssumption, StampType DEF EventKinds
      <3>2. CASE forward(stamp("data", t, t + 1))
        <4>1. data_forwarded' \in BOOLEAN /\ Stamped(stamp("data", t, t + 1))
              /\ tee(stamp("data", t, t + 1))
          BY <3>2, Zenon DEF forward
        <4> QED
          BY <2>1, <2>5, <3>1, <4>1 DEF SeedArrives
      <3>3. CASE UNCHANGED <<phase, next_seq, log, write_tap_log, tap, data_forwarded,
                             fan, channels, removals, joined>>
        <4>1. seed' = "done"
          BY <2>5 DEF SeedArrives
        <4> QED
          BY <3>3, <4>1 DEF TypeOK, fan, channels
      <3> QED
        BY <2>5, <3>2, <3>3, Zenon DEF SeedArrives
    <2>6. CASE SeedEmpty
      <3>1. seed' = "done" /\ UNCHANGED <<phase, next_seq, log, tap, removals, joined,
                                          subscribers, last_subscription_changed,
                                          pending, sent, read, rx>>
        BY <2>6 DEF SeedEmpty, fan, channels
      <3>2. /\ write_tap_log' = write_tap_log /\ data_forwarded' = data_forwarded
            /\ had_subscriber' = had_subscriber
        BY <2>6 DEF SeedEmpty, fan
      <3> QED
        BY <3>1, <3>2 DEF TypeOK
    <2>7. ASSUME NEW on \in Toggles, SetPersistence(on) PROVE TypeOK'
      <3>1. write_tap_log' \in BOOLEAN
        BY <2>7, InputAssumption, Zenon DEF SetPersistence
      <3> QED
        BY <2>7, <3>1 DEF SetPersistence, TypeOK, fan, channels
    <2>8. ASSUME NEW r \in Referrers, AddSubscriber(r) \/ AddCancelled(r) PROVE TypeOK'
      <3> DEFINE first == IF last_subscription_changed = NoEvent
                          THEN <<>> ELSE <<last_subscription_changed>>
      <3>1. first \in Seq(MarketEvent)
        <4>1. CASE last_subscription_changed = NoEvent
          BY <4>1
        <4>2. CASE last_subscription_changed # NoEvent
          <5>1. last_subscription_changed \in MarketEvent
            BY <4>2 DEF TypeOK
          <5> QED
            BY <4>2, <5>1
        <4> QED
          BY <4>1, <4>2
      <3>2. /\ add(r)
            /\ \/ rx' = [rx EXCEPT ![r] = "open"]
               \/ rx' = [rx EXCEPT ![r] = "closed"]
            /\ UNCHANGED <<phase, controller, last_subscription_changed, pending,
                           read, removals>>
        BY <2>8, Zenon DEF AddSubscriber, AddCancelled
      <3>3. sent' = [sent EXCEPT ![r] = first]
        BY <3>2 DEF add
      <3> HIDE DEF first
      <3>4. sent' \in [Referrers -> Seq(MarketEvent)]
        BY <3>1, <3>3 DEF TypeOK
      <3>5. /\ subscribers' \subseteq Referrers /\ had_subscriber' = TRUE
            /\ joined' \in [Referrers -> Nat]
        BY <3>2 DEF add, TypeOK
      <3>6. rx' \in [Referrers -> {"new", "open", "closed"}]
        BY <3>2 DEF TypeOK
      <3>7. /\ UNCHANGED <<phase, next_seq, log, tap, seed, removals,
                           last_subscription_changed, pending, read>>
            /\ write_tap_log' = write_tap_log /\ data_forwarded' = data_forwarded
        BY <3>2 DEF controller
      <3> QED
        BY <3>4, <3>5, <3>6, <3>7 DEF TypeOK
    <2>9. ASSUME NEW r \in Referrers, Recv(r) PROVE TypeOK'
      BY <2>9 DEF Recv, TypeOK, controller, fan
    <2>10. ASSUME NEW r \in Referrers, DropReferrer(r) PROVE TypeOK'
      BY <2>10 DEF DropReferrer, TypeOK, controller, fan
    <2>11. ASSUME NEW r \in Referrers, RemoveSubscriber(r) PROVE TypeOK'
      BY <2>11 DEF RemoveSubscriber, TypeOK, controller, channels
    <2>12. CASE Exit
      BY <2>12 DEF Exit, TypeOK, controller, fan, channels
    <2>13. CASE UNCHANGED vars
      BY <2>13 DEF vars, TypeOK, controller, fan, channels
    <2>14. SeqExhausted => Exit
      BY DEF SeqExhausted, Exit
    <2> QED
      BY <2>2, <2>3, <2>4, <2>5, <2>6, <2>7, <2>8, <2>9, <2>10, <2>11, <2>12, <2>13, <2>14
         DEF Next, ControllerInput, ProviderExit, Teardown, RemovalChannelClosed
  <1> QED
    BY <1>1, <1>2, PTL DEF Spec

-----------------------------------------------------------------------------
(***************************************************************************)
(* The delivery invariant.  Good collects what it says of one referrer's   *)
(* channel q, owed gap p and join position j against the canonical stream  *)
(* lg; the four lemmas follow the four things fanout can do to a referrer. *)
(***************************************************************************)
Numbered(lg) == \A i \in 1..Len(lg) : lg[i].seq = i - 1

Good(q, p, lg, j) ==
    /\ Ordered(q, p)
    /\ \A i \in 1..Len(q) : Stands(q[i], lg)
    /\ Holeless(q, lg, j)
    /\ p # NoEvent => p.kind = "gap" /\ Stands(p, lg)
    /\ j <= Len(lg)

(* What a position of a channel accounts for, it keeps accounting for.     *)
LEMMA SeenMono ==
    ASSUME NEW q \in Seq(MarketEvent), NEW x \in MarketEvent, NEW e,
           NEW i \in 0..Len(q), NEW k \in i..(Len(q) + 1), SeenBy(q, i, e)
    PROVE  SeenBy(Append(q, x), k, e)
  <1>1. PICK m \in 1..i : q[m] = e \/ Covers(q[m], e)
    BY DEF SeenBy
  <1>2. Append(q, x)[m] = q[m] /\ m \in 1..k
    BY <1>1
  <1> QED
    BY <1>1, <1>2 DEF SeenBy

(* The event just appended accounts for itself and for what it covers.     *)
LEMMA SeenLast ==
    ASSUME NEW q \in Seq(MarketEvent), NEW x \in MarketEvent, NEW e,
           x = e \/ Covers(x, e)
    PROVE  SeenBy(Append(q, x), Len(q) + 1, e)
  <1>1. Append(q, x)[Len(q) + 1] = x /\ Len(q) + 1 \in 1..(Len(q) + 1)
    OBVIOUS
  <1> QED
    BY <1>1 DEF SeenBy

(* try_send of the owed gap succeeds: the gap is now in the channel.       *)
LEMMA SendOwed ==
    ASSUME NEW q \in Seq(MarketEvent), NEW p \in MarketEvent,
           NEW lg \in Seq(MarketEvent), NEW j \in Nat, Numbered(lg),
           p # NoEvent, Good(q, p, lg, j), Accounted(q, p, lg, j)
    PROVE  /\ Good(Append(q, p), NoEvent, lg, j)
           /\ Accounted(Append(q, p), NoEvent, lg, j)
  <1> DEFINE qq == Append(q, p)
  <1>1. /\ qq \in Seq(MarketEvent) /\ Len(qq) = Len(q) + 1
        /\ \A i \in 1..Len(q) : qq[i] = q[i]
        /\ qq[Len(q) + 1] = p
    OBVIOUS
  <1>2. /\ Len(q) \in Nat /\ Len(lg) \in Nat
        /\ \A i \in 1..Len(q) : q[i] \in MarketEvent
        /\ \A i \in 1..Len(lg) : lg[i] \in MarketEvent
    OBVIOUS
  <1>3. p.seq \in Nat /\ p.seq < Len(lg) /\ p.kind = "gap"
    BY DEF Good, Stands, MarketEvent
  <1> HIDE DEF qq
  <1>4. Ordered(qq, NoEvent)
    <2>1. \A i \in 1..Len(q) : q[i].seq < p.seq
      BY DEF Good, Ordered
    <2>2. \A i, k \in 1..Len(q) : i < k => q[i].seq < q[k].seq
      BY DEF Good, Ordered
    <2> SUFFICES ASSUME NEW i \in 1..Len(qq), NEW k \in 1..Len(qq), i < k
                 PROVE  qq[i].seq < qq[k].seq
      BY DEF Ordered
    <2>3. i \in 1..Len(q) /\ qq[i] = q[i]
      BY <1>1, <1>2
    <2>4. CASE k = Len(q) + 1
      BY <1>1, <2>1, <2>3, <2>4
    <2>5. CASE k \in 1..Len(q)
      BY <1>1, <2>2, <2>3, <2>5
    <2>6. k = Len(q) + 1 \/ k \in 1..Len(q)
      BY <1>1, <1>2
    <2> QED
      BY <2>4, <2>5, <2>6
  <1>5. \A i \in 1..Len(qq) : Stands(qq[i], lg)
    BY <1>1, <1>2 DEF Good
  <1>6. Holeless(qq, lg, j)
    <2> SUFFICES ASSUME NEW i \in 1..Len(qq), NEW s \in j .. (qq[i].seq - 1),
                        gap_coords(lg[s + 1])
                 PROVE  SeenBy(qq, i, lg[s + 1])
      BY DEF Holeless
    <2>1. CASE i \in 1..Len(q)
      <3>1. SeenBy(q, i, lg[s + 1])
        BY <1>1, <2>1 DEF Good, Holeless
      <3> QED
        BY <1>1, <1>2, <2>1, <3>1, SeenMono DEF qq
    <2>2. CASE i = Len(q) + 1
      <3>1. qq[i] = p /\ s \in j..(Len(lg) - 1) /\ s < p.seq /\ s + 1 \in 1..Len(lg)
        BY <1>1, <1>2, <1>3, <2>2
      <3>2. lg[s + 1].seq = s
        BY <3>1 DEF Numbered
      <3>3. ~Covers(p, lg[s + 1])
        BY <3>1, <3>2, <1>3 DEF Covers
      <3>4. SeenBy(q, Len(q), lg[s + 1])
        BY <3>1, <3>3 DEF Accounted
      <3> QED
        BY <1>2, <2>2, <3>4, SeenMono DEF qq
    <2> QED
      BY <1>1, <1>2, <2>1, <2>2
  <1>7. Accounted(qq, NoEvent, lg, j)
    <2> SUFFICES ASSUME NEW s \in j .. (Len(lg) - 1), gap_coords(lg[s + 1])
                 PROVE  SeenBy(qq, Len(qq), lg[s + 1])
      BY DEF Accounted
    <2>1. CASE SeenBy(q, Len(q), lg[s + 1])
      BY <1>1, <1>2, <2>1, SeenMono DEF qq
    <2>2. CASE Covers(p, lg[s + 1])
      BY <1>1, <2>2, SeenLast DEF qq
    <2> QED
      BY <2>1, <2>2 DEF Accounted
  <1> QED
    BY <1>4, <1>5, <1>6, <1>7 DEF Good, qq

(* A stamped event extends the canonical stream and disturbs nothing that  *)
(* was said of its prefix.                                                 *)
LEMMA GrowLog ==
    ASSUME NEW q \in Seq(MarketEvent), NEW p \in MarketEvent \cup {NoEvent},
           NEW lg \in Seq(MarketEvent), NEW j \in Nat, NEW e \in MarketEvent,
           Good(q, p, lg, j)
    PROVE  Good(q, p, Append(lg, e), j)
  <1> DEFINE ll == Append(lg, e)
  <1>1. /\ ll \in Seq(MarketEvent) /\ Len(ll) = Len(lg) + 1
        /\ \A i \in 1..Len(lg) : ll[i] = lg[i]
        /\ Len(lg) \in Nat
        /\ \A i \in 1..Len(q) : q[i] \in MarketEvent
    OBVIOUS
  <1> HIDE DEF ll
  <1>2. ASSUME NEW x \in MarketEvent, Stands(x, lg)
        PROVE  Stands(x, ll)
    <2>1. x.seq \in Nat /\ x.seq < Len(lg)
      BY <1>2 DEF Stands, MarketEvent
    <2>2. x.seq + 1 \in 1..Len(lg) /\ x.seq < Len(ll)
      BY <2>1, <1>1
    <2>3. ll[x.seq + 1] = lg[x.seq + 1]
      BY <2>2, <1>1
    <2> QED
      BY <1>2, <2>2, <2>3 DEF Stands
  <1>3. \A i \in 1..Len(q) : Stands(q[i], ll)
    BY <1>1, <1>2 DEF Good
  <1>4. Holeless(q, ll, j)
    <2> SUFFICES ASSUME NEW i \in 1..Len(q), NEW s \in j .. (q[i].seq - 1),
                        gap_coords(ll[s + 1])
                 PROVE  SeenBy(q, i, ll[s + 1])
      BY DEF Holeless
    <2>1. q[i].seq \in Nat /\ q[i].seq < Len(lg)
      BY <1>1 DEF Good, Stands, MarketEvent
    <2>2. s + 1 \in 1..Len(lg)
      BY <1>1, <2>1
    <2>3. ll[s + 1] = lg[s + 1]
      BY <1>1, <2>2
    <2> QED
      BY <2>3 DEF Good, Holeless
  <1>5. p # NoEvent => p.kind = "gap" /\ Stands(p, ll)
    BY <1>2 DEF Good
  <1> QED
    BY <1>1, <1>3, <1>4, <1>5 DEF Good, ll

(* try_send of the event succeeds with nothing owed.                       *)
LEMMA SendEvent ==
    ASSUME NEW q \in Seq(MarketEvent), NEW lg \in Seq(MarketEvent), NEW j \in Nat,
           NEW e \in MarketEvent, e.seq = Len(lg),
           Good(q, NoEvent, lg, j), Accounted(q, NoEvent, lg, j)
    PROVE  /\ Good(Append(q, e), NoEvent, Append(lg, e), j)
           /\ Accounted(Append(q, e), NoEvent, Append(lg, e), j)
  <1> DEFINE qq == Append(q, e)
             ll == Append(lg, e)
  <1>1. /\ qq \in Seq(MarketEvent) /\ Len(qq) = Len(q) + 1
        /\ \A i \in 1..Len(q) : qq[i] = q[i]
        /\ qq[Len(q) + 1] = e
        /\ Len(q) \in Nat
        /\ \A i \in 1..Len(q) : q[i] \in MarketEvent
    OBVIOUS
  <1>2. /\ ll \in Seq(MarketEvent) /\ Len(ll) = Len(lg) + 1
        /\ \A i \in 1..Len(lg) : ll[i] = lg[i]
        /\ ll[Len(lg) + 1] = e
        /\ Len(lg) \in Nat
    OBVIOUS
  <1>3. Good(q, NoEvent, ll, j)
    BY GrowLog
  <1> HIDE DEF qq, ll
  <1>4. \A i \in 1..Len(q) : q[i].seq \in Nat /\ q[i].seq < Len(lg)
    BY <1>1 DEF Good, Stands, MarketEvent
  <1>5. ASSUME NEW s \in j .. (Len(lg) - 1), gap_coords(ll[s + 1])
        PROVE  SeenBy(q, Len(q), ll[s + 1])
    <2>1. ll[s + 1] = lg[s + 1]
      BY <1>2
    <2>2. ~Covers(NoEvent, lg[s + 1])
      BY DEF Covers, NoEvent
    <2> QED
      BY <1>5, <2>1, <2>2 DEF Accounted
  <1>6. Ordered(qq, NoEvent)
    <2> SUFFICES ASSUME NEW i \in 1..Len(qq), NEW k \in 1..Len(qq), i < k
                 PROVE  qq[i].seq < qq[k].seq
      BY DEF Ordered
    <2>1. i \in 1..Len(q) /\ qq[i] = q[i]
      BY <1>1
    <2>2. CASE k \in 1..Len(q)
      BY <1>1, <2>1, <2>2 DEF Good, Ordered
    <2>3. CASE k = Len(q) + 1
      BY <1>1, <1>4, <2>1, <2>3
    <2> QED
      BY <1>1, <2>2, <2>3
  <1>7. \A i \in 1..Len(qq) : Stands(qq[i], ll)
    <2>1. Stands(e, ll)
      BY <1>2 DEF Stands
    <2> QED
      BY <1>1, <1>3, <2>1 DEF Good
  <1>8. Holeless(qq, ll, j)
    <2> SUFFICES ASSUME NEW i \in 1..Len(qq), NEW s \in j .. (qq[i].seq - 1),
                        gap_coords(ll[s + 1])
                 PROVE  SeenBy(qq, i, ll[s + 1])
      BY DEF Holeless
    <2>1. CASE i \in 1..Len(q)
      <3>1. SeenBy(q, i, ll[s + 1])
        BY <1>1, <1>3, <2>1 DEF Good, Holeless
      <3> QED
        BY <1>1, <2>1, <3>1, SeenMono DEF qq
    <2>2. CASE i = Len(q) + 1
      <3>1. SeenBy(q, Len(q), ll[s + 1])
        BY <1>1, <1>2, <1>5, <2>2
      <3> QED
        BY <1>1, <2>2, <3>1, SeenMono DEF qq
    <2> QED
      BY <1>1, <2>1, <2>2
  <1>9. Accounted(qq, NoEvent, ll, j)
    <2> SUFFICES ASSUME NEW s \in j .. (Len(ll) - 1), gap_coords(ll[s + 1])
                 PROVE  SeenBy(qq, Len(qq), ll[s + 1])
      BY DEF Accounted
    <2>1. CASE s = Len(lg)
      BY <1>1, <1>2, <2>1, SeenLast DEF qq
    <2>2. CASE s \in j .. (Len(lg) - 1)
      <3>1. SeenBy(q, Len(q), ll[s + 1])
        BY <1>5, <2>2
      <3> QED
        BY <1>1, <3>1, SeenMono DEF qq
    <2> QED
      BY <1>2, <2>1, <2>2
  <1> QED
    BY <1>2, <1>3, <1>6, <1>7, <1>8, <1>9 DEF Good, qq, ll

(* Folding an event into the owed gap keeps what the gap covered, and      *)
(* covers the event, if it is one that can be lost.                        *)
LEMMA AbsorbCovers ==
    ASSUME NEW p \in MarketEvent \cup {NoEvent}, NEW e \in MarketEvent,
           p # NoEvent => p.kind = "gap" /\ p.seq <= e.seq
    PROVE  /\ gap_coords(e) => Covers(absorb_drop(p, e), e)
           /\ \A x \in MarketEvent : Covers(p, x) => Covers(absorb_drop(p, e), x)
           /\ absorb_drop(p, e) # NoEvent =>
                 /\ absorb_drop(p, e) \in MarketEvent
                 /\ absorb_drop(p, e).kind = "gap"
                 /\ absorb_drop(p, e).seq = IF p # NoEvent THEN p.seq ELSE e.seq
                 /\ p = NoEvent => gap_coords(e)
  <1>1. CASE ~gap_coords(e)
    BY <1>1 DEF absorb_drop
  <1>2. CASE gap_coords(e) /\ p = NoEvent
    <2> DEFINE g == [kind |-> "gap", seq |-> e.seq, from |-> e.from, to |-> e.to]
    <2>1. absorb_drop(p, e) = g
      BY <1>2 DEF absorb_drop
    <2>2. g \in MarketEvent /\ g.kind = "gap" /\ g.seq = e.seq /\ Covers(g, e)
      BY DEF MarketEvent, EventKinds, Covers
    <2>3. \A x \in MarketEvent : ~Covers(p, x)
      BY <1>2 DEF Covers, NoEvent
    <2> QED
      BY <1>2, <2>1, <2>2, <2>3
  <1>3. CASE gap_coords(e) /\ p # NoEvent
    <2> DEFINE g == absorb(p, e)
    <2>1. absorb_drop(p, e) = g
      BY <1>3 DEF absorb_drop
    <2>2. p \in MarketEvent /\ p.from \in Int /\ p.to \in Int /\ p.seq \in Nat
          /\ e.from \in Int /\ e.to \in Int /\ e.seq \in Nat
      BY <1>3 DEF MarketEvent
    <2>3. /\ Min2(p.from, e.from) \in Int /\ Max2(p.to, e.to) \in Int
          /\ Min2(p.from, e.from) <= p.from /\ Min2(p.from, e.from) <= e.from
          /\ p.to <= Max2(p.to, e.to) /\ e.to <= Max2(p.to, e.to)
      BY <2>2 DEF Min2, Max2
    <2>4. /\ g \in MarketEvent /\ g.kind = "gap" /\ g.seq = p.seq
          /\ g.from = Min2(p.from, e.from) /\ g.to = Max2(p.to, e.to)
      BY <1>3, <2>2, <2>3 DEF absorb, MarketEvent
    <2> HIDE DEF g
    <2>5. Covers(g, e)
      BY <1>3, <2>3, <2>4 DEF Covers
    <2>6. ASSUME NEW x \in MarketEvent, Covers(p, x) PROVE Covers(g, x)
      <3>1. x.from \in Int /\ x.to \in Int /\ x.seq \in Nat
        BY DEF MarketEvent
      <3> QED
        BY <2>2, <2>3, <2>4, <2>6, <3>1 DEF Covers
    <2> QED
      BY <1>3, <2>1, <2>4, <2>5, <2>6
  <1> QED
    BY <1>1, <1>2, <1>3

(* A full channel: the event is folded into the gap owed.                  *)
LEMMA FoldEvent ==
    ASSUME NEW q \in Seq(MarketEvent), NEW p \in MarketEvent \cup {NoEvent},
           NEW lg \in Seq(MarketEvent), NEW j \in Nat,
           NEW e \in MarketEvent, e.seq = Len(lg), Numbered(lg),
           Good(q, p, lg, j), Accounted(q, p, lg, j)
    PROVE  /\ Good(q, absorb_drop(p, e), Append(lg, e), j)
           /\ Accounted(q, absorb_drop(p, e), Append(lg, e), j)
  <1> DEFINE g == absorb_drop(p, e)
             ll == Append(lg, e)
  <1>1. /\ ll \in Seq(MarketEvent) /\ Len(ll) = Len(lg) + 1
        /\ \A i \in 1..Len(lg) : ll[i] = lg[i] /\ lg[i] \in MarketEvent
        /\ ll[Len(lg) + 1] = e
        /\ Len(lg) \in Nat
        /\ \A i \in 1..Len(q) : q[i] \in MarketEvent
    OBVIOUS
  <1>2. Good(q, p, ll, j)
    BY GrowLog
  <1>3. p # NoEvent => p.kind = "gap" /\ p.seq <= e.seq /\ p.seq \in Nat /\ p.seq < Len(lg)
    BY <1>1 DEF Good, Stands, MarketEvent
  <1>4. /\ gap_coords(e) => Covers(g, e)
        /\ \A x \in MarketEvent : Covers(p, x) => Covers(g, x)
        /\ g # NoEvent =>
              /\ g \in MarketEvent
              /\ g.kind = "gap"
              /\ g.seq = IF p # NoEvent THEN p.seq ELSE e.seq
              /\ p = NoEvent => gap_coords(e)
    BY <1>3, AbsorbCovers
  <1> HIDE DEF g, ll
  <1>5. \A i \in 1..Len(q) : q[i].seq \in Nat /\ q[i].seq < Len(lg)
    BY <1>1 DEF Good, Stands, MarketEvent
  <1>6. Ordered(q, g)
    <2>1. ASSUME g # NoEvent, NEW i \in 1..Len(q) PROVE q[i].seq < g.seq
      <3>1. CASE p # NoEvent
        BY <1>4, <2>1, <3>1 DEF Good, Ordered
      <3>2. CASE p = NoEvent
        BY <1>4, <1>5, <2>1, <3>2
      <3> QED
        BY <3>1, <3>2
    <2> QED
      BY <2>1 DEF Good, Ordered
  <1>7. g # NoEvent => g.kind = "gap" /\ Stands(g, ll)
    <2> SUFFICES ASSUME g # NoEvent PROVE g.kind = "gap" /\ Stands(g, ll)
      OBVIOUS
    <2>1. CASE p = NoEvent
      BY <1>1, <1>4, <2>1 DEF Stands
    <2>2. CASE p # NoEvent
      <3>1. p.seq + 1 \in 1..Len(lg) /\ g.seq = p.seq
        BY <1>1, <1>3, <1>4, <2>2
      <3>2. ll[p.seq + 1] = lg[p.seq + 1] /\ lg[p.seq + 1] \in MarketEvent
        BY <1>1, <3>1
      <3>3. Covers(p, p) /\ p \in MarketEvent
        <4>1. p \in MarketEvent
          BY <2>2
        <4>2. p.seq \in Nat /\ p.from \in Int /\ p.to \in Int /\ p.kind = "gap"
          BY <1>3, <2>2, <4>1 DEF MarketEvent
        <4> QED
          BY <4>1, <4>2 DEF Covers
      <3>4. Covers(p, lg[p.seq + 1])
        BY <2>2, <3>3 DEF Good, Stands
      <3>5. Covers(g, ll[g.seq + 1])
        BY <1>4, <3>1, <3>2, <3>4
      <3> QED
        BY <1>1, <1>3, <1>4, <2>2, <3>1, <3>5 DEF Stands
    <2> QED
      BY <2>1, <2>2
  <1>8. Accounted(q, g, ll, j)
    <2> SUFFICES ASSUME NEW s \in j .. (Len(ll) - 1), gap_coords(ll[s + 1])
                 PROVE  SeenBy(q, Len(q), ll[s + 1]) \/ Covers(g, ll[s + 1])
      BY DEF Accounted
    <2>1. CASE s = Len(lg)
      BY <1>1, <1>4, <2>1
    <2>2. CASE s \in j .. (Len(lg) - 1)
      <3>1. s + 1 \in 1..Len(lg)
        BY <1>1, <2>2
      <3>2. ll[s + 1] = lg[s + 1] /\ lg[s + 1] \in MarketEvent
        BY <1>1, <3>1
      <3>3. SeenBy(q, Len(q), lg[s + 1]) \/ Covers(p, lg[s + 1])
        BY <2>2, <3>2 DEF Accounted
      <3> QED
        BY <1>4, <3>2, <3>3
    <2> QED
      BY <1>1, <2>1, <2>2
  <1> QED
    BY <1>2, <1>6, <1>7, <1>8 DEF Good, g, ll

(* The state form of Good, and back.                                       *)
LEMMA DeliveryInvGood ==
    DeliveryInv <=>
        /\ TypeOK /\ CachedReal /\ NotJoined
        /\ next_seq = Len(log) /\ Numbered(log)
        /\ \A r \in Referrers : Good(sent[r], pending[r], log, joined[r])
        /\ \A r \in subscribers :
              rx[r] = "open" => Accounted(sent[r], pending[r], log, joined[r])
  BY DEF DeliveryInv, LogNumbered, Numbered, OwedReal, JoinedInLog, OrderedDelivery,
         SameAcrossReferrers, NoSilentHole, LossAccounted, Good

(* A stamped event keeps the delivery invariant.                           *)
LEMMA StampedKeeps ==
    ASSUME DeliveryInv, TypeOK', NEW e \in MarketEvent, e.seq = next_seq, Stamped(e)
    PROVE  DeliveryInv'
  <1>1. /\ TypeOK /\ CachedReal /\ NotJoined
        /\ next_seq = Len(log) /\ Numbered(log)
        /\ \A r \in Referrers : Good(sent[r], pending[r], log, joined[r])
        /\ \A r \in subscribers :
              rx[r] = "open" => Accounted(sent[r], pending[r], log, joined[r])
    BY DeliveryInvGood
  <1>2. /\ log' = Append(log, e) /\ log \in Seq(MarketEvent) /\ e.seq = Len(log)
        /\ next_seq' = next_seq + 1 /\ joined' = joined /\ rx' = rx
        /\ fanout(e)
    BY <1>1 DEF Stamped, TypeOK
  <1>3. /\ Len(log') = Len(log) + 1 /\ Len(log) \in Nat
        /\ \A i \in 1..Len(log) : log'[i] = log[i]
        /\ log'[Len(log) + 1] = e
    BY <1>2
  <1>4. next_seq' = Len(log') /\ Numbered(log')
    BY <1>1, <1>2, <1>3 DEF Numbered
  <1>5. CachedReal'
    <2>1. CASE last_subscription_changed' = e
      BY <1>2, <1>3, <2>1 DEF CachedReal
    <2>2. CASE last_subscription_changed' = last_subscription_changed
      <3> SUFFICES ASSUME last_subscription_changed # NoEvent PROVE CachedReal'
        BY <2>2 DEF CachedReal
      <3>1. last_subscription_changed \in MarketEvent
        BY <1>1 DEF TypeOK
      <3>2. last_subscription_changed.seq \in Nat
        BY <3>1 DEF MarketEvent
      <3> QED
        BY <1>1, <1>3, <2>2, <3>2 DEF CachedReal
    <2> QED
      BY <1>2, <2>1, <2>2 DEF fanout
  <1>6. NotJoined'
    <2> SUFFICES ASSUME NEW r \in Referrers, rx[r] = "new"
                 PROVE  sent'[r] = <<>> /\ pending'[r] = NoEvent /\ r \notin subscribers'
      BY <1>2 DEF NotJoined
    <2> QED
      BY <1>1, <1>2 DEF fanout, NotJoined
  <1>7. ASSUME NEW r \in Referrers
        PROVE  /\ Good(sent'[r], pending'[r], log', joined'[r])
               /\ r \in subscribers' => Accounted(sent'[r], pending'[r], log', joined'[r])
    <2>1. /\ sent[r] \in Seq(MarketEvent) /\ joined[r] \in Nat
          /\ pending[r] \in MarketEvent \cup {NoEvent}
          /\ Good(sent[r], pending[r], log, joined[r])
      BY <1>1 DEF TypeOK
    <2>2. CASE ~(r \in subscribers /\ rx[r] = "open")
      <3>1. sent'[r] = sent[r] /\ pending'[r] = pending[r] /\ r \notin subscribers'
        BY <1>2, <2>2 DEF fanout
      <3> QED
        BY <1>2, <2>1, <3>1, GrowLog
    <2>3. CASE r \in subscribers /\ rx[r] = "open"
      <3>1. sent'[r] = SentBy(r, e) /\ pending'[r] = PendingBy(r, e)
        BY <1>2, <2>3 DEF fanout
      <3>2. Accounted(sent[r], pending[r], log, joined[r])
        BY <1>1, <2>3
      <3>3. Room(r) \in Int
        BY <1>1, <2>1, CapAssumption DEF Room, TypeOK
      <3>4. CASE pending[r] # NoEvent /\ Room(r) <= 0
        <4>1. sent'[r] = sent[r] /\ pending'[r] = absorb_drop(pending[r], e)
          BY <3>1, <3>3, <3>4 DEF SentBy, PendingBy
        <4> QED
          BY <1>1, <1>2, <2>1, <3>2, <4>1, FoldEvent
      <3>5. CASE pending[r] # NoEvent /\ ~(Room(r) <= 0)
        <4> DEFINE q == Append(sent[r], pending[r])
        <4>1. pending[r] \in MarketEvent /\ q \in Seq(MarketEvent)
          BY <2>1, <3>5
        <4>2. Good(q, NoEvent, log, joined[r]) /\ Accounted(q, NoEvent, log, joined[r])
          BY <1>1, <1>2, <2>1, <3>2, <3>5, <4>1, SendOwed
        <4>3. CASE Room(r) = 1
          <5>1. sent'[r] = q /\ pending'[r] = absorb_drop(NoEvent, e)
            BY <3>1, <3>3, <3>5, <4>3 DEF SentBy, PendingBy
          <5> QED
            BY <1>1, <1>2, <2>1, <4>1, <4>2, <5>1, FoldEvent
        <4>4. CASE Room(r) # 1
          <5>1. sent'[r] = Append(q, e) /\ pending'[r] = NoEvent
            BY <3>1, <3>3, <3>5, <4>4 DEF SentBy, PendingBy
          <5> QED
            BY <1>2, <2>1, <4>1, <4>2, <5>1, SendEvent
        <4> QED
          BY <4>3, <4>4
      <3>6. CASE pending[r] = NoEvent /\ Room(r) >= 1
        <4>1. sent'[r] = Append(sent[r], e) /\ pending'[r] = NoEvent
          BY <3>1, <3>6 DEF SentBy, PendingBy
        <4> QED
          BY <1>2, <2>1, <3>2, <3>6, <4>1, SendEvent
      <3>7. CASE pending[r] = NoEvent /\ ~(Room(r) >= 1)
        <4>1. sent'[r] = sent[r] /\ pending'[r] = absorb_drop(NoEvent, e)
          BY <3>1, <3>7 DEF SentBy, PendingBy
        <4> QED
          BY <1>1, <1>2, <2>1, <3>2, <3>7, <4>1, FoldEvent
      <3> QED
        BY <3>4, <3>5, <3>6, <3>7
    <2> QED
      BY <2>2, <2>3
  <1>8. subscribers' \subseteq Referrers
    BY DEF TypeOK
  <1> QED
    BY <1>4, <1>5, <1>6, <1>7, <1>8
       DEF DeliveryInv, LogNumbered, Numbered, OwedReal, JoinedInLog, OrderedDelivery,
           SameAcrossReferrers, NoSilentHole, LossAccounted, Good

(* Steps that leave the log, the fan-out map and every channel alone.      *)
LEMMA QuietKeeps ==
    ASSUME DeliveryInv, TypeOK', UNCHANGED <<next_seq, log, sent, joined, pending,
                                             last_subscription_changed>>,
           subscribers' \subseteq subscribers,
           \A r \in Referrers : rx'[r] \in {rx[r], "closed"}
    PROVE  DeliveryInv'
  <1>1. NotJoined'
    BY DEF DeliveryInv, NotJoined
  <1>2. LossAccounted'
    BY DEF DeliveryInv, LossAccounted, TypeOK
  <1>3. (LogNumbered /\ OwedReal /\ CachedReal /\ JoinedInLog)'
    BY DEF DeliveryInv, LogNumbered, OwedReal, CachedReal, JoinedInLog
  <1>4. (OrderedDelivery /\ SameAcrossReferrers /\ NoSilentHole)'
    BY DEF DeliveryInv, OrderedDelivery, SameAcrossReferrers, NoSilentHole
  <1> QED
    BY <1>1, <1>2, <1>3, <1>4 DEF DeliveryInv

(* A joiner starts with the cached control, or with nothing, and is owed   *)
(* nothing that was stamped before it joined.                              *)
LEMMA AddKeeps ==
    ASSUME DeliveryInv, TypeOK', NEW r \in Referrers, add(r),
           UNCHANGED <<next_seq, log, pending, last_subscription_changed>>,
           rx' \in {[rx EXCEPT ![r] = "open"], [rx EXCEPT ![r] = "closed"]}
    PROVE  DeliveryInv'
  <1>1. /\ TypeOK /\ CachedReal /\ NotJoined
        /\ next_seq = Len(log) /\ Numbered(log)
        /\ \A x \in Referrers : Good(sent[x], pending[x], log, joined[x])
        /\ \A x \in subscribers :
              rx[x] = "open" => Accounted(sent[x], pending[x], log, joined[x])
    BY DeliveryInvGood
  <1>2. /\ pending[r] = NoEvent /\ rx[r] = "new" /\ rx'[r] # "new"
        /\ \A x \in Referrers \ {r} : rx'[x] = rx[x]
    BY <1>1 DEF add, NotJoined, TypeOK
  <1>3. /\ \A x \in Referrers \ {r} : sent'[x] = sent[x] /\ joined'[x] = joined[x]
        /\ joined'[r] = next_seq /\ next_seq \in Nat
        /\ subscribers' = subscribers \cup {r}
    BY <1>1 DEF add, TypeOK
  <1>4. \/ sent'[r] = <<>>
        \/ /\ sent'[r] = <<last_subscription_changed>>
           /\ last_subscription_changed # NoEvent
    <2>1. CASE last_subscription_changed = NoEvent
      BY <1>1, <2>1 DEF add, TypeOK
    <2>2. CASE last_subscription_changed # NoEvent
      BY <1>1, <2>2 DEF add, TypeOK
    <2> QED
      BY <2>1, <2>2
  <1>5. Good(sent'[r], pending'[r], log', joined'[r])
    <2>1. CASE sent'[r] = <<>>
      BY <1>1, <1>2, <1>3, <2>1 DEF Good, Ordered, Holeless
    <2>2. CASE /\ sent'[r] = <<last_subscription_changed>>
               /\ last_subscription_changed # NoEvent
      <3> DEFINE c == last_subscription_changed
      <3>1. c \in MarketEvent /\ c.seq \in Nat /\ c.seq < Len(log) /\ c = log[c.seq + 1]
        BY <1>1, <2>2 DEF CachedReal, TypeOK, MarketEvent
      <3>2. Len(sent'[r]) = 1 /\ sent'[r][1] = c
        BY <2>2
      <3> HIDE DEF c
      <3>3. Ordered(sent'[r], NoEvent)
        BY <3>2 DEF Ordered
      <3>4. \A i \in 1..Len(sent'[r]) : Stands(sent'[r][i], log)
        BY <3>1, <3>2 DEF Stands
      <3>5. Holeless(sent'[r], log, joined'[r])
        BY <1>1, <1>3, <3>1, <3>2 DEF Holeless
      <3> QED
        BY <1>1, <1>2, <1>3, <3>3, <3>4, <3>5 DEF Good
    <2> QED
      BY <1>4, <2>1, <2>2
  <1>6. Accounted(sent'[r], pending'[r], log', joined'[r])
    BY <1>1, <1>3 DEF Accounted
  <1>7. NotJoined'
    BY <1>1, <1>2, <1>3 DEF NotJoined
  <1>8. CachedReal'
    BY <1>1 DEF CachedReal
  <1>9. ASSUME NEW x \in Referrers \ {r}
        PROVE  /\ Good(sent'[x], pending'[x], log', joined'[x])
               /\ x \in subscribers' /\ rx'[x] = "open" =>
                     Accounted(sent'[x], pending'[x], log', joined'[x])
    BY <1>1, <1>2, <1>3
  <1>10. /\ \A x \in Referrers : Good(sent'[x], pending'[x], log', joined'[x])
         /\ \A x \in subscribers' : rx'[x] = "open" =>
               Accounted(sent'[x], pending'[x], log', joined'[x])
    BY <1>5, <1>6, <1>9 DEF TypeOK
  <1> QED
    BY <1>1, <1>7, <1>8, <1>10
       DEF DeliveryInv, LogNumbered, Numbered, OwedReal, JoinedInLog, OrderedDelivery,
           SameAcrossReferrers, NoSilentHole, LossAccounted, Good

(***************************************************************************)
(* The delivery invariant holds throughout: in particular every referrer   *)
(* sees the stream in seq order, identically stamped, with every loss      *)
(* reported before the stream resumes.                                     *)
(***************************************************************************)
THEOREM DeliveryCorrect == Spec => []DeliveryInv
  <1>1. Init => DeliveryInv
    <2> SUFFICES ASSUME Init PROVE DeliveryInv
      OBVIOUS
    <2>1. TypeOK
      BY InitTypeOK
    <2>2. /\ log = <<>> /\ next_seq = 0 /\ last_subscription_changed = NoEvent
          /\ \A r \in Referrers : sent[r] = <<>> /\ pending[r] = NoEvent /\ joined[r] = 0
      BY DEF Init
    <2>3. NotJoined
      BY <2>2 DEF Init, NotJoined
    <2>4. LogNumbered /\ OwedReal /\ CachedReal /\ JoinedInLog
      BY <2>2 DEF LogNumbered, OwedReal, CachedReal, JoinedInLog
    <2>5. OrderedDelivery /\ SameAcrossReferrers /\ NoSilentHole
      BY <2>2 DEF OrderedDelivery, SameAcrossReferrers, NoSilentHole, Ordered, Holeless
    <2>6. LossAccounted
      BY <2>1, <2>2 DEF LossAccounted, Accounted, TypeOK
    <2> QED
      BY <2>1, <2>3, <2>4, <2>5, <2>6 DEF DeliveryInv
  <1>2. DeliveryInv /\ TypeOK' /\ [Next]_vars => DeliveryInv'
    <2> SUFFICES ASSUME DeliveryInv, TypeOK', [Next]_vars PROVE DeliveryInv'
      OBVIOUS
    <2>0. TypeOK
      BY DEF DeliveryInv
    <2>1. ASSUME NEW t \in Times, forward(stamp("data", t, t + 1)) PROVE DeliveryInv'
      <3>1. /\ stamp("data", t, t + 1) \in MarketEvent
            /\ stamp("data", t, t + 1).seq = next_seq
        BY <2>0, InputAssumption, StampType DEF EventKinds
      <3>2. Stamped(stamp("data", t, t + 1))
        BY <2>1 DEF forward
      <3> QED
        BY <3>1, <3>2, StampedKeeps
    <2>2. ASSUME NEW k \in Controls, ProviderControl(k) PROVE DeliveryInv'
      <3>1. stamp(k, 0, 0) \in MarketEvent /\ stamp(k, 0, 0).seq = next_seq
        BY <2>0, InputAssumption, StampType DEF EventKinds
      <3>2. Stamped(stamp(k, 0, 0))
        BY <2>2 DEF ProviderControl, forward
      <3> QED
        BY <3>1, <3>2, StampedKeeps
    <2>3. ASSUME NEW f \in Times, NEW t \in Times, emit_gap(f, t + 1) PROVE DeliveryInv'
      <3>1. stamp("gap", f, t + 1) \in MarketEvent /\ stamp("gap", f, t + 1).seq = next_seq
        BY <2>0, InputAssumption, StampType DEF EventKinds
      <3>2. Stamped(stamp("gap", f, t + 1))
        BY <2>3 DEF emit_gap, forward
      <3> QED
        BY <3>1, <3>2, StampedKeeps
    <2>4. ASSUME NEW t \in Times, ProviderData(t) PROVE DeliveryInv'
      BY <2>1, <2>4 DEF ProviderData
    <2>5. CASE UNCHANGED <<next_seq, log, fan, channels, joined>>
      <3>1. /\ UNCHANGED <<next_seq, log, sent, joined, pending,
                           last_subscription_changed>>
            /\ subscribers' \subseteq subscribers
            /\ \A r \in Referrers : rx'[r] \in {rx[r], "closed"}
        BY <2>5 DEF fan, channels
      <3> QED
        BY <3>1, QuietKeeps
    <2>6. ASSUME NEW t \in Times, SeedArrives(t) PROVE DeliveryInv'
      <3>1. \/ forward(stamp("data", t, t + 1))
            \/ UNCHANGED <<next_seq, log, fan, channels, joined>>
        BY <2>6, Zenon DEF SeedArrives
      <3> QED
        BY <2>1, <2>5, <3>1
    <2>7. ASSUME NEW r \in Referrers, AddSubscriber(r) \/ AddCancelled(r)
          PROVE  DeliveryInv'
      <3>1. /\ add(r) /\ UNCHANGED <<next_seq, log, pending, last_subscription_changed>>
            /\ rx' \in {[rx EXCEPT ![r] = "open"], [rx EXCEPT ![r] = "closed"]}
        BY <2>7, Zenon DEF AddSubscriber, AddCancelled, controller
      <3> QED
        BY <3>1, AddKeeps
    <2>8. ASSUME NEW r \in Referrers, Recv(r) \/ DropReferrer(r) \/ RemoveSubscriber(r)
          PROVE  DeliveryInv'
      <3>1. /\ UNCHANGED <<next_seq, log, sent, joined, pending,
                           last_subscription_changed>>
            /\ subscribers' \subseteq subscribers
        BY <2>8 DEF Recv, DropReferrer, RemoveSubscriber, controller, fan, channels
      <3>2. \A x \in Referrers : rx'[x] \in {rx[x], "closed"}
        BY <2>0, <2>8 DEF Recv, DropReferrer, RemoveSubscriber, channels, TypeOK
      <3> QED
        BY <3>1, <3>2, QuietKeeps
    <2>9. SeedEmpty \/ Exit \/ SeqExhausted \/ UNCHANGED vars
             => UNCHANGED <<next_seq, log, fan, channels, joined>>
      BY Zenon DEF SeedEmpty, Exit, SeqExhausted, vars, controller
    <2>10. ASSUME NEW on \in Toggles, SetPersistence(on) PROVE DeliveryInv'
      BY <2>5, <2>10 DEF SetPersistence
    <2> QED
      BY <2>2, <2>3, <2>4, <2>5, <2>6, <2>7, <2>8, <2>9, <2>10
         DEF Next, ControllerInput, ProviderExit, Teardown, RemovalChannelClosed
  <1> QED
    BY <1>1, <1>2, TypeCorrect, PTL DEF Spec

(* What a consumer relies on, read off the delivery invariant.             *)
THEOREM NoSilentHoleCorrect == Spec => []NoSilentHole
  <1>1. DeliveryInv => NoSilentHole
    BY DEF DeliveryInv
  <1> QED
    BY <1>1, DeliveryCorrect, PTL

(* Identical stamping across referrers, read off the delivery invariant.   *)
THEOREM SameAcrossReferrersCorrect == Spec => []SameAcrossReferrers
  <1>1. DeliveryInv => SameAcrossReferrers
    BY DEF DeliveryInv
  <1> QED
    BY <1>1, DeliveryCorrect, PTL

-----------------------------------------------------------------------------
(***************************************************************************)
(* The ways a step can touch the canonical stream: it stamps one event and *)
(* tees it or not, or leaves stream, tap, counter and fan-out as they are. *)
(***************************************************************************)
Stamping(e) ==
    /\ e \in MarketEvent /\ e.seq = next_seq
    /\ forward(e)

Quiet == UNCHANGED <<next_seq, log, tap, data_forwarded>>

Joining(r) == AddSubscriber(r) \/ AddCancelled(r)
Leaving(r) == DropReferrer(r) \/ RemoveSubscriber(r)
Still == UNCHANGED <<log, fan, sent, rx, removals>>

(* Every step of a session has one of these forms.                         *)
LEMMA StepForms ==
    ASSUME TypeOK, [Next]_vars
    PROVE  \/ \E e \in MarketEvent : Stamping(e)
           \/ Quiet /\ (Still \/ \E r \in Referrers : Joining(r) \/ Leaving(r))
  <1>1. ASSUME NEW k \in EventKinds, NEW f \in Int, NEW t \in Int,
               forward(stamp(k, f, t))
        PROVE  \E e \in MarketEvent : Stamping(e)
    <2>1. stamp(k, f, t) \in MarketEvent /\ stamp(k, f, t).seq = next_seq
      BY StampType
    <2> QED
      BY <1>1, <2>1 DEF Stamping
  <1>2. ASSUME NEW t \in Times, ProviderData(t) \/ forward(stamp("data", t, t + 1))
        PROVE  \E e \in MarketEvent : Stamping(e)
    BY <1>1, <1>2, InputAssumption DEF ProviderData, EventKinds
  <1>3. ASSUME NEW k \in Controls, ProviderControl(k)
        PROVE  \E e \in MarketEvent : Stamping(e)
    BY <1>1, <1>3, InputAssumption DEF ProviderControl, EventKinds
  <1>4. ASSUME NEW f \in Times, NEW t \in Times, emit_gap(f, t + 1)
        PROVE  \E e \in MarketEvent : Stamping(e)
    BY <1>1, <1>4, InputAssumption DEF emit_gap, EventKinds
  <1>5. ASSUME NEW t \in Times, SeedArrives(t)
        PROVE  (\E e \in MarketEvent : Stamping(e)) \/ (Quiet /\ Still)
    <2>1. \/ forward(stamp("data", t, t + 1))
          \/ Quiet /\ Still
      BY <1>5, Zenon DEF SeedArrives, Quiet, Still, channels
    <2> QED
      BY <1>2, <2>1
  <1>6. SeedEmpty \/ Exit \/ UNCHANGED vars => Quiet /\ Still
    BY Zenon DEF SeedEmpty, Exit, vars, controller, channels, Quiet, Still
  <1>7. ASSUME NEW r \in Referrers, Joining(r) \/ Leaving(r)
        PROVE  Quiet
    BY <1>7, Zenon DEF Joining, Leaving, AddSubscriber, AddCancelled, DropReferrer,
                       RemoveSubscriber, controller, Quiet
  <1>8. ASSUME NEW on \in Toggles, SetPersistence(on) PROVE Quiet /\ Still
    BY <1>8, Zenon DEF SetPersistence, channels, Quiet, Still
  <1>9. SeqExhausted => Exit
    BY DEF SeqExhausted, Exit
  <1>10. ASSUME NEW r \in Referrers, Recv(r) PROVE Quiet /\ Still
    BY <1>10, Zenon DEF Recv, controller, Quiet, Still
  <1> QED
    BY <1>2, <1>3, <1>4, <1>5, <1>6, <1>7, <1>8, <1>9, <1>10
       DEF Joining, Leaving, Next, ControllerInput, ProviderExit, Teardown, RemovalChannelClosed

(* The tap log replays the stream: what is teed is the event just stamped, *)
(* numbered past everything teed before it.                                *)
THEOREM TapReplaysCorrect == Spec => []TapReplaysStream
  <1>1. Init => TapReplaysStream
    BY DEF Init, TapReplaysStream
  <1>2. TapReplaysStream /\ DeliveryInv /\ TypeOK' /\ [Next]_vars => TapReplaysStream'
    <2> SUFFICES ASSUME TapReplaysStream, DeliveryInv, TypeOK', [Next]_vars
                 PROVE  TapReplaysStream'
      OBVIOUS
    <2>0. TypeOK /\ next_seq = Len(log)
      BY DEF DeliveryInv, LogNumbered
    <2>1. CASE Quiet
      BY <2>1 DEF Quiet, TapReplaysStream
    <2>2. ASSUME NEW e \in MarketEvent, Stamping(e) PROVE TapReplaysStream'
      <3>1. /\ log' = Append(log, e) /\ e.seq = Len(log)
            /\ log \in Seq(MarketEvent) /\ tap \in Seq(MarketEvent)
            /\ tee(e)
        BY <2>0, <2>2 DEF Stamping, forward, Stamped, TypeOK
      <3>2. /\ Len(log') = Len(log) + 1 /\ Len(log) \in Nat
            /\ \A i \in 1..Len(log) : log'[i] = log[i]
            /\ log'[Len(log) + 1] = e
        BY <3>1
      <3>3. \A i \in DOMAIN tap : tap[i].seq \in Nat /\ tap[i] \in MarketEvent
        <4>1. \A i \in 1..Len(tap) : tap[i] \in MarketEvent
          BY <3>1
        <4> QED
          BY <3>1, <4>1 DEF MarketEvent
      <3>4. \A i \in DOMAIN tap : tap[i].seq < Len(log') /\ tap[i] = log'[tap[i].seq + 1]
        BY <3>2, <3>3 DEF TapReplaysStream
      <3>5. CASE tap' = tap
        BY <3>4, <3>5 DEF TapReplaysStream
      <3>6. CASE tap' = Append(tap, e)
        <4>1. /\ DOMAIN tap' = 1..(Len(tap) + 1) /\ DOMAIN tap = 1..Len(tap)
              /\ Len(tap) \in Nat
              /\ \A i \in 1..Len(tap) : tap'[i] = tap[i]
              /\ tap'[Len(tap) + 1] = e
          BY <3>1, <3>6
        <4>2. \A i \in DOMAIN tap' :
                 tap'[i].seq < Len(log') /\ tap'[i] = log'[tap'[i].seq + 1]
          <5>1. \A i \in 1..Len(tap) :
                   tap'[i].seq < Len(log') /\ tap'[i] = log'[tap'[i].seq + 1]
            BY <3>4, <4>1
          <5>2. e.seq < Len(log') /\ e = log'[e.seq + 1]
            BY <3>1, <3>2
          <5>3. \A i \in DOMAIN tap' : i \in 1..Len(tap) \/ i = Len(tap) + 1
            BY <4>1
          <5> QED
            BY <4>1, <5>1, <5>2, <5>3
        <4>3. \A i, j \in DOMAIN tap' : i < j => tap'[i].seq < tap'[j].seq
          BY <3>1, <3>3, <4>1 DEF TapReplaysStream
        <4> QED
          BY <4>2, <4>3 DEF TapReplaysStream
      <3> QED
        BY <3>1, <3>5, <3>6 DEF tee
    <2> QED
      BY <2>0, <2>1, <2>2, StepForms
  <1> QED
    BY <1>1, <1>2, TypeCorrect, DeliveryCorrect, PTL DEF Spec

(* No stamped event carries the sentinel: a step that would reach it       *)
(* cannot stamp.                                                           *)
THEOREM NeverSyntheticCorrect == Spec => []NeverSynthetic
  <1>1. Init => CounterInv
    BY SyntheticAssumption DEF Init, CounterInv
  <1>2. CounterInv /\ TypeOK /\ [Next]_vars => CounterInv'
    <2> SUFFICES ASSUME CounterInv, TypeOK, [Next]_vars PROVE CounterInv'
      OBVIOUS
    <2>1. CASE Quiet
      BY <2>1 DEF Quiet, CounterInv
    <2>2. ASSUME NEW e \in MarketEvent, Stamping(e) PROVE CounterInv'
      BY <2>2, SyntheticAssumption
         DEF Stamping, forward, Stamped, CanStamp, CounterInv, TypeOK
    <2> QED
      BY <2>1, <2>2, StepForms
  <1>3. CounterInv /\ DeliveryInv => NeverSynthetic
    <2> SUFFICES ASSUME CounterInv, DeliveryInv PROVE NeverSynthetic
      OBVIOUS
    <2>1. /\ log \in Seq(MarketEvent) /\ next_seq = Len(log) /\ next_seq < Synthetic
          /\ \A i \in 1..Len(log) : log[i].seq = i - 1
      BY DEF CounterInv, DeliveryInv, LogNumbered, TypeOK
    <2> QED
      BY <2>1, SyntheticAssumption DEF NeverSynthetic
  <1> QED
    BY <1>1, <1>2, <1>3, TypeCorrect, DeliveryCorrect, PTL DEF Spec

(* No seed is stamped after live data: data_forwarded is up by then.       *)
THEOREM SeedOnlyFirstCorrect == Spec => SeedOnlyFirst
  <1>1. Init => SeedInv
    BY DEF Init, SeedInv
  <1>2. SeedInv /\ TypeOK /\ [Next]_vars => SeedInv'
    <2> SUFFICES ASSUME SeedInv, TypeOK, [Next]_vars, ~data_forwarded'
                 PROVE  \A i \in DOMAIN log' : log'[i].kind # "data"
      BY DEF SeedInv
    <2>1. CASE Quiet
      <3>1. log' = log /\ data_forwarded' = data_forwarded
        BY <2>1, Zenon DEF Quiet
      <3> QED
        BY <3>1, Zenon DEF SeedInv
    <2>2. ASSUME NEW e \in MarketEvent, Stamping(e)
          PROVE  \A i \in DOMAIN log' : log'[i].kind # "data"
      <3>1. ~data_forwarded /\ e.kind # "data"
        BY <2>2, Zenon DEF Stamping, forward
      <3>2. log' = Append(log, e) /\ log \in Seq(MarketEvent)
        BY <2>2 DEF Stamping, forward, Stamped, TypeOK
      <3>3. \A i \in DOMAIN log : log[i].kind # "data"
        BY <3>1, Zenon DEF SeedInv
      <3> QED
        BY <3>1, <3>2, <3>3
    <2> QED
      BY <2>1, <2>2, StepForms
  <1>3. SeedInv /\ TypeOK /\ [Next]_vars =>
           [seed = "pending" /\ seed' = "done" /\ log' # log
              => \A i \in DOMAIN log : log[i].kind # "data"]_vars
    <2> SUFFICES ASSUME SeedInv, Next, seed = "pending", seed' = "done", log' # log
                 PROVE  \A i \in DOMAIN log : log[i].kind # "data"
      BY DEF vars, controller
    <2>1. ASSUME NEW t \in Times, SeedArrives(t) PROVE ~data_forwarded
      BY <2>1, Zenon DEF SeedArrives
    <2>2. \E t \in Times : SeedArrives(t)
      BY DEF Next, ControllerInput, ProviderData, ProviderControl, emit_gap, SeedEmpty,
             SetPersistence, AddSubscriber, AddCancelled, ProviderExit, Exit,
             SeqExhausted, Recv, DropReferrer, RemoveSubscriber, Teardown,
             RemovalChannelClosed, controller
    <2>3. ~data_forwarded
      BY <2>1, <2>2, Zenon
    <2> QED
      BY <2>3, Zenon DEF SeedInv
  <1> QED
    BY <1>1, <1>2, <1>3, TypeCorrect, PTL DEF Spec, SeedOnlyFirst

-----------------------------------------------------------------------------
(***************************************************************************)
(* The refinement: the session implements LossyStream.  Loss is what an    *)
(* owed gap p stands for against the stream lg; the lemmas say that it is  *)
(* the abstract `lost` and that p is the abstract gap for it.              *)
(***************************************************************************)
Loss(p, lg) == IF p # NoEvent THEN LostSince(p, lg) ELSE {}

(* The least element of a set of numbers is the one below all others.      *)
LEMMA LeastIs ==
    ASSUME NEW S \in SUBSET Int, NEW m \in S, \A y \in S : m <= y
    PROVE  Stream!Least(S) = m
  <1>1. Stream!Least(S) \in S /\ \A y \in S : Stream!Least(S) <= y
    BY DEF Stream!Least
  <1>2. ASSUME NEW l \in S, \A y \in S : l <= y PROVE l = m
    <2>1. l \in Int /\ m \in Int /\ l <= m /\ m <= l
      BY <1>2
    <2> QED
      BY <2>1
  <1> QED
    BY <1>1, <1>2, Zenon

(* And the greatest the one above them.                                    *)
LEMMA GreatestIs ==
    ASSUME NEW S \in SUBSET Int, NEW m \in S, \A y \in S : y <= m
    PROVE  Stream!Greatest(S) = m
  <1>1. Stream!Greatest(S) \in S /\ \A y \in S : y <= Stream!Greatest(S)
    BY DEF Stream!Greatest
  <1>2. ASSUME NEW l \in S, \A y \in S : y <= l PROVE l = m
    <2>1. l \in Int /\ m \in Int /\ l <= m /\ m <= l
      BY <1>2
    <2> QED
      BY <2>1
  <1> QED
    BY <1>1, <1>2, Zenon

(* Lost events are stamped events at or after the gap's number.            *)
LEMMA LostRange ==
    ASSUME NEW p \in MarketEvent, NEW lg \in Seq(MarketEvent), NEW s,
           s \in LostSince(p, lg)
    PROVE  /\ s \in Nat /\ p.seq <= s /\ s < Len(lg) /\ s + 1 \in 1..Len(lg)
           /\ lg[s + 1] \in MarketEvent /\ lg[s + 1].from \in Int /\ lg[s + 1].to \in Int
  <1>1. p.seq \in Nat /\ Len(lg) \in Nat
    BY DEF MarketEvent
  <1>2. s \in Nat /\ p.seq <= s /\ s < Len(lg) /\ s + 1 \in 1..Len(lg)
    BY <1>1 DEF LostSince
  <1>3. lg[s + 1] \in MarketEvent
    BY <1>2
  <1> QED
    BY <1>2, <1>3 DEF MarketEvent

(* An exact owed gap is the gap the abstract stream would report.          *)
LEMMA OwedIsGapFor ==
    ASSUME NEW p \in MarketEvent, p.kind = "gap", log \in Seq(MarketEvent),
           Exact(p, log)
    PROVE  Stream!GapFor(LostSince(p, log)) = p /\ LostSince(p, log) # {}
  <1> DEFINE L == LostSince(p, log)
             F == {log[s + 1].from : s \in L}
             T == {log[s + 1].to : s \in L}
  <1>1. \A s \in L : /\ s \in Nat /\ p.seq <= s
                     /\ log[s + 1].from \in Int /\ log[s + 1].to \in Int
    BY LostRange
  <1>2. /\ p.seq \in L
        /\ \A s \in L : p.from <= log[s + 1].from /\ log[s + 1].to <= p.to
        /\ \E s \in L : log[s + 1].from = p.from
        /\ \E s \in L : log[s + 1].to = p.to
    BY DEF Exact
  <1> HIDE DEF L
  <1>3. Stream!Least(L) = p.seq
    <2>1. L \in SUBSET Int
      BY <1>1
    <2> QED
      BY <1>1, <1>2, <2>1, LeastIs
  <1>4. Stream!Least(F) = p.from
    <2>1. F \in SUBSET Int /\ p.from \in F /\ \A y \in F : p.from <= y
      BY <1>1, <1>2
    <2> QED
      BY <2>1, LeastIs
  <1>5. Stream!Greatest(T) = p.to
    <2>1. T \in SUBSET Int /\ p.to \in T /\ \A y \in T : y <= p.to
      BY <1>1, <1>2
    <2> QED
      BY <2>1, GreatestIs
  <1>6. Stream!GapFor(L) = [kind |-> "gap", seq |-> p.seq, from |-> p.from, to |-> p.to]
    BY <1>3, <1>4, <1>5 DEF Stream!GapFor
  <1>7. p = [kind |-> "gap", seq |-> p.seq, from |-> p.from, to |-> p.to]
    BY DEF MarketEvent
  <1> QED
    BY <1>2, <1>6, <1>7 DEF L

(* Folding a refused event into the owed gap loses exactly that event.     *)
LEMMA FoldLoss ==
    ASSUME NEW p \in MarketEvent \cup {NoEvent}, NEW lg \in Seq(MarketEvent),
           NEW e \in MarketEvent, e.seq = Len(lg),
           p # NoEvent => p.kind = "gap" /\ Exact(p, lg)
    PROVE  /\ Loss(absorb_drop(p, e), Append(lg, e)) = Loss(p, lg) \cup Stream!Owed(e)
           /\ absorb_drop(p, e) # NoEvent => Exact(absorb_drop(p, e), Append(lg, e))
  <1> DEFINE ll == Append(lg, e)
             n == Len(lg)
  <1>1. /\ Len(ll) = n + 1 /\ n \in Nat /\ ll[n + 1] = e
        /\ \A i \in 1..n : ll[i] = lg[i]
    OBVIOUS
  <1>2. Stream!Owed(e) = IF gap_coords(e) THEN {n} ELSE {}
    BY DEF Stream!Owed, gap_coords, MarketEvent, EventKinds
  <1>3. e.from \in Int /\ e.to \in Int
    BY DEF MarketEvent
  <1> HIDE DEF ll, n
  <1>4. ASSUME NEW q \in MarketEvent, q.seq <= n
        PROVE  LostSince(q, ll) = {s \in q.seq .. (n - 1) : gap_coords(lg[s + 1])}
                                    \cup (IF gap_coords(e) THEN {n} ELSE {})
    <2>1. q.seq \in Nat
      BY DEF MarketEvent
    <2>2. \A s \in q.seq .. (n - 1) : ll[s + 1] = lg[s + 1]
      BY <1>1, <2>1
    <2>3. q.seq .. (Len(ll) - 1) = (q.seq .. (n - 1)) \cup {n}
      BY <1>1, <1>4, <2>1
    <2> QED
      BY <1>1, <2>2, <2>3 DEF LostSince
  <1>5. CASE p # NoEvent
    <2>1. p \in MarketEvent /\ p.kind = "gap" /\ Exact(p, lg)
      BY <1>5
    <2>2. \A s \in LostSince(p, lg) :
             /\ s \in Nat /\ p.seq <= s /\ s < n /\ s + 1 \in 1..n
             /\ lg[s + 1].from \in Int /\ lg[s + 1].to \in Int
      BY <2>1, LostRange DEF n
    <2>3. p.seq \in LostSince(p, lg) /\ p.seq < n /\ p.from \in Int /\ p.to \in Int
      BY <2>1, <2>2 DEF Exact, MarketEvent
    <2>4. \A s \in LostSince(p, lg) : ll[s + 1] = lg[s + 1]
      BY <1>1, <2>2
    <2>5. LostSince(p, ll) = LostSince(p, lg) \cup Stream!Owed(e)
      BY <1>2, <1>4, <2>1, <2>3 DEF LostSince, n
    <2>6. CASE ~gap_coords(e)
      <3>1. absorb_drop(p, e) = p /\ LostSince(p, ll) = LostSince(p, lg)
        BY <1>2, <2>5, <2>6 DEF absorb_drop
      <3>2. Exact(p, ll)
        BY <2>1, <2>4, <3>1 DEF Exact
      <3> QED
        BY <1>5, <2>5, <3>1, <3>2 DEF Loss, ll
    <2>7. CASE gap_coords(e)
      <3> DEFINE a == absorb(p, e)
      <3>1. /\ absorb_drop(p, e) = a
            /\ a.kind = "gap" /\ a.seq = p.seq
            /\ a.from = Min2(p.from, e.from) /\ a.to = Max2(p.to, e.to)
        BY <1>5, <2>1, <2>7 DEF absorb_drop, absorb, MarketEvent
      <3> HIDE DEF a
      <3>2. LostSince(a, ll) = LostSince(p, ll) /\ LostSince(p, ll) = LostSince(p, lg) \cup {n}
        BY <1>2, <2>5, <2>7, <3>1 DEF LostSince
      <3>3. a # NoEvent
        BY <3>1 DEF NoEvent
      <3>4. /\ a.from \in Int /\ a.from <= p.from /\ a.from <= e.from
            /\ a.from = p.from \/ a.from = e.from
            /\ a.to \in Int /\ p.to <= a.to /\ e.to <= a.to
            /\ a.to = p.to \/ a.to = e.to
        BY <1>3, <2>3, <3>1 DEF Min2, Max2
      <3>5. \A s \in LostSince(p, lg) : p.from <= lg[s + 1].from /\ lg[s + 1].to <= p.to
        BY <2>1 DEF Exact
      <3>6. \A s \in LostSince(a, ll) : a.from <= ll[s + 1].from /\ ll[s + 1].to <= a.to
        <4>1. ASSUME NEW s \in LostSince(p, lg)
              PROVE  a.from <= ll[s + 1].from /\ ll[s + 1].to <= a.to
          BY <2>2, <2>3, <2>4, <3>4, <3>5
        <4> QED
          BY <1>1, <3>2, <3>4, <4>1
      <3>7. \E s \in LostSince(a, ll) : ll[s + 1].from = a.from
        <4>1. CASE a.from = p.from
          <5>1. PICK s \in LostSince(p, lg) : lg[s + 1].from = p.from
            BY <2>1 DEF Exact
          <5> QED
            BY <2>4, <3>2, <4>1, <5>1
        <4>2. CASE a.from = e.from
          BY <1>1, <3>2, <4>2
        <4> QED
          BY <3>4, <4>1, <4>2
      <3>8. \E s \in LostSince(a, ll) : ll[s + 1].to = a.to
        <4>1. CASE a.to = p.to
          <5>1. PICK s \in LostSince(p, lg) : lg[s + 1].to = p.to
            BY <2>1 DEF Exact
          <5> QED
            BY <2>4, <3>2, <4>1, <5>1
        <4>2. CASE a.to = e.to
          BY <1>1, <3>2, <4>2
        <4> QED
          BY <3>4, <4>1, <4>2
      <3>9. a.seq \in LostSince(a, ll)
        BY <2>3, <3>1, <3>2
      <3>10. Exact(a, ll)
        BY <3>6, <3>7, <3>8, <3>9 DEF Exact
      <3> QED
        BY <1>5, <2>5, <3>1, <3>2, <3>3, <3>10 DEF Loss, ll
    <2> QED
      BY <2>6, <2>7
  <1>6. CASE p = NoEvent
    <2>1. CASE ~gap_coords(e)
      BY <1>2, <1>6, <2>1 DEF absorb_drop, Loss
    <2>2. CASE gap_coords(e)
      <3> DEFINE a == [kind |-> "gap", seq |-> e.seq, from |-> e.from, to |-> e.to]
      <3>1. /\ absorb_drop(p, e) = a /\ a \in MarketEvent /\ a.seq = n
            /\ a.from = e.from /\ a.to = e.to /\ a # NoEvent
        BY <1>1, <1>3, <1>6, <2>2 DEF absorb_drop, MarketEvent, EventKinds, NoEvent, n
      <3> HIDE DEF a
      <3>2. LostSince(a, ll) = {n}
        <4>1. a.seq .. (n - 1) = {}
          BY <1>1, <3>1
        <4> QED
          BY <1>1, <1>4, <2>2, <3>1, <4>1
      <3>3. Exact(a, ll)
        BY <1>1, <1>3, <3>1, <3>2 DEF Exact
      <3> QED
        BY <1>2, <1>6, <2>2, <3>1, <3>2, <3>3 DEF Loss, ll
    <2> QED
      BY <2>1, <2>2
  <1> QED
    BY <1>5, <1>6

(* Two try_sends in a row append two events.                               *)
LEMMA AppendTwo ==
    ASSUME NEW q \in Seq(MarketEvent), NEW a \in MarketEvent, NEW b \in MarketEvent
    PROVE  Append(Append(q, a), b) = q \o <<a, b>>
  <1>1. /\ Append(Append(q, a), b) \in Seq(MarketEvent)
        /\ Len(Append(Append(q, a), b)) = Len(q) + 2
    OBVIOUS
  <1>2. <<a, b>> \in Seq(MarketEvent) /\ Len(<<a, b>>) = 2
    OBVIOUS
  <1>3. /\ q \o <<a, b>> \in Seq(MarketEvent)
        /\ Len(q \o <<a, b>>) = Len(q) + 2
    BY <1>2
  <1>4. ASSUME NEW i \in 1..(Len(q) + 2)
        PROVE  Append(Append(q, a), b)[i] = (q \o <<a, b>>)[i]
    <2>1. CASE i \in 1..Len(q)
      BY <2>1
    <2>2. CASE i = Len(q) + 1
      BY <2>2
    <2>3. CASE i = Len(q) + 2
      BY <2>3
    <2> QED
      BY <2>1, <2>2, <2>3
  <1> QED
    BY <1>1, <1>3, <1>4

(* What a stamped event does to a listening referrer is an abstract offer, *)
(* and the gap then owed to it is exact again.                             *)
LEMMA OfferStep ==
    ASSUME DeliveryInv, StreamInv, NEW e \in MarketEvent, e.seq = next_seq, Stamped(e),
           NEW r \in Referrers, rx[r] = "open"
    PROVE  /\ Stream!Offer(r, e)
           /\ pending'[r] # NoEvent => Exact(pending'[r], log')
           /\ r \in subscribers'
  <1>1. /\ TypeOK /\ next_seq = Len(log) /\ log \in Seq(MarketEvent)
        /\ sent[r] \in Seq(MarketEvent) /\ pending[r] \in MarketEvent \cup {NoEvent}
        /\ pending[r] # NoEvent => pending[r].kind = "gap" /\ Exact(pending[r], log)
        /\ r \in subscribers
    BY DEF DeliveryInv, LogNumbered, OwedReal, TypeOK, StreamInv, OwedExact, Roster
  <1>2. log' = Append(log, e) /\ e.seq = Len(log) /\ rx' = rx /\ fanout(e)
    BY <1>1 DEF Stamped
  <1>3. /\ sent'[r] = SentBy(r, e) /\ pending'[r] = PendingBy(r, e)
        /\ r \in subscribers'
    BY <1>1, <1>2 DEF fanout
  <1>4. Room(r) \in Int
    BY <1>1, CapAssumption DEF Room, TypeOK
  <1>5. Unreported[r] = Loss(pending[r], log) /\ Unreported'[r] = Loss(pending'[r], log')
    BY <1>2 DEF Unreported, Loss
  <1>6. /\ Loss(absorb_drop(NoEvent, e), log') = Stream!Owed(e)
        /\ absorb_drop(NoEvent, e) # NoEvent => Exact(absorb_drop(NoEvent, e), log')
    <2>1. Loss(NoEvent, log) = {} /\ NoEvent \in MarketEvent \cup {NoEvent}
      BY DEF Loss
    <2>2. /\ Loss(absorb_drop(NoEvent, e), Append(log, e)) = Loss(NoEvent, log) \cup Stream!Owed(e)
          /\ absorb_drop(NoEvent, e) # NoEvent => Exact(absorb_drop(NoEvent, e), Append(log, e))
      BY <1>1, <1>2, <2>1, FoldLoss
    <2> QED
      BY <1>2, <2>1, <2>2
  <1>7. CASE pending[r] # NoEvent
    <2>1. /\ pending[r] \in MarketEvent
          /\ Loss(pending[r], log) # {}
          /\ pending[r] = Stream!GapFor(Loss(pending[r], log))
      <3>1. pending[r] \in MarketEvent
        BY <1>1, <1>7
      <3> QED
        BY <1>1, <1>7, <3>1, OwedIsGapFor DEF Loss
    <2>2. CASE Room(r) <= 0
      <3>1. sent'[r] = sent[r] /\ pending'[r] = absorb_drop(pending[r], e)
        BY <1>3, <1>4, <1>7, <2>2 DEF SentBy, PendingBy
      <3>2. /\ Loss(pending'[r], log') = Loss(pending[r], log) \cup Stream!Owed(e)
            /\ pending'[r] # NoEvent => Exact(pending'[r], log')
        BY <1>1, <1>2, <3>1, FoldLoss
      <3>3. Unreported'[r] = Unreported[r] \cup Stream!Owed(e)
        BY <1>5, <3>2
      <3> QED
        BY <1>3, <3>1, <3>2, <3>3 DEF Stream!Offer
    <2>3. CASE Room(r) = 1
      <3>1. /\ sent'[r] = Append(sent[r], pending[r])
            /\ pending'[r] = absorb_drop(NoEvent, e)
        BY <1>3, <1>4, <1>7, <2>3 DEF SentBy, PendingBy
      <3>2. /\ Unreported[r] # {} /\ Unreported'[r] = Stream!Owed(e)
            /\ sent'[r] = Append(sent[r], Stream!GapFor(Unreported[r]))
        BY <1>5, <1>6, <2>1, <3>1
      <3> QED
        BY <1>3, <1>6, <3>1, <3>2 DEF Stream!Offer
    <2>4. CASE ~(Room(r) <= 0) /\ Room(r) # 1
      <3>1. /\ sent'[r] = Append(Append(sent[r], pending[r]), e)
            /\ pending'[r] = NoEvent
        BY <1>3, <1>4, <1>7, <2>4 DEF SentBy, PendingBy
      <3>2. Append(Append(sent[r], pending[r]), e) = sent[r] \o <<pending[r], e>>
        BY <1>1, <2>1, AppendTwo
      <3>3. /\ Unreported[r] # {} /\ Unreported'[r] = {}
            /\ sent'[r] = sent[r] \o <<Stream!GapFor(Unreported[r]), e>>
        BY <1>5, <2>1, <3>1, <3>2 DEF Loss
      <3> QED
        BY <1>3, <3>1, <3>3 DEF Stream!Offer
    <2> QED
      BY <2>2, <2>3, <2>4
  <1>8. CASE pending[r] = NoEvent
    <2>1. Unreported[r] = {}
      BY <1>5, <1>8 DEF Loss
    <2>2. CASE Room(r) >= 1
      <3>1. sent'[r] = Append(sent[r], e) /\ pending'[r] = NoEvent
        BY <1>3, <1>8, <2>2 DEF SentBy, PendingBy
      <3>2. Unreported'[r] = {}
        BY <1>5, <3>1 DEF Loss
      <3> QED
        BY <1>3, <2>1, <3>1, <3>2 DEF Stream!Offer
    <2>3. CASE ~(Room(r) >= 1)
      <3>1. sent'[r] = sent[r] /\ pending'[r] = absorb_drop(NoEvent, e)
        BY <1>3, <1>8, <2>3 DEF SentBy, PendingBy
      <3>2. Unreported'[r] = Unreported[r] \cup Stream!Owed(e)
        BY <1>5, <1>6, <2>1, <3>1
      <3> QED
        BY <1>3, <1>6, <3>1, <3>2 DEF Stream!Offer
    <2> QED
      BY <2>2, <2>3
  <1> QED
    BY <1>7, <1>8

(* Steps that leave stream, fan-out and cache alone keep the invariant.    *)
LEMMA StreamQuiet ==
    ASSUME StreamInv, TypeOK,
           UNCHANGED <<log, pending, subscribers, last_subscription_changed>>,
           UNCHANGED <<rx, removals>>
    PROVE  StreamInv'
  BY DEF StreamInv, OwedExact, Roster, CachedSub

(* A joiner is owed nothing, and the id it uses is not queued for removal. *)
LEMMA StreamJoin ==
    ASSUME StreamInv, DeliveryInv, NEW r \in Referrers, add(r),
           UNCHANGED <<log, pending, last_subscription_changed, removals>>,
           rx' \in {[rx EXCEPT ![r] = "open"], [rx EXCEPT ![r] = "closed"]}
    PROVE  StreamInv' /\ Stream!Join(r)
  <1>1. /\ TypeOK /\ rx[r] = "new" /\ pending[r] = NoEvent /\ sent[r] = <<>>
        /\ subscribers' = subscribers \cup {r}
        /\ r \notin removals
    BY DEF DeliveryInv, NotJoined, add, TypeOK, StreamInv, Roster
  <1>2. \A x \in Referrers \ {r} : rx'[x] = rx[x]
    BY <1>1 DEF TypeOK
  <1>3. StreamInv'
    <2>1. OwedExact'
      BY <1>1, <1>2 DEF StreamInv, OwedExact
    <2>2. Roster'
      BY <1>1, <1>2 DEF StreamInv, Roster, TypeOK
    <2>3. CachedSub'
      BY DEF StreamInv, CachedSub
    <2> QED
      BY <2>1, <2>2, <2>3 DEF StreamInv
  <1>4. Unreported' = Unreported
    <2>1. ASSUME NEW x \in Referrers
          PROVE  (IF rx'[x] = "open" /\ pending'[x] # NoEvent
                  THEN LostSince(pending'[x], log') ELSE {})
                 = (IF rx[x] = "open" /\ pending[x] # NoEvent
                    THEN LostSince(pending[x], log) ELSE {})
      <3>1. CASE x = r
        BY <1>1, <3>1
      <3>2. CASE x # r
        BY <1>2, <3>2
      <3> QED
        BY <3>1, <3>2
    <2> QED
      BY <2>1 DEF Unreported
  <1>5. \/ UNCHANGED sent
        \/ \E i \in DOMAIN log : /\ log[i].kind \in {"sub", "control"}
                                 /\ sent' = [sent EXCEPT ![r] = <<log[i]>>]
    <2>1. CASE last_subscription_changed = NoEvent
      BY <1>1, <2>1 DEF add, TypeOK
    <2>2. CASE last_subscription_changed # NoEvent
      <3> DEFINE c == last_subscription_changed
      <3>1. /\ c.kind = "sub" /\ c.seq < Len(log) /\ c = log[c.seq + 1] /\ c.seq \in Nat
            /\ log \in Seq(MarketEvent)
        BY <1>1, <2>2 DEF StreamInv, CachedSub, DeliveryInv, CachedReal, TypeOK, MarketEvent
      <3>2. sent' = [sent EXCEPT ![r] = <<c>>]
        BY <2>2 DEF add
      <3> HIDE DEF c
      <3>3. c.seq + 1 \in DOMAIN log
        BY <3>1
      <3> QED
        BY <3>1, <3>2, <3>3
    <2> QED
      BY <2>1, <2>2
  <1>6. \E state \in {"open", "closed"} : rx' = [rx EXCEPT ![r] = state]
    OBVIOUS
  <1> QED
    BY <1>1, <1>3, <1>4, <1>5, <1>6 DEF Stream!Join

(* Publishing: the stamped event is offered to every listening referrer.   *)
LEMMA StreamPublish ==
    ASSUME StreamInv, DeliveryInv, NEW e \in MarketEvent, Stamping(e)
    PROVE  StreamInv' /\ Stream!Publish
  <1>1. /\ TypeOK /\ next_seq = Len(log) /\ log \in Seq(MarketEvent)
        /\ Stamped(e) /\ e.seq = next_seq
    BY DEF DeliveryInv, LogNumbered, TypeOK, Stamping, forward
  <1>2. /\ log' = Append(log, e) /\ e.seq = Len(log) /\ fanout(e)
        /\ rx' = rx /\ removals' = removals
    BY <1>1 DEF Stamped
  <1>3. Len(log') = Len(log) + 1 /\ log'[Len(log) + 1] = e
    BY <1>1, <1>2
  <1>4. ASSUME NEW r \in Referrers, rx[r] = "open"
        PROVE  /\ Stream!Offer(r, e) /\ r \in subscribers'
               /\ pending'[r] # NoEvent => Exact(pending'[r], log')
    BY <1>1, <1>4, OfferStep
  <1>5. ASSUME NEW r \in Referrers, rx[r] # "open"
        PROVE  sent'[r] = sent[r] /\ Unreported'[r] = Unreported[r]
    BY <1>2, <1>5 DEF fanout, Unreported
  <1>6. DOMAIN sent' = Referrers /\ DOMAIN Unreported' = Referrers
    BY <1>2 DEF fanout, Unreported
  <1>7. StreamInv'
    <2>1. OwedExact'
      BY <1>2, <1>4 DEF OwedExact
    <2>2. Roster'
      BY <1>2, <1>4 DEF Roster, StreamInv
    <2>3. CachedSub'
      BY <1>2 DEF fanout, CachedSub, StreamInv
    <2> QED
      BY <2>1, <2>2, <2>3 DEF StreamInv
  <1> QED
    BY <1>2, <1>3, <1>4, <1>5, <1>6, <1>7 DEF Stream!Publish

(* Every step of the session is a step of the lossy stream or a stutter.   *)
LEMMA StreamStep ==
    ASSUME StreamInv, DeliveryInv, [Next]_vars
    PROVE  StreamInv' /\ [Stream!Next]_(Stream!vars)
  <1>1. TypeOK
    BY DEF DeliveryInv
  <1>2. ASSUME NEW e \in MarketEvent, Stamping(e)
        PROVE  StreamInv' /\ Stream!Next
    BY <1>2, StreamPublish DEF Stream!Next
  <1>3. CASE Still
    <2>1. /\ UNCHANGED <<log, pending, subscribers, last_subscription_changed>>
          /\ UNCHANGED <<rx, removals>> /\ sent' = sent
      BY <1>3 DEF Still, fan
    <2>2. StreamInv'
      BY <1>1, <2>1, StreamQuiet
    <2>3. UNCHANGED Stream!vars
      BY <2>1 DEF Stream!vars, Unreported
    <2> QED
      BY <2>2, <2>3
  <1>4. ASSUME NEW r \in Referrers, Joining(r), Quiet
        PROVE  StreamInv' /\ Stream!Next
    <2>1. /\ add(r)
          /\ UNCHANGED <<log, pending, last_subscription_changed, removals>>
          /\ rx' \in {[rx EXCEPT ![r] = "open"], [rx EXCEPT ![r] = "closed"]}
      BY <1>4, Zenon DEF Joining, AddSubscriber, AddCancelled, controller
    <2> QED
      BY <2>1, StreamJoin DEF Stream!Next
  <1>5. ASSUME NEW r \in Referrers, DropReferrer(r)
        PROVE  StreamInv' /\ Stream!Next
    <2>1. /\ rx[r] = "open" /\ rx' = [rx EXCEPT ![r] = "closed"]
          /\ removals' = removals \cup {r}
          /\ UNCHANGED <<log, pending, subscribers, last_subscription_changed, sent>>
      BY <1>5 DEF DropReferrer, controller, fan
    <2>2. /\ rx'[r] = "closed"
          /\ \A x \in Referrers \ {r} : rx'[x] = rx[x]
      BY <1>1, <2>1 DEF TypeOK
    <2>3. StreamInv'
      <3>1. OwedExact'
        BY <2>1, <2>2 DEF StreamInv, OwedExact
      <3>2. Roster'
        BY <1>1, <2>1, <2>2 DEF StreamInv, Roster, TypeOK
      <3>3. CachedSub'
        BY <2>1 DEF StreamInv, CachedSub
      <3> QED
        BY <3>1, <3>2, <3>3 DEF StreamInv
    <2>4. Unreported' = [Unreported EXCEPT ![r] = {}]
      BY <2>1, <2>2 DEF Unreported
    <2> QED
      BY <2>1, <2>3, <2>4 DEF Stream!Next, Stream!Leave
  <1>6. ASSUME NEW r \in Referrers, RemoveSubscriber(r)
        PROVE  StreamInv' /\ UNCHANGED Stream!vars
    <2>1. /\ r \in removals /\ removals' = removals \ {r}
          /\ subscribers' = subscribers \ {r}
          /\ UNCHANGED <<log, pending, last_subscription_changed, sent, rx>>
      BY <1>6 DEF RemoveSubscriber, controller, channels
    <2>2. StreamInv'
      BY <2>1 DEF StreamInv, OwedExact, Roster, CachedSub
    <2>3. UNCHANGED Stream!vars
      BY <2>1 DEF Stream!vars, Unreported
    <2> QED
      BY <2>2, <2>3
  <1>7. \/ \E e \in MarketEvent : Stamping(e)
        \/ Quiet /\ (Still \/ \E r \in Referrers : Joining(r) \/ Leaving(r))
    BY <1>1, StepForms
  <1> QED
    BY <1>2, <1>3, <1>4, <1>5, <1>6, <1>7 DEF Leaving

(* An owed gap is exact, and the fan-out map knows who listens.            *)
LEMMA InitStreamInv == Init => StreamInv /\ Stream!Init
  <1> SUFFICES ASSUME Init PROVE StreamInv /\ Stream!Init
    OBVIOUS
  <1>1. /\ log = <<>> /\ removals = {} /\ last_subscription_changed = NoEvent
        /\ sent = [r \in Referrers |-> <<>>]
        /\ \A r \in Referrers : pending[r] = NoEvent
        /\ rx \in [Referrers -> {"new", "open"}]
        /\ \A r \in Referrers : rx[r] = "open" => r \in subscribers
    BY DEF Init
  <1>2. Unreported = [r \in Referrers |-> {}]
    BY <1>1 DEF Unreported
  <1>3. StreamInv
    BY <1>1 DEF StreamInv, OwedExact, Roster, CachedSub
  <1> QED
    BY <1>1, <1>2, <1>3 DEF Stream!Init

(***************************************************************************)
(* The session implements the lossy stream: a consumer may rely on what    *)
(* LossyStream promises and forget channels, capacities and owed gaps.     *)
(***************************************************************************)
THEOREM Refinement == Spec => ImplementsLossyStream
  <1>1. Init => StreamInv /\ Stream!Init
    BY InitStreamInv
  <1>2. StreamInv /\ DeliveryInv /\ [Next]_vars
           => StreamInv' /\ [Stream!Next]_(Stream!vars)
    BY StreamStep
  <1> QED
    BY <1>1, <1>2, DeliveryCorrect, PTL DEF Spec, ImplementsLossyStream, Stream!Spec

=============================================================================

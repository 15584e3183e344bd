---------------------------- MODULE ShmTransport ----------------------------
(***************************************************************************)
(* One event channel of the same-host transport, end to end.               *)
(*                                                                         *)
(* Daemon: the pump of a client or of a query (crates/datamancerd/src/     *)
(* server.rs) publishes a stream into its Iceoryx2DataSink                 *)
(* (crates/datamancer-transport-iceoryx2/src/): an interned symbol id per  *)
(* sample on the data service, the instruments behind the ids on a second  *)
(* service, with no order between the two.                                 *)
(*                                                                         *)
(* Client (crates/datamancer-client/src/iceoryx2.rs): the request that     *)
(* opens the channel, the blocking poll thread with its HoldBuffer, the    *)
(* bounded event channel, and the handles whose drop gives the channel     *)
(* back.  The iceoryx2 services are external: a bounded queue per          *)
(* subscriber, a history for a late one; the data service makes a sender   *)
(* wait for room, the announcement service drops its oldest.               *)
(***************************************************************************)
EXTENDS Naturals, Sequences, FiniteSets, SequencesExt

CONSTANTS
  Instruments,
  TooLong,      \* instruments whose encoded tuple exceeds the capacity
  Feeds,         \* what a session may produce: [kind, inst], the terminal one last
  DataHistory, DataBuffer,  \* of the data service, per subscriber
  AnnHistory, AnnBuffer,    \* of the announcement service
  Interval,     \* REANNOUNCE_INTERVAL
  EventBuffer,  \* the client's bounded event channel
  MaxFaults      \* bound: sends the transport refuses

ASSUME ShmAssumption ==
  /\ TooLong \subseteq Instruments
  /\ DataHistory \in Nat /\ AnnHistory \in Nat
  /\ DataBuffer \in Nat \ {0} /\ AnnBuffer \in Nat \ {0}
  /\ Interval \in Nat \ {0} /\ EventBuffer \in Nat \ {0}

VARIABLES
  feed,      \* the session's events
  query,     \* the channel is a query's; else a client's live stream
  entry,     \* the daemon's entry: "none", "open", "done", "cancelled"
  stage,     \* where the pump stands
  pos,       \* events the pump has taken from the session's stream
  pod,       \* the sample being delivered
  table,     \* SymbolTable::reverse; the id of table[i] is i
  announced, \* State::announced
  sends,     \* data sends so far
  faults,
  dataHist, annHist,        \* what a late subscriber still gets
  dataQ, annQ,              \* the subscriber's queues
  ctl,       \* commands the client's control task has yet to deliver
  app,       \* the application: "idle", "asking", "attaching", "holding", "dropped", "failed"
  thread,    \* the poll thread
  stop,      \* its stop flag
  resolver,  \* SymbolResolver: id -> instrument, on the ids announced
  held, ready,              \* HoldBuffer::held, and events not yet forwarded
  chan, got, finished        \* the event channel, what was read, QueryStream::finished

pumpVars == <<stage, pos, pod, table, announced, sends>>
serviceVars == <<dataHist, annHist, dataQ, annQ>>
clientVars == <<app, thread, stop, resolver, held, ready, chan, got, finished>>
vars == <<feed, query, entry, pumpVars, faults, serviceVars, ctl, clientVars>>

CONNECTION == 0
NoPod == [kind |-> "none", symbol |-> CONNECTION, n |-> 0]
ConnectionScoped == {"provider_connected", "provider_disconnected", "provider_error"}

LastOf(s, k) == IF Len(s) <= k THEN s ELSE SubSeq(s, Len(s) - k + 1, Len(s))
Attached == thread \notin {"none", "gone", "lost"}

Init ==
  /\ feed \in Feeds
  /\ query \in BOOLEAN
  /\ entry = "none" /\ stage = "none" /\ pos = 0 /\ pod = NoPod
  /\ table = <<>> /\ announced = {} /\ sends = 0 /\ faults = 0
  /\ dataHist = <<>> /\ annHist = <<>> /\ dataQ = <<>> /\ annQ = <<>>
  /\ ctl = <<>> /\ app = "idle" /\ thread = "none" /\ stop = FALSE
  /\ resolver = << >> /\ held = <<>> /\ ready = <<>>
  /\ chan = <<>> /\ got = <<>> /\ finished = FALSE

----------------------------------------------------------------------------
(* Symbols and samples.                                                     *)

(* Faulty variant: an id is taken back when its instrument was announced    *)
(* long ago, and given to the newcomer.                                     *)
intern_recycled(t, inst) ==
  IF \E i \in DOMAIN t : t[i] = inst THEN t
  ELSE IF t = <<>> THEN <<inst>> ELSE [t EXCEPT ![Len(t)] = inst]

(* SymbolTable::intern: the id of an instrument, a new one past the last.   *)
intern(t, inst) == IF \E i \in DOMAIN t : t[i] = inst THEN t ELSE Append(t, inst)
SymbolId(t, inst) == CHOOSE i \in DOMAIN t : t[i] = inst

(* payload::to_pod: a connection-scoped control has no sample, the terminal *)
(* control carries the connection's id, the rest their instrument's.        *)
to_pod(ev, n, t) ==
  [kind |-> ev.kind, n |-> n,
   symbol |-> IF ev.kind = "session_closing" THEN CONNECTION ELSE SymbolId(t, ev.inst)]

(* payload::from_pod: the event again, once its id resolves.                *)
Resolves(p, r) == p.symbol = CONNECTION \/ p.symbol \in DOMAIN r
from_pod(p, r) ==
  [kind |-> p.kind, n |-> p.n,
   inst |-> IF p.symbol = CONNECTION THEN "none" ELSE r[p.symbol]]

----------------------------------------------------------------------------
(* The daemon's side.                                                       *)

(* open_query / open_client: the services exist and the pump runs before    *)
(* the reply is written.                                                    *)
HandleOpen ==
  /\ ctl # <<>> /\ Head(ctl) = "open"
  /\ ctl' = Tail(ctl)
  /\ entry' = "open" /\ stage' = "next"
  /\ app' = IF app = "asking" THEN "attaching" ELSE app
  /\ UNCHANGED <<feed, query, pos, pod, table, announced, sends, faults, serviceVars,
                 thread, stop, resolver, held, ready, chan, got, finished>>

(* cancel_query / close-client: the entry goes at once; the pump is aborted *)
(* at its next await, so not in the middle of a blocking send.              *)
HandleCancel ==
  /\ ctl # <<>> /\ Head(ctl) = "cancel"
  /\ ctl' = Tail(ctl)
  /\ entry' = IF entry = "open" THEN "cancelled" ELSE entry
  /\ UNCHANGED <<feed, query, pumpVars, faults, serviceVars, clientVars>>

Aborted == entry = "cancelled"

(* The pump takes the next event: a suppressed one counts as delivered, one *)
(* whose instrument cannot be interned is rejected and stops the pump.      *)
TakeEvent ==
  /\ stage = "next" /\ ~Aborted /\ pos < Len(feed)
  /\ pos' = pos + 1
  /\ LET ev == feed[pos + 1]
         t == IF ev.kind = "session_closing" THEN table ELSE intern(table, ev.inst) IN
       IF ev.kind \in ConnectionScoped
         THEN UNCHANGED <<stage, pod, table>>
       ELSE IF ev.inst \in TooLong
         THEN stage' = "flush" /\ UNCHANGED <<pod, table>>
       ELSE LET p == to_pod(ev, pos + 1, t) IN
            /\ table' = t
            /\ pod' = p
            /\ stage' = IF p.symbol = CONNECTION \/ p.symbol \in announced THEN "data" ELSE "announce"
  /\ UNCHANGED <<feed, query, entry, announced, sends, faults, serviceVars, ctl, clientVars>>

Announcement(i) == [id |-> i, inst |-> table[i]]

(* Announcements are idempotent and may push out older ones.                *)
SendAnnouncements(anns) ==
  /\ annHist' = LastOf(annHist \o anns, AnnHistory)
  /\ annQ' = IF Attached THEN LastOf(annQ \o anns, AnnBuffer) ELSE annQ

(* Iceoryx2DataSink::deliver, the announcement of a new symbol: marked only *)
(* once it is sent.                                                         *)
Announce ==
  /\ stage = "announce"
  /\ SendAnnouncements(<<Announcement(pod.symbol)>>)
  /\ announced' = announced \cup {pod.symbol}
  /\ stage' = "data"
  /\ UNCHANGED <<feed, query, entry, pos, pod, table, sends, faults, dataHist, dataQ,
                 ctl, clientVars>>

republish_all == [i \in 1..Len(table) |-> Announcement(i)]

(* deliver, the sample: waits for room at the subscriber, enters the        *)
(* history, and every Interval sends the whole table follows.               *)
SendData ==
  /\ stage = "data"
  /\ Attached => Len(dataQ) < DataBuffer
  /\ dataQ' = IF Attached THEN Append(dataQ, pod) ELSE dataQ
  /\ dataHist' = LastOf(Append(dataHist, pod), DataHistory)
  /\ sends' = sends + 1
  /\ IF (sends + 1) % Interval = 0
       THEN SendAnnouncements(republish_all) ELSE UNCHANGED <<annHist, annQ>>
  /\ stage' = IF pod.kind = "session_closing" THEN "flush" ELSE "next"
  /\ pod' = NoPod
  /\ UNCHANGED <<feed, query, entry, pos, table, announced, faults, ctl, clientVars>>

(* The transport refuses a send: the event is rejected, the pump stops.     *)
SendFails ==
  /\ stage \in {"announce", "data"} /\ faults < MaxFaults
  /\ faults' = faults + 1
  /\ stage' = "flush"
  /\ pod' = NoPod
  /\ UNCHANGED <<feed, query, entry, pos, table, announced, sends, serviceVars, ctl, clientVars>>

(* Faulty variant: the pump ends without a last republish.                  *)
Flush_quiet ==
  /\ stage = "flush" /\ ~Aborted
  /\ stage' = IF query THEN "gone" ELSE "stopped"
  /\ entry' = IF query /\ entry = "open" THEN "done" ELSE entry
  /\ UNCHANGED <<feed, query, pos, pod, table, announced, sends, faults, serviceVars,
                 ctl, clientVars>>

(* flush, the pump's last act: the whole table once more.  A query's pump   *)
(* then reports its end and the daemon reaps entry and services.            *)
Flush ==
  /\ stage = "flush" /\ ~Aborted
  /\ SendAnnouncements(republish_all)
  /\ stage' = IF query THEN "gone" ELSE "stopped"
  /\ entry' = IF query /\ entry = "open" THEN "done" ELSE entry
  /\ UNCHANGED <<feed, query, pos, pod, table, announced, sends, faults, dataHist, dataQ,
                 ctl, clientVars>>

(* An abort takes the pump at an await, and with it the services.           *)
PumpAborted ==
  /\ Aborted /\ stage \in {"next", "flush", "stopped"}
  /\ stage' = "gone"
  /\ UNCHANGED <<feed, query, entry, pos, pod, table, announced, sends, faults, serviceVars,
                 ctl, clientVars>>

----------------------------------------------------------------------------
(* The client's side.                                                       *)

(* Client::query / Client::connect: the request goes to the control task.   *)
Ask ==
  /\ app = "idle"
  /\ app' = "asking"
  /\ ctl' = Append(ctl, "open")
  /\ UNCHANGED <<feed, query, entry, pumpVars, faults, serviceVars, thread, stop, resolver, held,
                 ready, chan, got, finished>>

(* spawn_subscriber: the poll thread opens both services and inherits their *)
(* histories; services the daemon has already reaped are created anew,     *)
(* empty.                                                                   *)
Attach ==
  /\ app = "attaching"
  /\ app' = "holding" /\ thread' = "ann"
  /\ dataQ' = IF stage = "gone" THEN <<>> ELSE dataHist
  /\ annQ' = IF stage = "gone" THEN <<>> ELSE annHist
  /\ UNCHANGED <<feed, query, entry, pumpVars, faults, dataHist, annHist, ctl, stop, resolver, held,
                 ready, chan, got, finished>>

(* Faulty variant: a failed attach returns its error and nothing else.      *)
AttachFails_leaks ==
  /\ app = "attaching" /\ faults < MaxFaults
  /\ faults' = faults + 1
  /\ app' = "failed"
  /\ UNCHANGED <<feed, query, entry, pumpVars, serviceVars, ctl, thread, stop, resolver, held,
                 ready, chan, got, finished>>

(* The attach fails (no node, incompatible service): the channel is already *)
(* open at the daemon, so it is given back.                                 *)
AttachFails ==
  /\ app = "attaching" /\ faults < MaxFaults
  /\ faults' = faults + 1
  /\ app' = "failed"
  /\ ctl' = Append(ctl, "cancel")
  /\ UNCHANGED <<feed, query, entry, pumpVars, serviceVars, thread, stop, resolver, held,
                 ready, chan, got, finished>>

(* HoldBuffer::drain_resolved: what resolves leaves in held order.          *)
drain_resolved(samples, r) ==
  LET out == SelectSeq(samples, LAMBDA p : Resolves(p, r)) IN
  [out |-> [i \in DOMAIN out |-> from_pod(out[i], r)],
   still_held |-> SelectSeq(samples, LAMBDA p : ~Resolves(p, r))]

Applied(r, anns) ==
  [i \in DOMAIN r \cup {a.id : a \in ToSet(anns)} |->
     IF \E a \in ToSet(anns) : a.id = i
       THEN (CHOOSE a \in ToSet(anns) : a.id = i).inst ELSE r[i]]

(* DataSubscriber::poll, first half: every announcement there is, and the   *)
(* held samples they resolve.                                               *)
PollAnnouncements ==
  /\ thread = "ann" /\ ~stop
  /\ LET r == Applied(resolver, annQ)
         d == drain_resolved(held, r) IN
       /\ resolver' = r /\ held' = d.still_held /\ ready' = ready \o d.out
  /\ annQ' = <<>>
  /\ thread' = "data"
  /\ UNCHANGED <<feed, query, entry, pumpVars, faults, dataHist, annHist, dataQ, ctl, app, stop,
                 chan, got, finished>>

(* poll, second half: one sample after another, as long as there are any.   *)
PollData ==
  /\ thread = "data" /\ dataQ # <<>>
  /\ LET d == drain_resolved(Append(held, Head(dataQ)), resolver) IN
       held' = d.still_held /\ ready' = ready \o d.out
  /\ dataQ' = Tail(dataQ)
  /\ UNCHANGED <<feed, query, entry, pumpVars, faults, dataHist, annHist, annQ, ctl, app, thread,
                 stop, resolver, chan, got, finished>>

(* The end of a poll: forward what it gathered; an idle pass looks whether  *)
(* anybody is still listening.                                              *)
PollEnds ==
  /\ thread = "data" /\ dataQ = <<>>
  /\ thread' = IF ready # <<>> THEN "forward" ELSE IF app = "dropped" THEN "gone" ELSE "ann"
  /\ UNCHANGED <<feed, query, entry, pumpVars, faults, serviceVars, ctl, app, stop, resolver, held,
                 ready, chan, got, finished>>

(* blocking_send: waits for room, ends the thread when the stream is gone.  *)
Forward ==
  /\ thread = "forward"
  /\ \/ /\ app = "dropped"
        /\ thread' = "gone"
        /\ UNCHANGED <<chan, ready>>
     \/ /\ app = "holding" /\ Len(chan) < EventBuffer
        /\ chan' = Append(chan, Head(ready))
        /\ ready' = Tail(ready)
        /\ thread' = IF Len(ready) = 1 THEN "ann" ELSE "forward"
  /\ UNCHANGED <<feed, query, entry, pumpVars, faults, serviceVars, ctl, app, stop, resolver, held,
                 got, finished>>

(* The loop's condition.                                                    *)
Stopped ==
  /\ thread = "ann" /\ stop
  /\ thread' = "gone"
  /\ UNCHANGED <<feed, query, entry, pumpVars, faults, serviceVars, ctl, app, stop, resolver, held,
                 ready, chan, got, finished>>

(* A receive fails (the service is gone, an announcement does not decode):  *)
(* the thread ends and with it the stream.                                  *)
PollFails ==
  /\ thread \in {"ann", "data"} /\ (stage = "gone" \/ faults < MaxFaults)
  /\ faults' = IF stage = "gone" THEN faults ELSE faults + 1
  /\ thread' = "lost"
  /\ UNCHANGED <<feed, query, entry, pumpVars, serviceVars, ctl, app, stop, resolver, held,
                 ready, chan, got, finished>>

(* The application sees the stream's end, which finishes it as well.        *)
TakeEnd ==
  /\ app = "holding" /\ chan = <<>> /\ thread \in {"gone", "lost"} /\ ~finished
  /\ finished' = TRUE
  /\ UNCHANGED <<feed, query, entry, pumpVars, faults, serviceVars, ctl, app, thread, stop, resolver,
                 held, ready, chan, got>>

(* The application reads an event; session_closing finishes a QueryStream.  *)
Take ==
  /\ app = "holding" /\ chan # <<>>
  /\ got' = Append(got, Head(chan))
  /\ chan' = Tail(chan)
  /\ finished' = (finished \/ Head(chan).kind = "session_closing")
  /\ UNCHANGED <<feed, query, entry, pumpVars, faults, serviceVars, ctl, app, thread, stop, resolver,
                 held, ready>>

(* The application lets go of the stream.  A QueryStream's drop stops its   *)
(* thread and cancels an unfinished query; a live stream's drop only closes *)
(* the event channel.                                                       *)
DropStream ==
  /\ app = "holding"
  /\ app' = "dropped"
  /\ chan' = <<>>
  /\ stop' = (stop \/ query)
  /\ ctl' = IF query /\ ~finished THEN Append(ctl, "cancel") ELSE ctl
  /\ UNCHANGED <<feed, query, entry, pumpVars, faults, serviceVars, thread, resolver, held, ready,
                 got, finished>>

(* Client::close or the drop of an Iceoryx2Client: the live stream's thread *)
(* is told to stop and the daemon to tear the client down.                  *)
CloseClient ==
  /\ ~query /\ app \in {"holding", "dropped"} /\ ~stop
  /\ stop' = TRUE
  /\ ctl' = Append(ctl, "cancel")
  /\ UNCHANGED <<feed, query, entry, pumpVars, faults, serviceVars, app, thread, resolver, held, ready,
                 chan, got, finished>>

----------------------------------------------------------------------------
Handle == HandleOpen \/ HandleCancel
PumpStep == Announce \/ SendData \/ Flush \/ PumpAborted
PollStep == PollAnnouncements \/ PollData \/ PollEnds \/ Forward \/ Stopped

Next ==
  \/ Handle \/ TakeEvent \/ PumpStep \/ SendFails
  \/ Ask \/ Attach \/ AttachFails \/ PollStep \/ PollFails \/ Take \/ TakeEnd
  \/ DropStream \/ CloseClient

Spec == Init /\ [][Next]_vars

(* The daemon, the pump and the poll thread run; the session's events and   *)
(* the application's reading are up to others.                              *)
FairSpec == Spec /\ WF_vars(Handle) /\ WF_vars(PumpStep) /\ WF_vars(PollStep)

----------------------------------------------------------------------------
(* Properties.                                                              *)

Of(inst, s) == SelectSeq(s, LAMBDA ev : ev.inst = inst)

(* What reaches the application of one instrument is a run of what the      *)
(* session produced for it: no hole, no duplicate, no change of order, and  *)
(* never another instrument's event, however announcements and samples race *)
(* and however late the subscriber attaches.                                *)
PerSymbolOrder ==
  \A inst \in Instruments :
    LET mine == Of(inst, got)
        all == SelectSeq([i \in DOMAIN feed |-> [kind |-> feed[i].kind, n |-> i, inst |-> feed[i].inst]],
                         LAMBDA ev : ev.inst = inst /\ ev.kind \notin ConnectionScoped)
    IN \E k \in 0..Len(all) :
         k + Len(mine) <= Len(all) /\ mine = SubSeq(all, k + 1, k + Len(mine))

(* A subscriber that is there when the pump flushes has every sample it     *)
(* holds resolved by that last republish, although the announcement service *)
(* forgets the oldest ones before a late subscriber comes; unless the       *)
(* application stops reading, or the channel goes first.                    *)
HeldResolves ==
  (stage = "flush" /\ Attached /\ held # <<>>)
    ~> \/ held = <<>>
       \/ thread \in {"gone", "lost"} \/ entry = "cancelled"
       \/ thread = "forward" /\ Len(chan) = EventBuffer

(* An opened channel is given back: a failed attach and a dropped query     *)
(* stream free the daemon's entry, also when the session's own stream never *)
(* ends.  (A stream that ended by itself is not cancelled when dropped.)    *)
(* And the poll thread ends once nobody holds the stream, even if no event  *)
(* ever comes again and nobody called close().                              *)
LetGo ==
  /\ (app = "failed" \/ (query /\ app = "dropped"))
        ~> (entry \in {"done", "cancelled"} \/ thread = "lost")
  /\ (app = "dropped") ~> (thread \in {"gone", "lost"})

(* What client.rs says of a query's stream: its events in source order, a   *)
(* session_closing at the end.                                              *)
QueryWhole ==
  (query /\ \E j \in DOMAIN got : got[j].kind = "session_closing") =>
    \A i \in DOMAIN feed :
      feed[i].kind \notin ConnectionScoped => \E j \in DOMAIN got : got[j].n = i
=============================================================================

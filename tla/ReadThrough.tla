----------------------------- MODULE ReadThrough -----------------------------
(***************************************************************************)
(* Historical sessions over the read-through cache, and the backfill of a  *)
(* stitched live session (session.rs: run_historical,                      *)
(* run_historical_cached, stream_segments, run_backfill; storage/turso.rs; *)
(* fetch_locks.rs), for one (instrument, kind, adjustment).                *)
(*                                                                         *)
(* Source time is a range of ticks; an event is the tick it happened at.   *)
(* A session is a task: pc is where it stands, todo what it is delivering  *)
(* and back where it continues.  Prices, rx_ts and SQL are left out.       *)
(***************************************************************************)
EXTENDS Coverage, FiniteSetsExt

CONSTANTS
    Historical,   \* sessions with Scope::Historical
    Stitched,     \* live sessions with backfill_from
    None,         \* no holder
    Ticks,        \* bound: source time is 0 .. Ticks
    Beginnings,   \* which sessions there are, the wall clock, what the
                  \* history endpoint serves by then, and the ticks at which
                  \* the market trades: [who, start, served, market]
    Ranges,       \* <<from, to>> a caller asks for
    Froms,        \* backfill_from a caller asks for
    Modes,        \* PersistenceOptions: <<read_cache, write_cache>>
    OutCap,       \* capacity of the consumer channel (1024)
    RingCap,      \* capacity of the backfill's pending ring
    MaxFaults     \* bound: failing fetches, stores, gaps() and opens

Sessions == Historical \cup Stitched
Time == 0 .. Ticks

ASSUME ReadThroughAssumption ==
    /\ Historical \cap Stitched = {} /\ None \notin Historical \cup Stitched
    /\ Ticks \in Nat /\ OutCap \in Nat \ {0} /\ RingCap \in Nat \ {0} /\ MaxFaults \in Nat
    /\ \A b \in Beginnings : /\ b.who \subseteq Historical \cup Stitched
                             /\ b.start \in 0 .. Ticks /\ b.served \in 0 .. b.start
                             /\ b.market \subseteq Span(0, Ticks)
    /\ Froms \subseteq 0 .. Ticks
    /\ Ranges \subseteq (0 .. Ticks) \X (0 .. Ticks) /\ Modes \subseteq BOOLEAN \X BOOLEAN

VARIABLES
    truth,     \* the ticks at which the market traded
    now,       \* wall clock
    horizon,   \* the history endpoint serves ticks below this one (it lags)
    rows,      \* event table: ticks with a row
    doc,       \* coverage row: segments and event_count
    slot,      \* FetchLocks: holder of the fetch slot per range
    ses,       \* the sessions
    faults,    \* faults so far
    claimed,   \* history: ticks some store has claimed
    lagging,   \* history: ticks last claimed by a fetch that had asked for
               \* them before the history endpoint served them
    filled     \* history: per range, ticks its single-flight fetches claimed

vars == <<truth, now, horizon, rows, doc, slot, ses, faults, claimed, lagging, filled>>
cache == <<rows, doc, claimed, lagging, filled>>
clock == <<truth, now, horizon>>

(* What a session delivers. *)
Data(t) == [kind |-> "data", from |-> t, to |-> t + 1]
Gap(f, t) == [kind |-> "gap", from |-> f, to |-> t]
ProviderError(t) == [kind |-> "error", from |-> t, to |-> t]
SessionClosing == [kind |-> "closing", from |-> 0, to |-> 0]

(* A session before it is opened; max = -1 is "no data event yet", and       *)
(* unserved is history: what the endpoint had not served when it was asked,  *)
(* by this session or by the one whose claim it replays.                     *)
NewSession ==
    [pc |-> "idle", range |-> <<0, 0>>, mode |-> <<FALSE, FALSE>>, blind |-> FALSE,
     plan |-> <<>>, batch |-> {}, max |-> -1, failed |-> FALSE,
     todo |-> <<>>, back |-> "idle", out |-> <<>>,
     stream |-> "held", unread |-> 0, close |-> FALSE,
     since |-> 0, unserved |-> {}, live |-> <<>>, ring |-> <<>>, evicted |-> {}]

Init ==
    /\ \E b \in Beginnings :
         /\ truth = b.market /\ now = b.start /\ horizon = b.served
         /\ ses = [s \in Sessions |->
                     IF s \in b.who THEN NewSession ELSE [NewSession EXCEPT !.pc = "done"]]
    /\ rows = {} /\ doc = [segments |-> <<>>, event_count |-> 0]
    /\ slot = [r \in Ranges |-> None]
    /\ faults = 0 /\ claimed = {} /\ lagging = {} /\ filled = [r \in Ranges |-> {}]

(* Field updates of one session. *)
Becomes(s, rec) == ses' = [ses EXCEPT ![s] = rec]
At(s, pc) == ses[s].pc = pc
Read(s) == ses[s].mode[1]
Write(s) == ses[s].mode[2]
UsesCache(s) == Read(s) \/ Write(s)
Faulty == faults < MaxFaults /\ faults' = faults + 1
Emit(rec, items, back) == [rec EXCEPT !.pc = "emit", !.todo = items, !.back = back]

-----------------------------------------------------------------------------
(* The caller: opens a session, takes its stream, reads, drops it, closes. *)

(* Datamancer::session for Scope::Historical: spawns run_historical, which *)
(* takes the cached path when the options use the cache.  The range may    *)
(* reach beyond what the history endpoint serves, and beyond the present.  *)
OpenHistorical(s, r, m) ==
    /\ At(s, "idle") /\ r[1] < r[2]
    /\ Becomes(s, [ses[s] EXCEPT !.range = r, !.mode = m,
                     !.pc = IF m[1] \/ m[2] THEN "plan" ELSE "next",
                     !.plan = IF m[1] \/ m[2] THEN <<>> ELSE tile(r[1], r[2], <<r>>)])
    /\ UNCHANGED <<clock, cache, slot, faults>>

(* Once the controller has exited, nothing the caller does is seen by it. *)
Running(s) == ses[s].pc \notin {"idle", "done"}

TakeEvents(s) ==
    /\ Running(s) /\ ses[s].stream = "held" /\ ~ses[s].close
    /\ Becomes(s, [ses[s] EXCEPT !.stream = "taken"])
    /\ UNCHANGED <<clock, cache, slot, faults>>

Recv(s) ==
    /\ Running(s) /\ ses[s].stream = "taken" /\ ses[s].unread > 0
    /\ Becomes(s, [ses[s] EXCEPT !.unread = @ - 1])
    /\ UNCHANGED <<clock, cache, slot, faults>>

DropStream(s) ==
    /\ Running(s) /\ ses[s].stream = "taken"
    /\ Becomes(s, [ses[s] EXCEPT !.stream = "dropped", !.unread = 0])
    /\ UNCHANGED <<clock, cache, slot, faults>>

(* A Session dropped before its stream was taken: the controller shares the *)
(* SessionInner that holds the receiver, so nothing tells it.                *)
DropSession(s) ==
    /\ s \in Historical /\ Running(s) /\ ses[s].stream = "held" /\ ~ses[s].close
    /\ Becomes(s, [ses[s] EXCEPT !.stream = "orphan"])
    /\ UNCHANGED <<clock, cache, slot, faults>>

AskClose(s) ==
    /\ s \in Historical /\ Running(s) /\ ~ses[s].close /\ ses[s].stream # "orphan"
    /\ Becomes(s, [ses[s] EXCEPT !.close = TRUE])
    /\ UNCHANGED <<clock, cache, slot, faults>>

-----------------------------------------------------------------------------
(* Delivery. *)

(* deliver: a historical session awaits room in the consumer's channel; a   *)
(* dropped stream rejects, and the event goes to a ring nobody can take. A *)
(* live session fans out and never waits.                                  *)
CanDeliver(s) ==
    s \in Stitched \/ ses[s].stream = "dropped" \/ ses[s].unread < OutCap

DeliverTodo(s) ==
    /\ At(s, "emit") /\ CanDeliver(s)
    /\ LET rest == Tail(ses[s].todo) IN
       Becomes(s, [ses[s] EXCEPT
           !.out = Append(@, Head(ses[s].todo)),
           !.unread = IF s \in Historical /\ ses[s].stream # "dropped" THEN @ + 1 ELSE @,
           !.todo = rest,
           !.pc = IF rest = <<>> THEN ses[s].back ELSE "emit"])
    /\ UNCHANGED <<clock, cache, slot, faults>>

-----------------------------------------------------------------------------
(* The cache. *)

covered == Spans(doc.segments)

(* gaps(key): one query; a failing one makes the whole range a gap. *)
GapsOf(s) == gaps_within(doc.segments, ses[s].range[1], ses[s].range[2])
WholeRange(s) == <<ses[s].range>>

(* store(key, events): in one transaction, delete the claimed range, insert *)
(* the events, merge the claim into the coverage and recount it.            *)
Stored(s, f, to, events) ==
    LET table == (rows \ Span(f, to)) \cup events
        segs == merge_in(doc.segments, f, to)
    IN  /\ rows' = table
        /\ doc' = [segments |-> segs, event_count |-> Cardinality(table \cap Spans(segs))]
        /\ claimed' = claimed \cup Span(f, to)
        /\ lagging' = (lagging \ Span(f, to)) \cup (ses[s].unserved \cap Span(f, to))
        /\ filled' = IF Read(s) /\ s \in Historical
                     THEN [filled EXCEPT ![ses[s].range] = @ \cup Span(f, to)] ELSE filled

(* A store that is asked for, succeeds or fails and is rolled back. *)
StoreOrRollBack(s, f, to, events) ==
    \/ Write(s) /\ Stored(s, f, to, events) /\ UNCHANGED faults
    \/ Write(s) /\ Faulty /\ UNCHANGED cache
    \/ ~Write(s) /\ UNCHANGED <<cache, faults>>

-----------------------------------------------------------------------------
(* Planning: run_historical_cached and run_backfill up to stream_segments.  *)

Planned(rec, gaps, blind) ==
    [rec EXCEPT !.pc = "next", !.blind = blind,
                !.plan = tile(rec.range[1], rec.range[2], gaps)]

PlanRefresh(s) ==
    /\ At(s, "plan") /\ ~Read(s)
    /\ Becomes(s, Planned(ses[s], WholeRange(s), FALSE))
    /\ UNCHANGED <<clock, cache, slot, faults>>

(* Unlocked pre-check: nothing missing, or go for the fetch slot.  A         *)
(* backfill plans on this answer and bypasses the slot.                      *)
PlanCheck(s) ==
    /\ At(s, "plan") /\ Read(s)
    /\ \/ /\ GapsOf(s) = <<>> \/ s \in Stitched
          /\ Becomes(s, Planned(ses[s], GapsOf(s), FALSE))
          /\ UNCHANGED faults
       \/ /\ GapsOf(s) # <<>> /\ s \in Historical
          /\ Becomes(s, [ses[s] EXCEPT !.pc = "wait"])
          /\ UNCHANGED faults
       \/ /\ Faulty
          /\ Becomes(s, IF s \in Stitched THEN Planned(ses[s], WholeRange(s), TRUE)
                        ELSE [ses[s] EXCEPT !.pc = "wait"])
    /\ UNCHANGED <<clock, cache, slot>>

(* FetchLocks::acquire: one holder per key.  No command is served here. *)
Acquire(s) ==
    /\ At(s, "wait") /\ slot[ses[s].range] = None
    /\ slot' = [slot EXCEPT ![ses[s].range] = s]
    /\ Becomes(s, [ses[s] EXCEPT !.pc = "replan"])
    /\ UNCHANGED <<clock, cache, faults>>

(* Faulty variant: the answer from before the wait is used. *)
Replan_stale(s) ==
    /\ At(s, "replan")
    /\ Becomes(s, Planned(ses[s], WholeRange(s), FALSE))
    /\ UNCHANGED <<clock, cache, slot, faults>>

(* Under the slot, tile again against fresh coverage; if a winner filled    *)
(* the range meanwhile, give the slot back (a coalesced fetch).              *)
Replan(s) ==
    /\ At(s, "replan")
    /\ \/ /\ Becomes(s, Planned(ses[s], GapsOf(s), FALSE)) /\ UNCHANGED faults
          /\ slot' = IF GapsOf(s) = <<>> THEN [slot EXCEPT ![ses[s].range] = None] ELSE slot
       \/ Faulty /\ Becomes(s, Planned(ses[s], WholeRange(s), TRUE)) /\ UNCHANGED slot
    /\ UNCHANGED <<clock, cache>>

-----------------------------------------------------------------------------
(* stream_segments. *)

Current(s) == Head(ses[s].plan)
PlanRest(s) == Tail(ses[s].plan)
NextSegment(rec) == [rec EXCEPT !.pc = "next", !.plan = Tail(@), !.max = -1, !.batch = {}]

(* Faulty variant: a segment whose replay cannot be opened is skipped. *)
OpenReplay_silent(s) ==
    /\ At(s, "next") /\ ses[s].plan # <<>> /\ Current(s).kind = "covered"
    /\ \/ /\ Becomes(s, [ses[s] EXCEPT !.pc = "replay",
                        !.batch = rows \cap Span(Current(s).from, Current(s).to)])
          /\ UNCHANGED faults
       \/ Faulty /\ Becomes(s, NextSegment(ses[s]))
    /\ UNCHANGED <<clock, cache, slot>>

(* A covered segment: open() reads the rows once; a failing open gaps it. *)
OpenReplay(s) ==
    /\ At(s, "next") /\ ses[s].plan # <<>> /\ Current(s).kind = "covered"
    /\ \/ /\ Becomes(s, [ses[s] EXCEPT !.pc = "replay",
                        !.batch = rows \cap Span(Current(s).from, Current(s).to),
                        !.unserved = @ \cup (lagging \cap Span(Current(s).from, Current(s).to))])
          /\ UNCHANGED faults
       \/ /\ Faulty
          /\ Becomes(s, [Emit(ses[s], <<Gap(Current(s).from, Current(s).to)>>, "next")
                           EXCEPT !.plan = PlanRest(s)])
    /\ UNCHANGED <<clock, cache, slot>>

Replay(s) ==
    /\ At(s, "replay")
    /\ IF ses[s].batch = {}
       THEN Becomes(s, NextSegment(ses[s]))
       ELSE Becomes(s, [Emit(ses[s], <<Data(Min(ses[s].batch))>>, "replay")
                          EXCEPT !.batch = @ \ {Min(ses[s].batch)}])
    /\ UNCHANGED <<clock, cache, slot, faults>>

(* Faulty variant: the request names the whole range, not the segment. *)
StartFetch_whole(s) ==
    /\ At(s, "next") /\ ses[s].plan # <<>> /\ Current(s).kind = "gap"
    /\ Becomes(s, [ses[s] EXCEPT !.pc = "fetch",
                     !.batch = truth \cap Span(ses[s].range[1], Lower(ses[s].range[2], horizon))])
    /\ UNCHANGED <<clock, cache, slot, faults>>

(* A gap: spawn fetch_history, which returns what the endpoint serves now. *)
StartFetch(s) ==
    /\ At(s, "next") /\ ses[s].plan # <<>> /\ Current(s).kind = "gap"
    /\ Becomes(s, [ses[s] EXCEPT !.pc = "fetch",
                     !.batch = truth \cap Span(Current(s).from, Lower(Current(s).to, horizon)),
                     !.unserved = @ \cup (truth \cap Span(Upper(Current(s).from, horizon),
                                                      Current(s).to))])
    /\ UNCHANGED <<clock, cache, slot, faults>>

FetchEvent(s) ==
    /\ At(s, "fetch") /\ ses[s].batch # {}
    /\ LET t == Min(ses[s].batch) IN
       Becomes(s, [Emit(ses[s], <<Data(t)>>, "fetch") EXCEPT !.batch = @ \ {t}, !.max = t])
    /\ UNCHANGED <<clock, cache, slot, faults>>

(* The provider's task ends: exhausted, or with an error or a panic. *)
FetchEnds(s) ==
    /\ At(s, "fetch")
    /\ \/ ses[s].batch = {} /\ Becomes(s, [ses[s] EXCEPT !.pc = "settle"]) /\ UNCHANGED faults
       \/ Faulty /\ Becomes(s, [ses[s] EXCEPT !.pc = "settle", !.failed = TRUE])
    /\ UNCHANGED <<clock, cache, slot>>

(* Faulty variant: the whole segment counts as confirmed. *)
confirmed_prefix_end_whole(max, f, t) == t

(* confirmed_prefix_end: through the last data event, within the segment. *)
confirmed_prefix_end(max, f, t) == IF max = -1 THEN f ELSE Upper(f, Lower(t, max + 1))

(* The fetched events: those already taken from the batch. *)
Fetched(s) ==
    (truth \cap Span(Current(s).from, Upper(Current(s).from, ses[s].max + 1)))

AtEdge(s) == s \in Stitched /\ Current(s).to = ses[s].range[2]

(* A fetch that succeeded claims its segment; at the live edge only what it *)
(* has seen, because the endpoint lags.                                     *)
SettleFetched(s) ==
    /\ At(s, "settle") /\ ~ses[s].failed
    /\ LET f == Current(s).from
           t == Current(s).to
           claim == IF AtEdge(s) THEN confirmed_prefix_end(ses[s].max, f, t) ELSE t
       IN  StoreOrRollBack(s, f, claim, Fetched(s))
    /\ Becomes(s, NextSegment(ses[s]))
    /\ UNCHANGED <<clock, slot>>

(* A fetch that failed claims the confirmed prefix, gaps the rest of the    *)
(* segment (of the backfill, when there is a live edge), reports the error  *)
(* and abandons the other segments.  Without a cache only the error.        *)
SettleFailed(s) ==
    /\ At(s, "settle") /\ ses[s].failed
    /\ LET f == Current(s).from
           t == Current(s).to
           upto == confirmed_prefix_end(ses[s].max, f, t)
           end == IF s \in Stitched THEN ses[s].range[2] ELSE t
           gap == IF upto < end THEN <<Gap(upto, end)>> ELSE <<>>
           items == IF UsesCache(s) \/ s \in Stitched THEN Append(gap, ProviderError(upto))
                    ELSE <<ProviderError(Upper(f, ses[s].max))>>
       IN  /\ StoreOrRollBack(s, f, upto, Fetched(s))
           /\ Becomes(s, [Emit(NextSegment(ses[s]), items, "next")
                            EXCEPT !.plan = <<>>, !.failed = FALSE])
    /\ UNCHANGED <<clock, slot>>

-----------------------------------------------------------------------------
(* The end of a session. *)

(* Faulty variant: only a completed session gives the slot back. *)
Freed_done(s) == IF ses[s].close THEN slot ELSE [r \in Ranges |-> IF slot[r] = s THEN None ELSE slot[r]]

(* The guard is dropped before finish_historical. *)
Freed(s) == [r \in Ranges |-> IF slot[r] = s THEN None ELSE slot[r]]

(* finish_historical: SessionClosing, then wait for the stream to be        *)
(* dropped, unless nobody took it.  Both ends emit through shutdown.        *)
FinishHistorical(s) ==
    /\ At(s, "next") /\ s \in Historical /\ ses[s].plan = <<>>
    /\ slot' = Freed(s)
    /\ Becomes(s, Emit(ses[s], IF ses[s].stream = "dropped"
                               THEN <<SessionClosing, SessionClosing>> ELSE <<SessionClosing>>,
                       IF ses[s].stream = "taken" THEN "drain" ELSE "done"))
    /\ UNCHANGED <<clock, cache, faults>>

Drained(s) ==
    /\ At(s, "drain") /\ ses[s].stream = "dropped"
    /\ Becomes(s, Emit(ses[s], <<SessionClosing>>, "done"))
    /\ UNCHANGED <<clock, cache, slot, faults>>

(* Close, served by the select! loops only: shutdown, and the guard drops. *)
HandleClose(s) ==
    /\ ses[s].close /\ ses[s].pc \in {"replay", "fetch", "drain"}
    /\ slot' = Freed(s)
    /\ Becomes(s, [Emit(ses[s], <<SessionClosing>>, "done") EXCEPT !.plan = <<>>, !.batch = {}])
    /\ UNCHANGED <<clock, cache, faults>>

-----------------------------------------------------------------------------
(* The stitched live session. *)

(* The controller subscribes upstream before it backfills. *)
OpenStitched(s) ==
    /\ s \in Stitched /\ At(s, "idle")
    /\ Becomes(s, [ses[s] EXCEPT !.pc = "subscribed", !.since = now])
    /\ UNCHANGED <<clock, cache, slot, faults>>

(* run_backfill: the edge is the wall clock, after the subscription. *)
StartBackfill(s, from, m) ==
    /\ At(s, "subscribed")
    /\ Becomes(s, [ses[s] EXCEPT !.range = <<from, now>>, !.mode = m,
                     !.pc = IF from >= now THEN "live" ELSE "plan"])
    /\ UNCHANGED <<clock, cache, slot, faults>>

(* Live arrivals wait in the pending ring while the backfill runs. *)
BufferLive(s) ==
    /\ ses[s].pc \in {"replay", "fetch"} /\ ses[s].live # <<>>
    /\ LET full == Len(ses[s].ring) = RingCap
           kept == IF full THEN Tail(ses[s].ring) ELSE ses[s].ring
       IN  Becomes(s, [ses[s] EXCEPT !.live = Tail(@),
                         !.ring = Append(kept, Head(ses[s].live)),
                         !.evicted = IF full THEN @ \cup {Head(ses[s].ring)} ELSE @])
    /\ UNCHANGED <<clock, cache, slot, faults>>

(* Faulty variant: the ring's losses are forgotten. *)
EvictedGap_forgotten(s) == <<>>

(* The seam: one gap for what the ring evicted, then the survivors. *)
EvictedGap(s) ==
    IF ses[s].evicted = {} THEN <<>> ELSE <<Gap(Min(ses[s].evicted), Max(ses[s].evicted) + 1)>>

FlushPending(s) ==
    /\ At(s, "next") /\ s \in Stitched /\ ses[s].plan = <<>>
    /\ LET items == EvictedGap(s) \o [i \in DOMAIN ses[s].ring |-> Data(ses[s].ring[i])]
           rec == [ses[s] EXCEPT !.ring = <<>>, !.evicted = {}]
       IN  Becomes(s, IF items = <<>> THEN [rec EXCEPT !.pc = "live"]
                      ELSE Emit(rec, items, "live"))
    /\ UNCHANGED <<clock, cache, slot, faults>>

ForwardLive(s) ==
    /\ At(s, "live") /\ ses[s].live # <<>>
    /\ Becomes(s, [Emit(ses[s], <<Data(Head(ses[s].live))>>, "live") EXCEPT !.live = Tail(@)])
    /\ UNCHANGED <<clock, cache, slot, faults>>

(* The last referrer leaves in the middle of the backfill. *)
LastReferrerLeaves(s) ==
    /\ s \in Stitched /\ ses[s].pc \in {"replay", "fetch"}
    /\ Becomes(s, [Emit(ses[s], <<SessionClosing>>, "done")
                     EXCEPT !.plan = <<>>, !.batch = {}, !.live = <<>>, !.ring = <<>>])
    /\ UNCHANGED <<clock, cache, slot, faults>>

-----------------------------------------------------------------------------
(* The market trades a tick; a subscribed session is sent it live.  The     *)
(* history endpoint catches up in its own time.                             *)
MarketTick ==
    /\ now < Ticks
    /\ now' = now + 1
    /\ ses' = [s \in Sessions |->
                 IF s \in Stitched /\ Running(s) /\ ses[s].back # "done" /\ now \in truth
                 THEN [ses[s] EXCEPT !.live = Append(@, now)] ELSE ses[s]]
    /\ UNCHANGED <<truth, horizon, cache, slot, faults>>

HistoryCatchesUp ==
    /\ horizon < now
    /\ horizon' = now
    /\ UNCHANGED <<truth, now, cache, slot, ses, faults>>

Controller(s) ==
    \/ PlanRefresh(s) \/ PlanCheck(s) \/ Acquire(s) \/ Replan(s)
    \/ OpenReplay(s) \/ Replay(s) \/ StartFetch(s) \/ FetchEvent(s) \/ FetchEnds(s)
    \/ SettleFetched(s) \/ SettleFailed(s) \/ DeliverTodo(s)
    \/ FinishHistorical(s) \/ Drained(s) \/ HandleClose(s)
    \/ BufferLive(s) \/ FlushPending(s) \/ ForwardLive(s)

Caller(s) ==
    \/ \E r \in Ranges, m \in Modes : s \in Historical /\ OpenHistorical(s, r, m)
    \/ \E f \in Froms, m \in Modes : s \in Stitched /\ StartBackfill(s, f, m)
    \/ s \in Historical /\ (TakeEvents(s) \/ Recv(s) \/ DropStream(s))
    \/ AskClose(s) \/ DropSession(s) \/ OpenStitched(s) \/ LastReferrerLeaves(s)

Next ==
    \/ \E s \in Sessions : Controller(s) \/ Caller(s)
    \/ MarketTick \/ HistoryCatchesUp

Spec == Init /\ [][Next]_vars

(* The runtime polls every ready task. *)
TaskFairness == \A s \in Sessions : WF_vars(Controller(s))

(* A caller that keeps its session reads it to the end and lets it go. *)
CallerFairness ==
    \A s \in Historical : WF_vars(TakeEvents(s) \/ Recv(s) \/ DropStream(s))

TaskSpec == Spec /\ TaskFairness
FairSpec == TaskSpec /\ CallerFairness

-----------------------------------------------------------------------------
(* Properties. *)

(* Canonical segments: ordered, neither overlapping nor touching. *)
Canonical(segs) ==
    /\ \A i \in DOMAIN segs : segs[i][1] < segs[i][2]
    /\ \A i, j \in DOMAIN segs : i < j => segs[i][2] < segs[j][1]

(* Coverage promises more than the table holds only where a completed fetch  *)
(* asked before the endpoint served: any other tick that traded and lies in  *)
(* a covered segment has its row, whatever fetches, failures and concurrent  *)
(* stores came before (stream_segments' claims, store_in_tx).  The           *)
(* coverage document is exactly the union of the claims, in canonical form   *)
(* and with the right count, and its queries (gaps_within, intersect) and    *)
(* the tiling built on them agree with set arithmetic for every request.     *)
CoverageExact ==
    /\ truth \cap covered \subseteq rows \cup lagging
    /\ Canonical(doc.segments) /\ covered = claimed
    /\ doc.event_count = Cardinality(rows)
    /\ \A f \in Time : \A t \in f .. Ticks :
         LET gaps == gaps_within(doc.segments, f, t)
             best == intersect(doc.segments, f, t)
             pieces == tile(f, t, gaps)
         IN  /\ Canonical(gaps) /\ Spans(gaps) = Span(f, t) \ claimed
             /\ best = <<>> <=> Span(f, t) \cap claimed = {}
             /\ best # <<>> => Span(best[1], best[2]) \subseteq Span(f, t) \cap claimed
             /\ f < t => /\ pieces # <<>> /\ pieces[1].from = f /\ pieces[Len(pieces)].to = t
                         /\ \A i \in 1 .. Len(pieces) - 1 : pieces[i].to = pieces[i + 1].from
                         /\ \A i \in DOMAIN pieces :
                              LET span == Span(pieces[i].from, pieces[i].to)
                              IN  IF pieces[i].kind = "gap" THEN span \cap claimed = {}
                                  ELSE span \subseteq claimed

(* What a session has told its consumer about. *)
Told(s, kinds) ==
    UNION {Span(ses[s].out[i].from, ses[s].out[i].to) :
             i \in {j \in DOMAIN ses[s].out : ses[s].out[j].kind \in kinds}}
Failed(s) == \E i \in DOMAIN ses[s].out : ses[s].out[i].kind = "error"
Ended(s) == ses[s].pc \in {"drain", "done"} /\ ~ses[s].close

(* A historical session that ends by itself and reports no provider error    *)
(* has delivered every tick that traded in its range, or a gap over it: the  *)
(* mixture of replay and fetch leaves no hole (stream_segments), save what   *)
(* its source had asked for too early.                                       *)
NothingMissing ==
    \A s \in Historical : Ended(s) /\ ~Failed(s) =>
        truth \cap Span(ses[s].range[1], ses[s].range[2])
            \subseteq Told(s, {"data", "gap"}) \cup ses[s].unserved

(* The seam of a stitched session: once it is live, every tick since its     *)
(* subscription is delivered, gapped or still queued, and so is every tick   *)
(* since the start of its backfill that the endpoint served when it was      *)
(* asked.  A tick is delivered twice at most, by the backfill and live, and  *)
(* only between the subscription and the edge of the backfill (run_backfill  *)
(* reads the clock after the subscription).                                  *)
Twice(s, i, j) ==
    i # j /\ ses[s].out[i] = ses[s].out[j] /\ ses[s].out[i].kind = "data"

SeamComplete ==
    \A s \in Stitched : At(s, "live") /\ ses[s].range # <<0, 0>> =>
        /\ truth \cap Span(ses[s].since, now)
             \subseteq Told(s, {"data", "gap"}) \cup Range(ses[s].live)
        /\ truth \cap Span(ses[s].range[1], ses[s].since)
             \subseteq Told(s, {"data", "gap"}) \cup ses[s].unserved
        /\ \A i, j \in DOMAIN ses[s].out : Twice(s, i, j) =>
             /\ ses[s].out[i].from \in Span(ses[s].since, ses[s].range[2])
             /\ \A k \in DOMAIN ses[s].out : Twice(s, j, k) => k = i

(* Source order: a historical session delivers a tick at most once and never *)
(* steps back, data, gaps and errors alike.                                  *)
SourceOrder ==
    \A s \in Historical : \A i, j \in DOMAIN ses[s].out :
        /\ i < j /\ "closing" \notin {ses[s].out[i].kind, ses[s].out[j].kind}
        => /\ ses[s].out[i].from <= ses[s].out[j].from
           /\ ses[s].out[j].kind = "data" => ses[s].out[i].to <= ses[s].out[j].from

(* Single flight: a session that reads the cache never fetches a tick that a *)
(* session with the same key has fetched and stored, unless gaps() failed    *)
(* (run_historical_cached: re-tile under the slot).                          *)
SingleFlight ==
    \A s \in Historical : At(s, "fetch") /\ Read(s) /\ ~ses[s].blind =>
        Span(Current(s).from, Current(s).to) \cap filled[ses[s].range] = {}

(* A session whose stream was never taken and never will be. *)
Abandoned(s) == ses[s].stream = "orphan" \/ (ses[s].close /\ ses[s].stream = "held")

(* Every historical session that is opened ends, the ones waiting for the    *)
(* fetch slot included, if callers read or drop what they opened.            *)
SessionsEnd ==
    \A s \in Historical :
        At(s, "plan") ~> \/ ses[s].pc \in {"drain", "done"}
                         \/ \E o \in Historical : Abandoned(o)

(* crates/datamancer/README.md:155: Datamancer "reports any gap or overlap   *)
(* at it" (the seam): a live stitched session has told each tick once.       *)
SeamReported ==
    \A s \in Stitched : At(s, "live") /\ ses[s].range # <<0, 0>> =>
        /\ truth \cap Span(ses[s].range[1], now)
             \subseteq Told(s, {"data", "gap"}) \cup Range(ses[s].live)
        /\ \A i, j \in DOMAIN ses[s].out : ~Twice(s, i, j)

(* crates/datamancer/README.md:267: coverage is claimed so that "a later     *)
(* request re-fetches the sliver instead of permanently masking it".         *)
SliverNotMasked == truth \cap covered \cap Span(0, now) \subseteq rows

(* README.md:38, "Loss is never silent": a session that ends by itself has   *)
(* told its consumer about every tick of its range.                          *)
LossNeverSilent ==
    \A s \in Historical : Ended(s) /\ UsesCache(s) =>
        truth \cap Span(ses[s].range[1], ses[s].range[2]) \subseteq Told(s, {"data", "gap"})

=============================================================================

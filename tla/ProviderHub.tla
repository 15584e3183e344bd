----------------------------- MODULE ProviderHub -----------------------------
(***************************************************************************)
(* A provider's runtime: the hub task that owns the one upstream websocket  *)
(* (run_hub_task in alpaca.rs and alpaca_crypto.rs, which are the same      *)
(* machine), the live handles that send it commands, the REST clients that  *)
(* are rebuilt on use, and the two watches that carry the settings and the  *)
(* credentials, which the daemon changes at any moment (runtime.rs,         *)
(* credentials.rs).                                                         *)
(*                                                                          *)
(* A watch is a value with a version; a receiver is the version it has      *)
(* seen.  Reading the value and marking it seen are two steps, and the      *)
(* whole difficulty is that the daemon can write between them.  A sink is   *)
(* never full here (LiveRegistry models a hub that waits for one), and the  *)
(* delay of the backoff is left out: a sleep may end at any moment.  Prices *)
(* and times are left out: an event is the channel it came on.              *)
(***************************************************************************)
EXTENDS Naturals, Sequences, FiniteSets

CONSTANTS Pairs,      \* what may be asked for: records with class, sym, kind
          Accepted,   \* <<settings, credential>> pairs the server lets in
          Modes,      \* values of an enabled provider's settings
          Keys,       \* credentials
          None,
          FirstValues,\* <<settings, credential>> pairs at the start; None: disabled, missing
          MaxChanges, \* how often a watch is written
          MaxFaults,  \* failures of the socket or of a request on it
          MaxSubs,    \* subscriptions asked for
          MaxFetches  \* REST requests

ASSUME ProviderAssumption ==
  /\ MaxChanges \in Nat /\ MaxFaults \in Nat /\ MaxSubs \in Nat /\ MaxFetches \in Nat
  /\ \A p \in Pairs : p = [class |-> p.class, sym |-> p.sym, kind |-> p.kind]
  /\ None \notin {"served", "unsupported"}

VARIABLES
  settings,  \* [v, ver]: the settings watch; v = None when disabled
  cred,      \* [v, ver]: the credential watch
  alive,     \* the senders of both watches exist
  hub,       \* the hub task: its place, its receivers, what it resolved
  routes,    \* pairs with a sink
  told,      \* pair -> the last connection state its sink was told
  subs,      \* the aggregate subscription list
  upstream,  \* what the server streams on the present socket
  unapplied, \* the list could not be re-applied, and the routes were told
  crossed,   \* history: routes whose list entry a command for another pair took
  handle,    \* pair -> where the session's live handle is
  cmds,      \* the command channel
  owned,     \* the provider is constructed and not yet dropped
  rest,      \* the REST clients and their receivers
  budget

hubVars    == <<hub, routes, told, subs, upstream, unapplied, crossed>>
watches    == <<settings, cred, alive>>
handleVars == <<handle, cmds, owned>>
vars == <<watches, hubVars, handleVars, rest, budget>>

(* A receiver that was given up because the sender is gone: no version. *)
Gone == MaxChanges + 1

(* The hub at a place where it holds neither receivers nor values. *)
AtPc(pc) == [pc |-> pc, seenS |-> 0, seenC |-> 0, mode |-> None, useS |-> 0,
             key |-> None, useC |-> 0, park |-> None]

Init ==
  /\ \E first \in FirstValues :
       settings = [v |-> first[1], ver |-> 0] /\ cred = [v |-> first[2], ver |-> 0]
  /\ alive = TRUE
  /\ hub = AtPc("unspawned")
  /\ routes = {} /\ told = [p \in Pairs |-> "nothing"]
  /\ subs = {} /\ upstream = {} /\ unapplied = FALSE /\ crossed = {}
  /\ handle = [p \in Pairs |-> "none"] /\ cmds = <<>> /\ owned = FALSE
  /\ rest = [pc |-> "new", seenS |-> 0, seenC |-> 0, useS |-> 0, useC |-> 0,
             req |-> FALSE, fromS |-> 0, fromC |-> 0, got |-> None]
  /\ budget = [changes |-> MaxChanges, faults |-> MaxFaults, subs |-> MaxSubs,
               fetches |-> MaxFetches]

Spend(b) == budget[b] > 0 /\ budget' = [budget EXCEPT ![b] = @ - 1]

-----------------------------------------------------------------------------
(* The daemon's side of the watches.                                       *)

ChangeSettings(v) ==
  /\ alive /\ Spend("changes")
  /\ settings' = [v |-> v, ver |-> settings.ver + 1]
  /\ UNCHANGED <<cred, alive, hubVars, handleVars, rest>>

RotateCredentials(k) ==
  /\ alive /\ Spend("changes")
  /\ cred' = [v |-> k, ver |-> cred.ver + 1]
  /\ UNCHANGED <<settings, alive, hubVars, handleVars, rest>>

(* The daemon's hubs are gone: no further value can arrive. *)
SendersGone ==
  /\ alive /\ alive' = FALSE
  /\ UNCHANGED <<settings, cred, hubVars, handleVars, rest, budget>>

-----------------------------------------------------------------------------
(* The hub task's outer loop: resolve the sources, then connect.           *)

(* cfg.settings.watch(): a receiver to which the present value is not news. *)
TakeSettingsReceiver ==
  /\ hub.pc = "outer"
  /\ hub' = [hub EXCEPT !.pc = "settings", !.seenS = settings.ver]
  /\ UNCHANGED <<watches, routes, told, subs, upstream, unapplied, crossed, handleVars, rest, budget>>

Parked(why) == [hub EXCEPT !.pc = "parked", !.park = why, !.mode = None, !.key = None]

(* cfg.settings.current(): a disabled provider parks; otherwise the          *)
(* credential receiver is made before the credentials are read.              *)
ResolveSettings ==
  /\ hub.pc = "settings"
  /\ hub' = IF settings.v = None
              THEN Parked("disabled")
              ELSE [hub EXCEPT !.pc = "credentials", !.seenC = cred.ver,
                               !.mode = settings.v, !.useS = settings.ver]
  /\ UNCHANGED <<watches, routes, told, subs, upstream, unapplied, crossed, handleVars, rest, budget>>

(* Faulty variant: both receivers are made next to each other, after the    *)
(* settings were read.                                                      *)
ResolveCredentials_late ==
  /\ hub.pc = "credentials"
  /\ hub' = IF cred.v = None
              THEN Parked("missing")
              ELSE [hub EXCEPT !.pc = "connecting", !.key = cred.v, !.useC = cred.ver,
                               !.seenS = settings.ver]
  /\ UNCHANGED <<watches, routes, told, subs, upstream, unapplied, crossed, handleVars, rest, budget>>

(* cfg.credentials.current(): without credentials the hub parks.  (A source *)
(* that reads the environment or fixed credentials is one that never        *)
(* changes.)                                                                *)
ResolveCredentials ==
  /\ hub.pc = "credentials"
  /\ hub' = IF cred.v = None
              THEN Parked("missing")
              ELSE [hub EXCEPT !.pc = "connecting", !.key = cred.v, !.useC = cred.ver]
  /\ UNCHANGED <<watches, routes, told, subs, upstream, unapplied, crossed, handleVars, rest, budget>>

(* broadcast_control: every route is told. *)
Tell(state) == told' = [p \in Pairs |-> IF p \in routes THEN state ELSE told[p]]

(* Faulty variant: a fresh socket starts without subscriptions. *)
Connects_bare ==
  /\ hub.pc = "connecting" /\ <<hub.mode, hub.key>> \in Accepted
  /\ hub' = [hub EXCEPT !.pc = "connected", !.mode = None, !.key = None]
  /\ Tell("up")
  /\ upstream' = {} /\ unapplied' = FALSE
  /\ UNCHANGED <<watches, routes, subs, crossed, handleVars, rest, budget>>

(* The handshake succeeds: every route hears of it, and the aggregate list  *)
(* is applied to the fresh socket; when that fails the routes are told and  *)
(* the hub goes on.                                                         *)
Connects ==
  /\ hub.pc = "connecting" /\ <<hub.mode, hub.key>> \in Accepted
  /\ hub' = [hub EXCEPT !.pc = "connected", !.mode = None, !.key = None]
  /\ Tell("up")
  /\ \/ upstream' = subs /\ unapplied' = FALSE /\ UNCHANGED budget
     \/ subs # {} /\ Spend("faults") /\ upstream' = {} /\ unapplied' = TRUE
  /\ UNCHANGED <<watches, routes, subs, crossed, handleVars, rest>>

(* classify_stream_failure: rejected credentials park when the source can   *)
(* change, everything else backs off.                                       *)
AfterFailure(unauthenticated) ==
  IF unauthenticated /\ hub.seenC # Gone
    THEN Parked("rejected") ELSE AtPc("sleeping")

(* The server turns the credential away, or the connect fails.  At connect   *)
(* time every answer but "authenticated" is the same payload-less error: a   *)
(* connection limit parks the hub although the credential is good.           *)
ConnectFails ==
  /\ hub.pc = "connecting"
  /\ Tell("down")
  /\ \/ /\ <<hub.mode, hub.key>> \notin Accepted
        /\ hub' = AfterFailure(TRUE)
        /\ UNCHANGED budget
     \/ /\ Spend("faults")
        /\ \E unauthenticated \in BOOLEAN : hub' = AfterFailure(unauthenticated)
  /\ UNCHANGED <<watches, routes, subs, upstream, unapplied, crossed, handleVars, rest>>

(* The socket breaks, or the server rejects the credentials mid-stream. *)
SocketFails ==
  /\ hub.pc = "connected" /\ Spend("faults")
  /\ Tell("down")
  /\ \E unauthenticated \in BOOLEAN : hub' = AfterFailure(unauthenticated)
  /\ upstream' = {} /\ unapplied' = FALSE
  /\ UNCHANGED <<watches, routes, subs, crossed, handleVars, rest>>

(* A receiver reports a new value: the hub closes the socket and starts over *)
(* at once.                                                                  *)
HotReconnect ==
  /\ hub.pc = "connected"
  /\ \/ hub.seenC \notin {Gone, cred.ver}
     \/ hub.seenS \notin {Gone, settings.ver}
  /\ Tell("down")
  /\ hub' = AtPc("outer")
  /\ upstream' = {} /\ unapplied' = FALSE
  /\ UNCHANGED <<watches, routes, subs, crossed, handleVars, rest, budget>>

(* A receiver reports that its sender is gone: its arm of the select is      *)
(* switched off.                                                             *)
ForgetReceivers ==
  /\ hub.pc = "connected" /\ ~alive
  /\ \/ hub.seenC = cred.ver /\ hub' = [hub EXCEPT !.seenC = Gone]
     \/ hub.seenS = settings.ver /\ hub' = [hub EXCEPT !.seenS = Gone]
  /\ UNCHANGED <<watches, routes, told, subs, upstream, unapplied, crossed, handleVars, rest, budget>>

(* Faulty variant: every park waits for the settings. *)
Wakes_settings == hub.seenS # settings.ver

(* wait_for_provisioning: only the watch that was missing is waited for. *)
Wakes == \/ hub.park = "disabled" /\ hub.seenS # settings.ver
         \/ hub.park # "disabled" /\ hub.seenC # cred.ver

Provisioned ==
  /\ hub.pc = "parked" /\ Wakes
  /\ hub' = AtPc("outer")
  /\ UNCHANGED <<watches, routes, told, subs, upstream, unapplied, crossed, handleVars, rest, budget>>

SleepEnds ==
  /\ hub.pc = "sleeping"
  /\ hub' = AtPc("outer")
  /\ UNCHANGED <<watches, routes, told, subs, upstream, unapplied, crossed, handleVars, rest, budget>>

(* Every sender of the command channel is dropped: the task ends wherever it *)
(* waits for commands.                                                       *)
HubExits ==
  /\ hub.pc \in {"connected", "parked", "sleeping"}
  /\ ~owned /\ \A p \in Pairs : handle[p] = "none"
  /\ hub' = AtPc("exited")
  /\ routes' = {} /\ subs' = {} /\ told' = [p \in Pairs |-> "nothing"]
  /\ upstream' = {} /\ unapplied' = FALSE /\ crossed' = {}
  /\ UNCHANGED <<watches, handleVars, rest, budget>>

-----------------------------------------------------------------------------
(* Commands.                                                               *)

Cmd == Head(cmds)

(* supports: what each surface promises. *)
Streamed == {"trade", "quote", "bar1m", "bar1d"}
Intervals == {"bar1s", "bar1m", "bar5m", "bar15m", "bar1h", "bar1d"}
supports(p, surface) ==
  /\ p.class \in {"equity", "etf"}
  /\ CASE surface = "live"    -> p.kind \in Streamed
       [] surface = "history" -> p.kind \in {"trade", "quote"} \cup (Intervals \ {"bar1s"})

(* apply_pair_to_list: the field of the subscription list a pair belongs to, *)
(* and no field for an interval that is not streamed.  An entry is a symbol: *)
(* an equity and an ETF of one symbol share it.                              *)
Field(kind) == CASE kind = "trade" -> {"trades"} [] kind = "quote" -> {"quotes"}
                 [] kind = "bar1m" -> {"bars"} [] kind = "bar1d" -> {"daily_bars"}
                 [] OTHER -> {}
Listed(p) == {<<p.sym, f>> : f \in Field(p.kind)}

(* translate_stock_message and provider_instrument: what the messages of a  *)
(* subscribed list entry become.  An updated bar is a minute bar again, and *)
(* every instrument is an equity.                                           *)
Translated(entry) ==
  [class |-> "equity", sym |-> entry[1],
   kind |-> CASE entry[2] = "trades" -> "trade" [] entry[2] = "quotes" -> "quote"
              [] entry[2] = "bars" -> "bar1m" [] entry[2] = "daily_bars" -> "bar1d"]

(* dispatch_event and event_route_key: the pairs whose sinks the present    *)
(* socket feeds.                                                            *)
Fed == {Translated(e) : e \in upstream} \cap routes

(* What the session does with an answer.  Leaving is unsubscribe, and close *)
(* asks once more when that failed.                                         *)
Answered(ok) ==
  /\ handle' = [handle EXCEPT ![Cmd.p] =
       CASE @ = "subscribing" -> IF ok THEN "held" ELSE "none"
         [] @ = "leaving"     -> IF ok THEN "none" ELSE "closing"
         [] OTHER             -> "none"]
  /\ cmds' = IF handle'[Cmd.p] = "closing"
               THEN Append(Tail(cmds), [do |-> "unsubscribe", p |-> Cmd.p])
               ELSE Tail(cmds)

(* The other routes whose list entry goes with the entry of p.              *)
Sharing(p) == {q \in routes \ {p} : Listed(q) = Listed(p)}

(* A subscription on the open socket sends the whole list, and tells the    *)
(* new route that the provider is up; a refused one is rolled back, whoever *)
(* else the entry stood for.                                                *)
HubSubscribes ==
  /\ hub.pc = "connected" /\ cmds # <<>> /\ Cmd.do = "subscribe"
  /\ \/ /\ routes' = routes \cup {Cmd.p} /\ subs' = subs \cup Listed(Cmd.p)
        /\ upstream' = upstream \cup subs' /\ unapplied' = FALSE
        /\ crossed' = {q \in crossed : Listed(q) # Listed(Cmd.p)}
        /\ told' = [told EXCEPT ![Cmd.p] = "up"]
        /\ UNCHANGED budget
        /\ Answered(TRUE)
     \/ /\ Spend("faults")
        /\ routes' = routes \ {Cmd.p} /\ subs' = subs \ Listed(Cmd.p)
        /\ crossed' = (crossed \cup Sharing(Cmd.p)) \ {Cmd.p}
        /\ told' = [told EXCEPT ![Cmd.p] = "nothing"]
        /\ UNCHANGED <<upstream, unapplied>>
        /\ Answered(FALSE)
  /\ UNCHANGED <<watches, hub, owned, rest>>

(* The route goes after the server's acknowledgement; on a failure the pair  *)
(* is put back, for it is still streaming.                                   *)
HubUnsubscribes ==
  /\ hub.pc = "connected" /\ cmds # <<>> /\ Cmd.do = "unsubscribe"
  /\ \/ /\ subs' = subs \ Listed(Cmd.p) /\ upstream' = upstream \ Listed(Cmd.p)
        /\ routes' = routes \ {Cmd.p} /\ told' = [told EXCEPT ![Cmd.p] = "nothing"]
        /\ crossed' = (crossed \cup Sharing(Cmd.p)) \ {Cmd.p}
        /\ UNCHANGED budget
        /\ Answered(TRUE)
     \/ Spend("faults") /\ UNCHANGED <<routes, upstream, told, crossed>>
        /\ subs' = subs \cup Listed(Cmd.p) /\ Answered(FALSE)
  /\ UNCHANGED <<watches, hub, unapplied, owned, rest>>

(* Without a socket every command fails; one that arrives during the sleep   *)
(* also ends it.                                                             *)
HubRefuses ==
  /\ hub.pc \in {"parked", "sleeping"} /\ cmds # <<>>
  /\ Answered(FALSE)
  /\ hub' = IF hub.pc = "sleeping" THEN AtPc("outer") ELSE hub
  /\ UNCHANGED <<watches, routes, told, subs, upstream, unapplied, crossed, owned, rest, budget>>

(* start_live and subscribe; the first one spawns the hub (ensure_hub). *)
Subscribe(p) ==
  /\ owned /\ supports(p, "live") /\ handle[p] = "none" /\ Spend("subs")
  /\ handle' = [handle EXCEPT ![p] = "subscribing"]
  /\ cmds' = Append(cmds, [do |-> "subscribe", p |-> p])
  /\ hub' = IF hub.pc = "unspawned" THEN AtPc("outer") ELSE hub
  /\ UNCHANGED <<watches, routes, told, subs, upstream, unapplied, crossed, owned, rest>>

Leave(p) ==
  /\ handle[p] = "held"
  /\ handle' = [handle EXCEPT ![p] = "leaving"]
  /\ cmds' = Append(cmds, [do |-> "unsubscribe", p |-> p])
  /\ UNCHANGED <<watches, hubVars, owned, rest, budget>>

DropProvider ==
  /\ owned /\ owned' = FALSE
  /\ UNCHANGED <<watches, hubVars, handle, cmds, rest, budget>>

-----------------------------------------------------------------------------
(* The REST clients: rebuilt on use when a receiver reports a change.      *)

(* watch_changed: a receiver whose sender is gone counts as changed once and *)
(* is then forgotten.                                                        *)
changed(seen, ver) == seen # Gone /\ (seen # ver \/ ~alive)
Marked(seen, ver) == IF seen = Gone \/ ~alive THEN Gone ELSE ver

(* A request: rest_clients marks what has changed and rebuilds for it. *)
RestUse ==
  /\ owned /\ rest.pc = "ready" /\ Spend("fetches")
  /\ rest' = [rest EXCEPT !.req = TRUE, !.fromS = settings.ver, !.fromC = cred.ver,
                          !.seenC = Marked(@, cred.ver), !.seenS = Marked(@, settings.ver),
                          !.pc = IF \/ changed(rest.seenC, cred.ver)
                                    \/ changed(rest.seenS, settings.ver)
                                   THEN "build" ELSE "serve"]
  /\ UNCHANGED <<watches, hubVars, handleVars>>

(* new() and build_rest: the receivers exist already; the settings are read, *)
(* and then the credentials.                                                 *)
BuildSettings ==
  /\ rest.pc \in {"new", "build"}
  /\ rest' = [rest EXCEPT !.pc = "key", !.useS = settings.ver]
  /\ UNCHANGED <<watches, hubVars, handleVars, budget>>

BuildCredentials ==
  /\ rest.pc = "key"
  /\ rest' = [rest EXCEPT !.pc = IF rest.req THEN "serve" ELSE "ready",
                          !.useC = cred.ver]
  /\ owned' = (owned \/ ~rest.req)
  /\ UNCHANGED <<watches, hubVars, handle, cmds, budget>>

(* fetch_history_via: the time frame of a bar request. *)
TimeFrames == {"bar1m", "bar5m", "bar15m", "bar1h", "bar1d"}

(* fetch_history with the clients at hand; a sink that is gone ends it the  *)
(* same way as the last row.                                                *)
RestServe(p) ==
  /\ rest.pc = "serve" /\ supports(p, "history")
  /\ rest' = [rest EXCEPT !.pc = "ready", !.req = FALSE, !.fromS = 0, !.fromC = 0,
       !.got = IF p.kind \in TimeFrames \cup {"trade", "quote"}
                 THEN "served" ELSE "unsupported"]
  /\ UNCHANGED <<watches, hubVars, handleVars, budget>>

-----------------------------------------------------------------------------
HubStep ==
  \/ TakeSettingsReceiver \/ ResolveSettings \/ ResolveCredentials
  \/ Connects \/ ConnectFails \/ HotReconnect \/ ForgetReceivers \/ Provisioned
  \/ SleepEnds \/ HubSubscribes \/ HubUnsubscribes \/ HubRefuses \/ HubExits

Next ==
  \/ \E v \in Modes \cup {None} : ChangeSettings(v)
  \/ \E k \in Keys : RotateCredentials(k)
  \/ SendersGone
  \/ HubStep \/ SocketFails
  \/ \E p \in Pairs : Subscribe(p) \/ Leave(p)
  \/ DropProvider
  \/ RestUse \/ BuildSettings \/ BuildCredentials
  \/ \E p \in Pairs : RestServe(p)

Spec == Init /\ [][Next]_vars

(* The hub is one task on the runtime: a step it can take is taken. *)
FairSpec == Spec /\ WF_vars(HubStep)

-----------------------------------------------------------------------------
AnyMode == Modes \cup {first[1] : first \in FirstValues} \cup {None}
AnyKey  == Keys \cup {first[2] : first \in FirstValues} \cup {None}
HubState ==
  [pc : {"unspawned", "outer", "settings", "credentials", "connecting", "connected", "parked",
         "sleeping", "exited"},
   seenS : Nat, seenC : Nat, mode : AnyMode, useS : Nat,
   key : AnyKey, useC : Nat,
   park : {"disabled", "missing", "rejected", None}]
RestState ==
  [pc : {"new", "key", "ready", "build", "serve"}, seenS : Nat, seenC : Nat,
   useS : Nat, useC : Nat, req : BOOLEAN, fromS : Nat, fromC : Nat,
   got : {"served", "unsupported", None}]
Command == [do : {"subscribe", "unsubscribe"}, p : Pairs]

TypeOK ==
  /\ settings \in [v : AnyMode, ver : Nat]
  /\ cred \in [v : AnyKey, ver : Nat]
  /\ alive \in BOOLEAN /\ owned \in BOOLEAN /\ unapplied \in BOOLEAN
  /\ hub \in HubState /\ rest \in RestState
  /\ routes \subseteq Pairs /\ crossed \subseteq Pairs /\ told \in [Pairs -> {"nothing", "up", "down"}]
  /\ subs \subseteq UNION {Listed(p) : p \in Pairs} /\ upstream \subseteq UNION {Listed(p) : p \in Pairs}
  /\ handle \in [Pairs -> {"none", "subscribing", "held", "leaving", "closing"}]
  /\ cmds \in Seq(Command)
  /\ budget \in [{"changes", "faults", "subs", "fetches"} -> Nat]

(* A provider never goes on with a replaced value it will not hear about:   *)
(* the socket and the REST clients are built from the newest settings and   *)
(* credentials, or the receiver beside them reports the change (the receiver *)
(* is made before the value is read).                                       *)
NeverStale ==
  /\ hub.pc = "connected" =>
       /\ hub.useC = cred.ver \/ hub.seenC \notin {Gone, cred.ver}
       /\ hub.useS = settings.ver \/ hub.seenS \notin {Gone, settings.ver}
  /\ rest.pc = "serve" => rest.useC >= rest.fromC /\ rest.useS >= rest.fromS

(* What supports promised, as far as it is kept: an acknowledged             *)
(* subscription stays routed and in the aggregate list through failures,     *)
(* rollbacks and reconnects, and on an open socket an equity's messages are  *)
(* translated to the pair its sink is filed under (unless the routes were    *)
(* told that the list could not be applied); the connection state its sink   *)
(* last heard is the hub's (broadcast_control); and a history request that   *)
(* was accepted is one the REST surface serves.  What is not kept is in the  *)
(* open: an ETF, whose messages come back as an equity's, and a pair whose   *)
(* list entry was taken by a command for its namesake of the other class.    *)
PromiseKept ==
  /\ \A p \in Pairs : handle[p] = "held" =>
       /\ p \in routes /\ (told[p] = "up" <=> hub.pc = "connected")
       /\ p \notin crossed =>
            /\ Listed(p) \subseteq subs
            /\ hub.pc = "connected" /\ ~unapplied /\ p.class = "equity" => p \in Fed
  /\ \A p \in crossed : \E q \in Pairs : q.class # p.class /\ Listed(q) = Listed(p)
  /\ rest.got # "unsupported"

(* What the README says of the two classes ("the same ticker can name an     *)
(* equity and an ETF"), and supports of both: whoever holds a pair is fed by *)
(* the open socket.  The code does not do so.                                *)
EveryHolderFed ==
  \A p \in Pairs :
    handle[p] = "held" /\ hub.pc = "connected" /\ ~unapplied => p \in Fed

(***************************************************************************)
(* What makes them so.                                                     *)
(***************************************************************************)

(* Every version stays below the number that stands for a lost sender.      *)
Counted == settings.ver + cred.ver + budget.changes = MaxChanges

(* A receiver is not ahead of its watch, and is given up only when no value *)
(* can come any more.                                                       *)
Heard(seen, ver) == seen <= ver \/ (seen = Gone /\ ~alive)
(* A value in use is the newest, or news is waiting at the receiver.        *)
Fresh(use, seen, ver) == use = ver \/ seen \notin {Gone, ver}

HubFresh ==
  /\ Heard(hub.seenS, settings.ver) /\ Heard(hub.seenC, cred.ver)
  /\ hub.pc \in {"credentials", "connecting", "connected"} => Fresh(hub.useS, hub.seenS, settings.ver)
  /\ hub.pc \in {"connecting", "connected"} => Fresh(hub.useC, hub.seenC, cred.ver)

RestFresh ==
  /\ Heard(rest.seenS, settings.ver) /\ Heard(rest.seenC, cred.ver)
  /\ rest.fromS <= settings.ver /\ rest.fromC <= cred.ver
  /\ rest.pc \in {"key", "ready", "serve"} => Fresh(rest.useS, rest.seenS, settings.ver)
  /\ rest.pc \in {"ready", "serve"} => Fresh(rest.useC, rest.seenC, cred.ver)
  /\ rest.pc \in {"key", "serve"} => rest.useS >= rest.fromS
  /\ rest.pc = "serve" => rest.useC >= rest.fromC

(* The commands under way: one for each handle that waits for an answer,    *)
(* and only for pairs the provider supports.                                *)
Asked ==
  /\ \A i \in 1 .. Len(cmds) :
       /\ cmds[i].do = "subscribe" => handle[cmds[i].p] = "subscribing"
       /\ cmds[i].do = "unsubscribe" => handle[cmds[i].p] \in {"leaving", "closing"}
       /\ \A j \in 1 .. Len(cmds) : cmds[i].p = cmds[j].p => i = j
  /\ \A p \in Pairs : handle[p] # "none" => supports(p, "live")

(* PromiseKept, with the entries of the list instead of what becomes of     *)
(* their messages, and for ETFs too.                                        *)
Held ==
  /\ \A p \in Pairs : handle[p] = "held" =>
       /\ p \in routes /\ (told[p] = "up" <=> hub.pc = "connected")
       /\ p \notin crossed =>
            /\ Listed(p) \subseteq subs
            /\ hub.pc = "connected" /\ ~unapplied => Listed(p) \subseteq upstream
  /\ \A p \in crossed : \E q \in Pairs : q.class # p.class /\ Listed(q) = Listed(p)
  /\ \A p \in routes : supports(p, "live")
  /\ rest.got # "unsupported"

ProviderInv == TypeOK /\ Counted /\ HubFresh /\ RestFresh /\ Asked /\ Held

(* A provider that is enabled and has credentials gets connected with the    *)
(* newest of both, whatever order they came in, however often it failed and  *)
(* however often it was switched off and on; the exceptions are a provider   *)
(* nobody uses and one that parked because the server turned its newest      *)
(* credential away, which only another credential can wake.                  *)
Recovers ==
  []<>(\/ hub.pc \in {"unspawned", "exited"} \/ settings.v = None \/ cred.v = None
       \/ hub.pc = "parked" /\ hub.park = "rejected" /\ hub.useC = cred.ver
       \/ hub.pc = "connected" /\ hub.useC = cred.ver /\ hub.useS = settings.ver)

(* What the comments at both rejections say: such a park ends on "a rotation *)
(* or disable".  wait_for_provisioning is given the credential receiver      *)
(* only.                                                                     *)
DisableEndsPark ==
  hub.park = "rejected" /\ settings.v = None ~> hub.park # "rejected" \/ settings.v # None

=============================================================================

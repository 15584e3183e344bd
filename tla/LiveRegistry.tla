---------------------------- MODULE LiveRegistry ----------------------------
(***************************************************************************)
(* The life of the authoritative sessions of one (instrument, kind) pair:  *)
(* the registry slot and its openers (crates/datamancer/src/session.rs,    *)
(* authoritative and create_authoritative; client.rs, AuthoritativeSession *)
(* and SubscriberGuard), the controllers as far as they start, join and    *)
(* tear down (run_live; what they deliver is in FanOut), and the shared    *)
(* connection hub of the provider (providers/alpaca_crypto.rs,             *)
(* run_hub_task and SharedLiveHandle).                                     *)
(*                                                                         *)
(* A call of `authoritative` is a member of Calls, and the session a call  *)
(* creates goes by the call's name.                                        *)
(***************************************************************************)
EXTENDS Integers, Sequences, FiniteSets

CONSTANTS
    Calls,         \* openers, each calling `authoritative` once
    None,          \* no session
    ProviderCap,   \* capacity of a session's provider channel
    MaxEvents      \* bound: messages, failures and reconnects of the websocket

ASSUME RegistryAssumption ==
    /\ None \notin Calls
    /\ ProviderCap \in Nat /\ ProviderCap >= 2 /\ MaxEvents \in Nat

VARIABLES
    pc,         \* per call: where its opener is
    on,         \* per call: the session it joins or joined
    slot,       \* the registry's Weak for the pair
    dying,      \* sessions whose last Arc is gone and whose Drop is running
    ctl,        \* per session: its controller
    fan,        \* per session: ids in its fan-out
    removals,   \* ids queued for removal by dropped guards
    queued,     \* per session: events in its provider channel
    conn,       \* the hub's websocket: "up" or "down"
    subscribed, \* the hub's subscription list holds the pair
    route,      \* the session whose sink the hub's route for the pair names
    sending,    \* the session whose full channel the hub may be waiting on
    commands,   \* the hub's command channel
    events      \* messages, failures and reconnects so far

openers == <<pc, on>>
registry == <<slot, dying>>
controllers == <<ctl, fan, removals>>
hub == <<conn, subscribed, route, sending, events>>
vars == <<openers, registry, controllers, queued, hub, commands>>

Command == [op : {"subscribe", "unsubscribe"}, session : Calls]

(* The calls that hold an Arc of session s: Weak::upgrade succeeds on it   *)
(* while there is one.                                                     *)
Holding == {"adding", "rejoining", "starting", "attached", "closing"}
Strong(s) == {c \in Calls : on[c] = s /\ pc[c] \in Holding}
Upgrades(s) == s # None /\ Strong(s) # {}

(* Call c gives up its Arc; with the last one the session's Drop runs.     *)
Release(c) == dying' = IF Strong(on[c]) = {c} THEN dying \cup {on[c]} ELSE dying

-----------------------------------------------------------------------------
(* Openers.                                                                *)

(* authoritative: probe the slot, and share what is there.                 *)
Probe(c) ==
    /\ pc[c] = "idle"
    /\ IF Upgrades(slot)
       THEN pc' = [pc EXCEPT ![c] = "adding"] /\ on' = [on EXCEPT ![c] = slot]
       ELSE pc' = [pc EXCEPT ![c] = "creating"] /\ UNCHANGED on
    /\ UNCHANGED <<registry, controllers, queued, hub, commands>>

(* Faulty variant: the slot is claimed without the second check.           *)
Claim_unchecked(c) ==
    /\ pc[c] = "creating"
    /\ pc' = [pc EXCEPT ![c] = "starting"]
    /\ on' = [on EXCEPT ![c] = c]
    /\ slot' = c
    /\ ctl' = [ctl EXCEPT ![c] = "starting"]
    /\ fan' = [fan EXCEPT ![c] = {c}]
    /\ commands' = Append(commands, [op |-> "subscribe", session |-> c])
    /\ UNCHANGED <<dying, removals, queued, hub>>

(* create_authoritative: check again under the lock and defer to a racing  *)
(* winner, or claim the slot, seed the fan-out and ask the hub to          *)
(* subscribe.                                                              *)
Defer(c) ==
    /\ pc[c] = "creating" /\ Upgrades(slot)
    /\ pc' = [pc EXCEPT ![c] = "rejoining"]
    /\ on' = [on EXCEPT ![c] = slot]
    /\ UNCHANGED <<registry, controllers, queued, hub, commands>>

Create(c) ==
    /\ pc[c] = "creating" /\ ~Upgrades(slot)
    /\ pc' = [pc EXCEPT ![c] = "starting"]
    /\ on' = [on EXCEPT ![c] = c]
    /\ slot' = c
    /\ ctl' = [ctl EXCEPT ![c] = "starting"]
    /\ fan' = [fan EXCEPT ![c] = {c}]
    /\ commands' = Append(commands, [op |-> "subscribe", session |-> c])
    /\ UNCHANGED <<dying, removals, queued, hub>>

Claim(c) == Defer(c) \/ Create(c)

(* Faulty variant: a dead winner's acknowledgement is awaited for ever.    *)
AddFails_first(c) ==
    /\ pc[c] = "adding" /\ ctl[on[c]] = "gone"
    /\ pc' = [pc EXCEPT ![c] = "creating"]
    /\ Release(c)
    /\ UNCHANGED <<on, slot, controllers, queued, hub, commands>>

(* add_subscriber failed: the session's controller is gone.  The first     *)
(* attempt falls through to creation, the second is the caller's error.    *)
AddFails(c) ==
    /\ pc[c] \in {"adding", "rejoining"} /\ ctl[on[c]] = "gone"
    /\ pc' = [pc EXCEPT ![c] = IF @ = "adding" THEN "creating" ELSE "SessionClosed"]
    /\ Release(c)
    /\ UNCHANGED <<on, slot, controllers, queued, hub, commands>>

(* The caller drops its open() future while the hub has yet to answer.     *)
CancelOpen(c) ==
    /\ pc[c] = "starting"
    /\ pc' = [pc EXCEPT ![c] = "cancelled"]
    /\ ctl' = [ctl EXCEPT ![c] = "gone"]
    /\ Release(c)
    /\ UNCHANGED <<on, slot, fan, removals, queued, hub, commands>>

(* The caller drops it while its AddSubscriber is being sent or is queued: *)
(* a queued one stays, for a receiver that is gone.                        *)
CancelJoin(c) ==
    /\ pc[c] \in {"adding", "rejoining"}
    /\ \E state \in {"abandoned", "cancelled"} : pc' = [pc EXCEPT ![c] = state]
    /\ Release(c)
    /\ UNCHANGED <<on, slot, controllers, queued, hub, commands>>

(* SubscriberGuard::drop queues the removal; the Arc goes with it, or a    *)
(* little later when the handle kept one of its own.                       *)
DropGuard(c) ==
    /\ pc[c] = "attached"
    /\ pc' = [pc EXCEPT ![c] = "closing"]
    /\ removals' = removals \cup {c}
    /\ UNCHANGED <<on, registry, ctl, fan, queued, hub, commands>>

DropArc(c) ==
    /\ pc[c] = "closing"
    /\ pc' = [pc EXCEPT ![c] = "left"]
    /\ Release(c)
    /\ UNCHANGED <<on, slot, controllers, queued, hub, commands>>

(* AuthoritativeSession::drop: clear the slot unless a successor took it.  *)
ClearsSlot == slot # None /\ Strong(slot) = {}

ClearSlot(s) ==
    /\ s \in dying
    /\ dying' = dying \ {s}
    /\ slot' = IF ClearsSlot THEN None ELSE slot
    /\ UNCHANGED <<openers, controllers, queued, hub, commands>>

-----------------------------------------------------------------------------
(* Controllers.                                                            *)

(* Faulty variant: the last referrer counts as none.                       *)
Empty_early(s) == Cardinality(fan[s]) <= 1

(* The checks at the top of run_live's loop, and its removal channel       *)
(* closing with the last Arc.                                              *)
Empty(s) == fan[s] = {}
ShouldStop(s) == Empty(s) \/ (Strong(s) = {} /\ \A c \in removals : on[c] # s)

AddSubscriber(c) ==
    /\ pc[c] \in {"adding", "rejoining"}
    /\ ctl[on[c]] = "running" /\ ~Empty(on[c])
    /\ pc' = [pc EXCEPT ![c] = "attached"]
    /\ fan' = [fan EXCEPT ![on[c]] = @ \cup {c}]
    /\ UNCHANGED <<on, registry, ctl, removals, queued, hub, commands>>

(* The controller serves the command of a caller that has gone.            *)
AddAbandoned(c) ==
    /\ pc[c] = "abandoned"
    /\ ctl[on[c]] = "running" /\ ~Empty(on[c])
    /\ pc' = [pc EXCEPT ![c] = "cancelled"]
    /\ fan' = [fan EXCEPT ![on[c]] = @ \cup {c}]
    /\ UNCHANGED <<on, registry, ctl, removals, queued, hub, commands>>

RemoveSubscriber(c) ==
    /\ c \in removals /\ ctl[on[c]] = "running"
    /\ removals' = removals \ {c}
    /\ fan' = [fan EXCEPT ![on[c]] = @ \ {c}]
    /\ UNCHANGED <<openers, registry, ctl, queued, hub, commands>>

(* A provider event is fanned out; closed referrers are pruned.            *)
Forward(s) ==
    /\ ctl[s] = "running" /\ ~Empty(s) /\ queued[s] > 0
    /\ queued' = [queued EXCEPT ![s] = @ - 1]
    /\ fan' = [fan EXCEPT ![s] = {c \in @ : pc[c] = "attached"}]
    /\ UNCHANGED <<openers, registry, ctl, removals, hub, commands>>

(* teardown_upstream: ask the hub to unsubscribe and wait for the answer.  *)
Teardown(s) ==
    /\ ctl[s] = "running" /\ ShouldStop(s)
    /\ ctl' = [ctl EXCEPT ![s] = "unsubscribing"]
    /\ commands' = Append(commands, [op |-> "unsubscribe", session |-> s])
    /\ UNCHANGED <<openers, registry, fan, removals, queued, hub>>

-----------------------------------------------------------------------------
(* The hub: one task, one thing at a time.                                 *)

HasReceiver(s) == ctl[s] # "gone"
CanSend(s) == HasReceiver(s) => queued[s] < ProviderCap
Sent(s, n) == IF HasReceiver(s) THEN [queued EXCEPT ![s] = @ + n] ELSE queued

(* Serving command op of session s.                                        *)
Serves(op, s) ==
    /\ sending = None /\ commands # <<>>
    /\ Head(commands) = [op |-> op, session |-> s]
    /\ commands' = Tail(commands)

(* Subscribe: the route and the list are set before the upstream call.     *)
HubSubscribes(s) ==
    /\ Serves("subscribe", s) /\ conn = "up"
    /\ route' = s /\ subscribed' = TRUE
    /\ queued' = Sent(s, 2)   \* ProviderConnected, SubscriptionChanged
    /\ IF pc[s] = "starting"
       THEN /\ pc' = [pc EXCEPT ![s] = "attached"]
            /\ ctl' = [ctl EXCEPT ![s] = "running"]
       ELSE UNCHANGED <<pc, ctl>>
    /\ UNCHANGED <<on, registry, fan, removals, conn, sending, events>>

(* It failed, and was rolled back, or the hub is between connections.      *)
HubRefuses(s) ==
    /\ Serves("subscribe", s)
    /\ \/ conn = "up" /\ route' = None /\ subscribed' = FALSE
       \/ conn = "down" /\ UNCHANGED <<route, subscribed>>
    /\ IF pc[s] = "starting"
       THEN /\ pc' = [pc EXCEPT ![s] = "failed"]
            /\ ctl' = [ctl EXCEPT ![s] = "gone"]
            /\ Release(s)
       ELSE UNCHANGED <<pc, ctl, dying>>
    /\ UNCHANGED <<on, slot, fan, removals, queued, conn, sending, events>>

(* Unsubscribe: the pair leaves the list, then whatever route it has is    *)
(* removed and told, then the ack is sent.                                 *)
HubUnsubscribes(s) ==
    /\ Serves("unsubscribe", s) /\ conn = "up"
    /\ route # None => CanSend(route)
    /\ subscribed' = FALSE /\ route' = None
    /\ ctl' = [ctl EXCEPT ![s] = "gone"]
    /\ queued' = IF route = None THEN queued ELSE Sent(route, 1)
    /\ UNCHANGED <<openers, registry, fan, removals, conn, sending, events>>

(* Faulty variant: a failed Unsubscribe is dropped without an answer.      *)
HubKeeps_silent(s) ==
    /\ Serves("unsubscribe", s)
    /\ UNCHANGED <<openers, registry, controllers, queued, hub>>

(* Unsubscribe failed: the handle still names the pair, so its close sends *)
(* one more and then gives up.                                             *)
HubKeeps(s) ==
    /\ sending = None /\ commands # <<>>
    /\ Head(commands) = [op |-> "unsubscribe", session |-> s]
    /\ conn = "up" => subscribed' = TRUE
    /\ conn = "down" => UNCHANGED subscribed
    /\ \/ /\ ctl[s] = "unsubscribing"
          /\ ctl' = [ctl EXCEPT ![s] = "closing"]
          /\ commands' = Append(Tail(commands), Head(commands))
       \/ /\ ctl[s] = "closing"
          /\ ctl' = [ctl EXCEPT ![s] = "gone"]
          /\ commands' = Tail(commands)
    /\ UNCHANGED <<openers, registry, fan, removals, queued, conn, route, sending,
                   events>>

(* A data message goes to the route, if there is one.                      *)
HubMessage ==
    /\ sending = None /\ conn = "up" /\ subscribed /\ route # None
    /\ events < MaxEvents
    /\ events' = events + 1
    /\ sending' = route
    /\ UNCHANGED <<openers, registry, controllers, queued, conn, subscribed, route,
                   commands>>

HubSends ==
    /\ sending # None /\ CanSend(sending)
    /\ queued' = Sent(sending, 1)
    /\ sending' = None
    /\ UNCHANGED <<openers, registry, controllers, conn, subscribed, route, commands,
                   events>>

(* The websocket fails or is re-established; every route is told.  The     *)
(* subscription list is applied again on the new socket.                   *)
HubConnection ==
    /\ sending = None /\ events < MaxEvents
    /\ route # None => CanSend(route)
    /\ events' = events + 1
    /\ conn' = IF conn = "up" THEN "down" ELSE "up"
    /\ queued' = IF route = None THEN queued ELSE Sent(route, 1)
    /\ UNCHANGED <<openers, registry, controllers, subscribed, route, sending,
                   commands>>

-----------------------------------------------------------------------------
Init ==
    /\ pc = [c \in Calls |-> "idle"] /\ on = [c \in Calls |-> None]
    /\ slot = None /\ dying = {}
    /\ ctl = [s \in Calls |-> "none"] /\ fan = [s \in Calls |-> {}]
    /\ removals = {} /\ queued = [s \in Calls |-> 0]
    /\ conn = "up" /\ subscribed = FALSE /\ route = None /\ sending = None
    /\ commands = <<>> /\ events = 0

Opener(c) == Probe(c) \/ Claim(c) \/ AddFails(c)
Leaving(c) == CancelOpen(c) \/ CancelJoin(c) \/ DropGuard(c) \/ DropArc(c)
Controller(s) == Forward(s) \/ Teardown(s)
HubCommand(s) ==
    HubSubscribes(s) \/ HubRefuses(s) \/ HubUnsubscribes(s) \/ HubKeeps(s)

Next ==
    \/ \E c \in Calls : Opener(c) \/ Leaving(c) \/ ClearSlot(c)
    \/ \E c \in Calls : AddSubscriber(c) \/ AddAbandoned(c) \/ RemoveSubscriber(c)
    \/ \E s \in Calls : Controller(s) \/ HubCommand(s)
    \/ HubMessage \/ HubSends \/ HubConnection

Spec == Init /\ [][Next]_vars

(***************************************************************************)
(* The runtime polls every ready task; select! picks among ready arms at   *)
(* random, so a controller's commands, removals and events, and the hub's  *)
(* commands, are not passed over for ever.  Whether callers open, leave or *)
(* cancel, and what the websocket does, is free.  An Unsubscribe that the  *)
(* provider has carried out cannot fail any more: the hub waits for room   *)
(* for the route's notice before it answers.                               *)
(***************************************************************************)
NoticeWaits ==
    /\ conn = "up" /\ commands # <<>> /\ Head(commands).op = "unsubscribe"
    /\ route # None /\ ~CanSend(route)

Fairness ==
    /\ \A c \in Calls : /\ WF_vars(Claim(c)) /\ WF_vars(AddFails(c))
                        /\ WF_vars(ClearSlot(c)) /\ WF_vars(DropArc(c))
                        /\ SF_vars(AddSubscriber(c)) /\ SF_vars(RemoveSubscriber(c))
    /\ \A s \in Calls : WF_vars(Controller(s)) /\ SF_vars(HubCommand(s) /\ ~NoticeWaits)
    /\ WF_vars(HubSends)

FairSpec == Spec /\ Fairness

-----------------------------------------------------------------------------
OpenerStates ==
    {"idle", "adding", "creating", "rejoining", "starting", "attached", "closing",
     "left", "abandoned", "cancelled", "failed", "SessionClosed"}
ControllerStates == {"none", "starting", "running", "unsubscribing", "closing", "gone"}

TypeOK ==
    /\ pc \in [Calls -> OpenerStates]
    /\ on \in [Calls -> Calls \cup {None}]
    /\ slot \in Calls \cup {None} /\ dying \subseteq Calls
    /\ ctl \in [Calls -> ControllerStates]
    /\ fan \in [Calls -> SUBSET Calls] /\ removals \subseteq Calls
    /\ queued \in [Calls -> 0..ProviderCap]
    /\ conn \in {"up", "down"} /\ subscribed \in BOOLEAN
    /\ route \in Calls \cup {None} /\ sending \in Calls \cup {None}
    /\ commands \in Seq(Command) /\ events \in 0..MaxEvents

(***************************************************************************)
(* One source per pair: referrers attached at the same time are attached   *)
(* to the same session (or `seq` would mean two things to two clients),    *)
(* though the slot is probed, re-checked and cleared in separate critical  *)
(* sections and a session's Drop may run after its successor claimed it.   *)
(***************************************************************************)
OneSource ==
    \A c, d \in Calls : pc[c] = "attached" /\ pc[d] = "attached" => on[c] = on[d]

(***************************************************************************)
(* An attached referrer is served: its session's controller runs and has   *)
(* it in the fan-out.  A join that races the teardown of the last referrer *)
(* is either acknowledged before the decision or refused.                  *)
(***************************************************************************)
AttachedServed ==
    \A c \in Calls :
        pc[c] = "attached" => ctl[on[c]] = "running" /\ c \in fan[on[c]]

(***************************************************************************)
(* A session somebody references can be found: nobody who probes the slot  *)
(* creates a second one beside it.                                         *)
(***************************************************************************)
SlotFinds == \A s \in Calls : Strong(s) # {} => slot = s

(***************************************************************************)
(* The inductive strengthening of the three properties above.  Whoever     *)
(* holds an Arc holds that of the session in the slot; a session starts    *)
(* under its opener's name, alone and with an empty channel, and nobody is *)
(* routed to it before the hub subscribed; a queued removal is that of a   *)
(* dropped guard; a queued command fits the life of its session, which is  *)
(* subscribed at most once.                                                *)
(***************************************************************************)
HoldersOnSlot == \A c \in Calls : pc[c] \in Holding => on[c] = slot /\ slot # None

Starting ==
    \A c \in Calls :
        /\ pc[c] = "starting" <=> ctl[c] = "starting"
        /\ pc[c] = "starting" => on[c] = c /\ c \in fan[c]

Unrouted ==
    \A s \in Calls : ctl[s] \in {"none", "starting"} =>
        queued[s] = 0 /\ route # s /\ sending # s

Fresh == \A c \in Calls : pc[c] \in {"idle", "adding", "creating"} => ctl[c] = "none"

RemovalsLeft == \A c \in removals : pc[c] \in {"closing", "left"}

Fits(k, life) ==
    life[k.session] \in IF k.op = "subscribe" THEN {"starting", "gone"}
                        ELSE {"unsubscribing", "closing", "gone"}

AllFit(q, life) ==
    /\ \A i \in 1..Len(q) : Fits(q[i], life)
    /\ \A i, j \in 1..Len(q) : q[i].op = "subscribe" /\ q[j] = q[i] => i = j

CommandsFit == AllFit(commands, ctl)

RegistryInv ==
    /\ TypeOK /\ HoldersOnSlot /\ Starting /\ Unrouted /\ Fresh
    /\ RemovalsLeft /\ CommandsFit /\ AttachedServed

(***************************************************************************)
(* The hub waits for room in the channel of a controller that waits for    *)
(* the hub's answer (teardown_upstream no longer drains it).               *)
(***************************************************************************)
Stalled ==
    \E s \in {route, sending} \ {None} :
        ctl[s] \in {"unsubscribing", "closing"} /\ queued[s] = ProviderCap

(***************************************************************************)
(* Every call of `authoritative` returns, unless the hub is stalled for    *)
(* good.                                                                   *)
(***************************************************************************)
OpenReturns ==
    \A c \in Calls :
        pc[c] \in {"adding", "creating", "rejoining", "starting"}
            ~> \/ pc[c] \notin {"adding", "creating", "rejoining", "starting"}
               \/ []Stalled

(***************************************************************************)
(* A teardown that has begun ends, whatever fails and whoever joins        *)
(* meanwhile: the one thing that can hold it up is the stall, its own or   *)
(* another controller's.                                                   *)
(***************************************************************************)
OnlyStallHoldsUp ==
    \A s \in Calls : ctl[s] = "unsubscribing" ~> ctl[s] = "gone" \/ []Stalled

(***************************************************************************)
(* client.rs, Lifecycle: "When the last referrer drops, the controller     *)
(* runs upstream `unsubscribe` + `close` and exits".                       *)
(***************************************************************************)
TeardownCompletes ==
    \A s \in Calls : ctl[s] = "unsubscribing" ~> ctl[s] = "gone"

-----------------------------------------------------------------------------
(* Nothing is in flight between the hub, the controllers and the openers.  *)
Settled == commands = <<>> /\ conn = "up" /\ sending = None

(***************************************************************************)
(* The authoritative session is the singleton "that owns the provider      *)
(* connection": once the hub has answered everything, the route of the     *)
(* pair leads to the session that has referrers.                           *)
(***************************************************************************)
RouteOwned ==
    Settled => \A c \in Calls : pc[c] = "attached" => route = on[c] /\ subscribed

=============================================================================

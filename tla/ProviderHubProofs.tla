-------------------------- MODULE ProviderHubProofs --------------------------
(***************************************************************************)
(* Machine-checked proofs about ProviderHub: for any pairs, settings and   *)
(* credentials, and any number of changes, failures and subscriptions,     *)
(* nobody goes on with a replaced value and no acknowledged subscription   *)
(* is lost.                                                                *)
(***************************************************************************)
EXTENDS ProviderHub, TLAPS

Pcs == {"unspawned", "outer", "settings", "credentials", "connecting", "connected", "parked",
        "sleeping", "exited"}
Entries == UNION {Listed(p) : p \in Pairs}

(* The hub at a place where it holds nothing has heard no value.            *)
LEMMA AtPcIs ==
  ASSUME NEW pc \in Pcs
  PROVE  AtPc(pc) \in HubState /\ AtPc(pc).pc = pc /\ AtPc(pc).seenS = 0 /\ AtPc(pc).seenC = 0
  BY DEF AtPc, HubState, Pcs, AnyMode, AnyKey

(* A parked hub keeps its receivers.                                        *)
LEMMA ParkedIs ==
  ASSUME TypeOK, NEW why \in {"disabled", "missing", "rejected"}
  PROVE  /\ Parked(why) \in HubState /\ Parked(why).pc = "parked"
         /\ Parked(why).seenS = hub.seenS /\ Parked(why).seenC = hub.seenC
  BY DEF TypeOK, HubState, Parked, AnyMode, AnyKey

(* After a failure it parks with its receivers or sleeps without.           *)
LEMMA AfterFailureIs ==
  ASSUME TypeOK, NEW u \in BOOLEAN
  PROVE  /\ AfterFailure(u) \in HubState /\ AfterFailure(u).pc \in {"parked", "sleeping"}
         /\ \/ AfterFailure(u).seenS = hub.seenS /\ AfterFailure(u).seenC = hub.seenC
            \/ AfterFailure(u).seenS = 0 /\ AfterFailure(u).seenC = 0
  BY ParkedIs, AtPcIs DEF AfterFailure, Pcs

(* The numbers of the state.                                                *)
LEMMA Numbers ==
  ASSUME TypeOK
  PROVE  /\ settings.ver \in Nat /\ cred.ver \in Nat /\ Gone \in Nat /\ MaxChanges \in Nat
         /\ hub.seenS \in Nat /\ hub.seenC \in Nat /\ hub.useS \in Nat /\ hub.useC \in Nat
         /\ rest.seenS \in Nat /\ rest.seenC \in Nat /\ rest.useS \in Nat /\ rest.useC \in Nat
         /\ rest.fromS \in Nat /\ rest.fromC \in Nat /\ budget.changes \in Nat
         /\ hub.pc \in Pcs
  <1>1. hub \in HubState /\ rest \in RestState
    BY DEF TypeOK
  <1>2. /\ hub.seenS \in Nat /\ hub.seenC \in Nat /\ hub.useS \in Nat /\ hub.useC \in Nat
        /\ hub.pc \in Pcs
    BY <1>1 DEF HubState, Pcs
  <1>3. /\ rest.seenS \in Nat /\ rest.seenC \in Nat /\ rest.useS \in Nat /\ rest.useC \in Nat
        /\ rest.fromS \in Nat /\ rest.fromC \in Nat
    BY <1>1 DEF RestState
  <1>4. settings.ver \in Nat /\ cred.ver \in Nat /\ budget.changes \in Nat
    BY DEF TypeOK
  <1>5. Gone \in Nat /\ MaxChanges \in Nat
    BY ProviderAssumption DEF Gone
  <1> QED
    BY <1>2, <1>3, <1>4, <1>5

(* Something spent: one less, and the rest as it was.                       *)
LEMMA SpendIs ==
  ASSUME TypeOK, NEW b \in {"changes", "faults", "subs", "fetches"}, Spend(b)
  PROVE  /\ budget' \in [{"changes", "faults", "subs", "fetches"} -> Nat]
         /\ budget'[b] = budget[b] - 1
         /\ b # "changes" => budget'["changes"] = budget["changes"]
  BY DEF TypeOK, Spend

(* Every connection state is told to the routes alone.                      *)
LEMMA TellIs ==
  ASSUME TypeOK, NEW state \in {"up", "down"}, Tell(state)
  PROVE  /\ told' \in [Pairs -> {"nothing", "up", "down"}]
         /\ \A p \in Pairs : p \in routes => told'[p] = state
  BY DEF TypeOK, Tell

(* Pairs the provider streams have the same list entry or none in common.   *)
LEMMA ListedApart ==
  ASSUME NEW p \in Pairs, NEW q \in Pairs, supports(p, "live"), supports(q, "live")
  PROVE  Listed(p) = Listed(q) \/ Listed(p) \cap Listed(q) = {}
  <1>1. p.kind \in Streamed /\ q.kind \in Streamed
    BY DEF supports
  <1>2. CASE p.sym = q.sym /\ p.kind = q.kind
    BY <1>2 DEF Listed
  <1>3. ASSUME p.sym # q.sym \/ p.kind # q.kind, NEW e \in Listed(p), e \in Listed(q)
        PROVE  FALSE
    <2>1. PICK f \in Field(p.kind) : e = <<p.sym, f>>
      BY DEF Listed
    <2>2. PICK g \in Field(q.kind) : e = <<q.sym, g>>
      BY <1>3 DEF Listed
    <2>3. p.sym = q.sym /\ f = g
      BY <2>1, <2>2
    <2>4. p.kind = q.kind
      BY <1>1, <2>3 DEF Field, Streamed
    <2> QED
      BY <1>3, <2>3, <2>4
  <1> QED
    BY <1>2, <1>3

(* Two pairs the provider streams with one list entry differ in their class *)
(* alone.                                                                   *)
LEMMA NamesakesDiffer ==
  ASSUME NEW p \in Pairs, NEW q \in Pairs, supports(p, "live"), supports(q, "live"), p # q,
         Listed(p) = Listed(q)
  PROVE  p.class # q.class
  <1>1. /\ p = [class |-> p.class, sym |-> p.sym, kind |-> p.kind]
        /\ q = [class |-> q.class, sym |-> q.sym, kind |-> q.kind]
    BY ProviderAssumption
  <1>2. p.kind \in Streamed /\ q.kind \in Streamed
    BY DEF supports
  <1>3. PICK f : f \in Field(p.kind)
    BY <1>2 DEF Field, Streamed
  <1>4. <<p.sym, f>> \in Listed(q)
    BY <1>3 DEF Listed
  <1>5. PICK g \in Field(q.kind) : <<p.sym, f>> = <<q.sym, g>>
    BY <1>4 DEF Listed
  <1>6. p.sym = q.sym /\ f = g
    BY <1>5
  <1>7. p.kind = q.kind
    BY <1>2, <1>3, <1>5, <1>6 DEF Field, Streamed
  <1> QED
    BY <1>1, <1>6, <1>7

(* An equity the provider streams has one entry, whose messages become      *)
(* events of this pair.                                                     *)
LEMMA ListedReturns ==
  ASSUME NEW p \in Pairs, supports(p, "live"), p.class = "equity"
  PROVE  \E e \in Listed(p) : Translated(e) = p
  <1>1. p = [class |-> p.class, sym |-> p.sym, kind |-> p.kind]
    BY ProviderAssumption
  <1>2. p.class = "equity" /\ p.kind \in {"trade", "quote", "bar1m", "bar1d"}
    BY DEF supports, Streamed
  <1>3. PICK f \in Field(p.kind) :
          p.kind = CASE f = "trades" -> "trade" [] f = "quotes" -> "quote"
                     [] f = "bars" -> "bar1m" [] f = "daily_bars" -> "bar1d"
    BY <1>2 DEF Field
  <1>4. <<p.sym, f>> \in Listed(p)
    BY DEF Listed
  <1>5. Translated(<<p.sym, f>>) = [class |-> "equity", sym |-> p.sym, kind |-> p.kind]
    BY <1>3 DEF Translated
  <1> QED
    BY <1>1, <1>2, <1>4, <1>5

-----------------------------------------------------------------------------
(* Parts of the invariant that a step does not touch.                       *)

LEMMA CountedQuiet ==
  ASSUME Counted, UNCHANGED <<settings, cred>>, budget'["changes"] = budget["changes"]
  PROVE  Counted'
  BY DEF Counted

LEMMA HubFreshQuiet ==
  ASSUME HubFresh, UNCHANGED <<settings, cred, alive, hub>>
  PROVE  HubFresh'
  BY DEF HubFresh, Heard, Fresh

LEMMA RestFreshQuiet ==
  ASSUME RestFresh, UNCHANGED <<settings, cred, alive, rest>>
  PROVE  RestFresh'
  BY DEF RestFresh, Heard, Fresh

LEMMA AskedQuiet ==
  ASSUME Asked, UNCHANGED <<handle, cmds>>
  PROVE  Asked'
  BY DEF Asked, supports, Streamed, Intervals

LEMMA HeldQuiet ==
  ASSUME Held, UNCHANGED <<routes, told, subs, upstream, unapplied, crossed, handle>>,
         rest'.got = rest.got, hub'.pc = "connected" <=> hub.pc = "connected"
  PROVE  Held'
  BY DEF Held, Listed, Field, supports, Streamed, Intervals

(* A hub that restarts, sleeps or parks has what receivers it had, or none. *)
LEMMA HubFreshIdle ==
  ASSUME TypeOK, HubFresh, UNCHANGED <<settings, cred, alive>>,
         hub'.pc \notin {"credentials", "connecting", "connected"},
         \/ hub'.seenS = hub.seenS /\ hub'.seenC = hub.seenC
         \/ hub'.seenS = 0 /\ hub'.seenC = 0
  PROVE  HubFresh'
  BY Numbers DEF HubFresh, Heard, Fresh

-----------------------------------------------------------------------------
(* The daemon's side: a new version is news to everyone who listens.        *)
LEMMA WatchStep ==
  ASSUME ProviderInv,
         \/ \E v \in Modes \cup {None} : ChangeSettings(v)
         \/ \E k \in Keys : RotateCredentials(k)
         \/ SendersGone
  PROVE  ProviderInv'
  <1> USE DEF ProviderInv
  <1>1. UNCHANGED <<hub, routes, told, subs, upstream, unapplied, crossed, handle, cmds, owned, rest>>
    BY DEF ChangeSettings, RotateCredentials, SendersGone, hubVars, handleVars
  <1>2. \/ /\ alive /\ alive' /\ settings'.ver = settings.ver + 1 /\ cred' = cred
           /\ settings' \in [v : AnyMode, ver : Nat] /\ Spend("changes")
        \/ /\ alive /\ alive' /\ cred'.ver = cred.ver + 1 /\ settings' = settings
           /\ cred' \in [v : AnyKey, ver : Nat] /\ Spend("changes")
        \/ alive' = FALSE /\ UNCHANGED <<settings, cred, budget>>
    BY Numbers DEF ChangeSettings, RotateCredentials, SendersGone, AnyMode, AnyKey
  <1>3. TypeOK'
    <2>1. budget' \in [{"changes", "faults", "subs", "fetches"} -> Nat]
      BY <1>2, SpendIs DEF TypeOK
    <2>2. alive' \in BOOLEAN
      BY DEF ChangeSettings, RotateCredentials, SendersGone, TypeOK
    <2>3. /\ settings' \in [v : AnyMode, ver : Nat]
          /\ cred' \in [v : AnyKey, ver : Nat]
      BY <1>2 DEF TypeOK
    <2> QED
      BY <1>1, <2>1, <2>2, <2>3 DEF TypeOK, Listed, Field
  <1>4. Counted'
    <2>1. CASE alive' = FALSE /\ UNCHANGED <<settings, cred, budget>>
      BY <2>1 DEF Counted
    <2>2. CASE Spend("changes")
      BY <1>2, <2>2, SpendIs, Numbers DEF Counted
    <2> QED
      BY <1>2, <2>1, <2>2
  <1>5. settings.ver < Gone /\ cred.ver < Gone
    BY Numbers DEF Counted, Gone
  <1>6. (Spend("changes") => settings'.ver < Gone /\ cred'.ver < Gone)
    <2>1. settings'.ver \in Nat /\ cred'.ver \in Nat /\ budget'.changes \in Nat /\ MaxChanges \in Nat
      BY <1>3, Numbers DEF TypeOK
    <2> QED
      BY <1>4, <2>1 DEF Counted, Gone
  <1>7. ASSUME NEW use \in Nat, NEW seen \in Nat
        PROVE  /\ Heard(seen, settings.ver) => Heard(seen, settings.ver)'
               /\ Heard(seen, cred.ver) => Heard(seen, cred.ver)'
               /\ Heard(seen, settings.ver) /\ Fresh(use, seen, settings.ver)
                    => Fresh(use, seen, settings'.ver)
               /\ Heard(seen, cred.ver) /\ Fresh(use, seen, cred.ver)
                    => Fresh(use, seen, cred'.ver)
    BY <1>2, <1>5, <1>6, Numbers DEF Heard, Fresh, Gone
  <1>8. HubFresh'
    BY <1>1, <1>7, Numbers DEF HubFresh, Heard, Fresh
  <1>9. RestFresh'
    BY <1>1, <1>2, <1>7, Numbers DEF RestFresh, Heard, Fresh
  <1>10. Asked' /\ Held'
    BY <1>1, AskedQuiet, HeldQuiet
  <1> QED
    BY <1>3, <1>4, <1>8, <1>9, <1>10

-----------------------------------------------------------------------------
(* The hub on its way to a socket: a receiver is taken before the value it  *)
(* is about, so a value read is fresh whatever the daemon wrote between.    *)
LEMMA ResolveStep ==
  ASSUME ProviderInv,
         \/ TakeSettingsReceiver \/ ResolveSettings \/ ResolveCredentials
         \/ ForgetReceivers \/ Provisioned \/ SleepEnds
  PROVE  ProviderInv'
  <1> USE DEF ProviderInv
  <1>1. UNCHANGED <<settings, cred, alive, routes, told, subs, upstream, unapplied, crossed, handle, cmds,
                    owned, rest, budget>>
    BY DEF TakeSettingsReceiver, ResolveSettings, ResolveCredentials, ForgetReceivers, Provisioned,
           SleepEnds, watches, handleVars
  <1>2. hub' \in HubState /\ HubFresh' /\ (hub'.pc = "connected" <=> hub.pc = "connected")
    <2>1. CASE TakeSettingsReceiver
      <3>1. hub.pc = "outer" /\ hub' = [hub EXCEPT !.pc = "settings", !.seenS = settings.ver]
        BY <2>1 DEF TakeSettingsReceiver
      <3>2. hub' \in HubState /\ hub'.pc = "settings" /\ hub'.seenS = settings.ver /\ hub'.seenC = hub.seenC
        BY <3>1, Numbers DEF TypeOK, HubState
      <3> QED
        BY <1>1, <3>1, <3>2, Numbers DEF HubFresh, Heard
    <2>2. CASE ResolveSettings
      <3>1. CASE settings.v = None
        <4>1. hub.pc = "settings" /\ hub' = Parked("disabled")
          BY <2>2, <3>1 DEF ResolveSettings
        <4> QED
          BY <1>1, <4>1, ParkedIs, HubFreshIdle
      <3>2. CASE settings.v # None
        <4>1. /\ hub.pc = "settings"
              /\ hub' = [hub EXCEPT !.pc = "credentials", !.seenC = cred.ver,
                                    !.mode = settings.v, !.useS = settings.ver]
          BY <2>2, <3>2 DEF ResolveSettings
        <4>2. /\ hub' \in HubState /\ hub'.pc = "credentials" /\ hub'.seenC = cred.ver
              /\ hub'.seenS = hub.seenS /\ hub'.useS = settings.ver
          BY <4>1, Numbers DEF TypeOK, HubState
        <4> QED
          BY <1>1, <4>1, <4>2, Numbers DEF HubFresh, Heard, Fresh
      <3> QED
        BY <3>1, <3>2
    <2>3. CASE ResolveCredentials
      <3>1. CASE cred.v = None
        <4>1. hub.pc = "credentials" /\ hub' = Parked("missing")
          BY <2>3, <3>1 DEF ResolveCredentials
        <4> QED
          BY <1>1, <4>1, ParkedIs, HubFreshIdle
      <3>2. CASE cred.v # None
        <4>1. /\ hub.pc = "credentials"
              /\ hub' = [hub EXCEPT !.pc = "connecting", !.key = cred.v, !.useC = cred.ver]
          BY <2>3, <3>2 DEF ResolveCredentials
        <4>2. /\ hub' \in HubState /\ hub'.pc = "connecting" /\ hub'.seenC = hub.seenC
              /\ hub'.seenS = hub.seenS /\ hub'.useS = hub.useS /\ hub'.useC = cred.ver
          BY <4>1, Numbers DEF TypeOK, HubState
        <4> QED
          BY <1>1, <4>1, <4>2, Numbers DEF HubFresh, Heard, Fresh
      <3> QED
        BY <3>1, <3>2
    <2>4. CASE ForgetReceivers
      <3>1. /\ hub.pc = "connected" /\ ~alive
            /\ \/ hub.seenC = cred.ver /\ hub' = [hub EXCEPT !.seenC = Gone]
               \/ hub.seenS = settings.ver /\ hub' = [hub EXCEPT !.seenS = Gone]
        BY <2>4 DEF ForgetReceivers
      <3>2. hub.useC = cred.ver \/ hub.seenC \notin {Gone, cred.ver}
        BY <3>1 DEF HubFresh, Fresh
      <3>3. hub.useS = settings.ver \/ hub.seenS \notin {Gone, settings.ver}
        BY <3>1 DEF HubFresh, Fresh
      <3>4. CASE hub.seenC = cred.ver /\ hub' = [hub EXCEPT !.seenC = Gone]
        <4>1. /\ hub' \in HubState /\ hub'.pc = "connected" /\ hub'.seenC = Gone
              /\ hub'.seenS = hub.seenS /\ hub'.useS = hub.useS /\ hub'.useC = hub.useC
          BY <3>1, <3>4, Numbers DEF TypeOK, HubState
        <4> QED
          BY <1>1, <3>1, <3>2, <3>4, <4>1 DEF HubFresh, Heard, Fresh
      <3>5. CASE hub.seenS = settings.ver /\ hub' = [hub EXCEPT !.seenS = Gone]
        <4>1. /\ hub' \in HubState /\ hub'.pc = "connected" /\ hub'.seenS = Gone
              /\ hub'.seenC = hub.seenC /\ hub'.useS = hub.useS /\ hub'.useC = hub.useC
          BY <3>1, <3>5, Numbers DEF TypeOK, HubState
        <4> QED
          BY <1>1, <3>1, <3>3, <3>5, <4>1 DEF HubFresh, Heard, Fresh
      <3> QED
        BY <3>1, <3>4, <3>5
    <2>5. CASE Provisioned \/ SleepEnds
      <3>1. hub.pc \in {"parked", "sleeping"} /\ hub' = AtPc("outer")
        BY <2>5 DEF Provisioned, SleepEnds
      <3> QED
        BY <1>1, <3>1, AtPcIs, HubFreshIdle DEF Pcs
    <2> QED
      BY <2>1, <2>2, <2>3, <2>4, <2>5
  <1>3. TypeOK'
    BY <1>1, <1>2 DEF TypeOK, Listed, Field
  <1> QED
    BY <1>1, <1>2, <1>3, CountedQuiet, RestFreshQuiet, AskedQuiet, HeldQuiet

(* The socket opens or is gone, and every route is told which.              *)
LEMMA SocketStep ==
  ASSUME ProviderInv, Connects \/ ConnectFails \/ SocketFails \/ HotReconnect
  PROVE  ProviderInv'
  <1> USE DEF ProviderInv
  <1>1. /\ UNCHANGED <<settings, cred, alive, routes, subs, crossed, handle, cmds, owned, rest>>
        /\ budget' = budget \/ Spend("faults")
    BY DEF Connects, ConnectFails, SocketFails, HotReconnect, watches, handleVars
  <1>2. /\ budget' \in [{"changes", "faults", "subs", "fetches"} -> Nat]
        /\ budget'["changes"] = budget["changes"]
    BY <1>1, SpendIs DEF TypeOK
  <1>3. /\ told' \in [Pairs -> {"nothing", "up", "down"}]
        /\ Connects => \A p \in Pairs : p \in routes => told'[p] = "up"
        /\ ~Connects => \A p \in Pairs : p \in routes => told'[p] = "down"
    BY TellIs DEF Connects, ConnectFails, SocketFails, HotReconnect
  <1>4. /\ hub' \in HubState
        /\ Connects => /\ hub.pc = "connecting" /\ hub'.pc = "connected" /\ hub'.seenS = hub.seenS
                       /\ hub'.seenC = hub.seenC /\ hub'.useS = hub.useS /\ hub'.useC = hub.useC
        /\ ~Connects => /\ hub'.pc \in {"parked", "sleeping", "outer"}
                        /\ \/ hub'.seenS = hub.seenS /\ hub'.seenC = hub.seenC
                           \/ hub'.seenS = 0 /\ hub'.seenC = 0
    <2>1. CASE Connects
      <3>1. hub.pc = "connecting" /\ hub' = [hub EXCEPT !.pc = "connected", !.mode = None, !.key = None]
        BY <2>1 DEF Connects
      <3> QED
        BY <2>1, <3>1 DEF TypeOK, HubState, AnyMode, AnyKey
    <2>2. CASE ~Connects
      <3>1. (\E u \in BOOLEAN : hub' = AfterFailure(u)) \/ hub' = AtPc("outer")
        BY <2>2 DEF ConnectFails, SocketFails, HotReconnect
      <3> QED
        BY <2>2, <3>1, AfterFailureIs, AtPcIs DEF Pcs
    <2> QED
      BY <2>1, <2>2
  <1>5. /\ upstream' \in {upstream, subs, {}} /\ unapplied' \in BOOLEAN
        /\ Connects => upstream' = subs \/ unapplied'
    BY DEF Connects, ConnectFails, SocketFails, HotReconnect, TypeOK
  <1>6. TypeOK'
    BY <1>1, <1>2, <1>3, <1>4, <1>5 DEF TypeOK, Listed, Field
  <1>7. HubFresh'
    <2>1. CASE Connects
      BY <1>1, <1>4, <2>1 DEF HubFresh, Heard, Fresh
    <2>2. CASE ~Connects
      BY <1>1, <1>4, <2>2, HubFreshIdle
    <2> QED
      BY <2>1, <2>2
  <1>8. Held'
    <2>1. ASSUME NEW p \in Pairs, handle'[p] = "held"
          PROVE  /\ p \in routes' /\ (told'[p] = "up" <=> hub'.pc = "connected")
                 /\ p \notin crossed' =>
                      /\ Listed(p) \subseteq subs'
                      /\ hub'.pc = "connected" /\ ~unapplied' => Listed(p) \subseteq upstream'
      <3>1. p \in routes /\ (p \notin crossed => Listed(p) \subseteq subs)
        BY <1>1, <2>1 DEF Held
      <3> QED
        BY <1>1, <1>3, <1>4, <1>5, <3>1
    <2> QED
      BY <1>1, <2>1 DEF Held, Listed, Field, supports, Streamed, Intervals
  <1> QED
    BY <1>1, <1>2, <1>6, <1>7, <1>8, CountedQuiet, RestFreshQuiet, AskedQuiet

(* The task ends when nobody is left.                                       *)
LEMMA ExitStep == ProviderInv /\ HubExits => ProviderInv'
  <1> SUFFICES ASSUME ProviderInv, HubExits PROVE ProviderInv'
    OBVIOUS
  <1> USE DEF ProviderInv
  <1>1. /\ UNCHANGED <<settings, cred, alive, handle, cmds, owned, rest, budget>>
        /\ routes' = {} /\ subs' = {} /\ told' = [p \in Pairs |-> "nothing"]
        /\ upstream' = {} /\ unapplied' = FALSE /\ crossed' = {} /\ hub' = AtPc("exited")
        /\ \A p \in Pairs : handle[p] = "none"
    BY DEF HubExits, watches, handleVars
  <1>2. hub' \in HubState /\ HubFresh'
    BY <1>1, AtPcIs, HubFreshIdle DEF Pcs
  <1>3. told' \in [Pairs -> {"nothing", "up", "down"}]
    BY <1>1
  <1>4. TypeOK'
    BY <1>1, <1>2, <1>3 DEF TypeOK, Listed, Field
  <1>5. Held'
    BY <1>1 DEF Held, Listed, Field, supports, Streamed, Intervals
  <1> QED
    BY <1>1, <1>2, <1>4, <1>5, CountedQuiet, RestFreshQuiet, AskedQuiet

-----------------------------------------------------------------------------
(* What taking a command and sending one does to the channel.               *)
LEMMA ChannelIs ==
  ASSUME NEW q \in Seq(Command)
  PROVE  /\ Len(q) \in Nat /\ \A i \in 1 .. Len(q) : q[i] \in Command
         /\ q # <<>> => /\ Head(q) \in Command /\ q[1] = Head(q) /\ 1 \in 1 .. Len(q)
                        /\ Tail(q) \in Seq(Command) /\ Len(Tail(q)) = Len(q) - 1
                        /\ \A i \in 1 .. Len(Tail(q)) :
                             i + 1 \in 1 .. Len(q) /\ i + 1 # 1 /\ Tail(q)[i] = q[i + 1]
         /\ \A c \in Command :
              /\ Append(q, c) \in Seq(Command) /\ Len(Append(q, c)) = Len(q) + 1
              /\ \A i \in 1 .. Len(q) : Append(q, c)[i] = q[i]
              /\ Append(q, c)[Len(q) + 1] = c
  OBVIOUS

(* A command is sent for a pair no command under way is about.              *)
LEMMA AskedAppend ==
  ASSUME NEW q \in Seq(Command), NEW c \in Command, NEW h,
         \A i \in 1 .. Len(q) :
           /\ q[i].do = "subscribe" => h[q[i].p] = "subscribing"
           /\ q[i].do = "unsubscribe" => h[q[i].p] \in {"leaving", "closing"}
           /\ \A j \in 1 .. Len(q) : q[i].p = q[j].p => i = j,
         \A i \in 1 .. Len(q) : q[i].p # c.p,
         c.do = "subscribe" => h[c.p] = "subscribing",
         c.do = "unsubscribe" => h[c.p] \in {"leaving", "closing"}
  PROVE  LET a == Append(q, c) IN
         \A i \in 1 .. Len(a) :
           /\ a[i].do = "subscribe" => h[a[i].p] = "subscribing"
           /\ a[i].do = "unsubscribe" => h[a[i].p] \in {"leaving", "closing"}
           /\ \A j \in 1 .. Len(a) : a[i].p = a[j].p => i = j
  <1> DEFINE a == Append(q, c)
  <1>1. /\ Len(q) \in Nat /\ Len(a) = Len(q) + 1 /\ a[Len(q) + 1] = c
        /\ \A i \in 1 .. Len(q) : a[i] = q[i]
    BY ChannelIs
  <1> HIDE DEF a
  <1>2. \A i \in 1 .. Len(a) : i \in 1 .. Len(q) \/ i = Len(q) + 1
    BY <1>1
  <1>3. ASSUME NEW i \in 1 .. Len(a)
        PROVE  /\ a[i].do = "subscribe" => h[a[i].p] = "subscribing"
               /\ a[i].do = "unsubscribe" => h[a[i].p] \in {"leaving", "closing"}
    BY <1>1, <1>2
  <1>4. ASSUME NEW i \in 1 .. Len(a), NEW j \in 1 .. Len(a), a[i].p = a[j].p
        PROVE  i = j
    BY <1>1, <1>2, <1>4
  <1> QED
    BY <1>3, <1>4 DEF a

(* An answer settles the handle that waited for it and no other.            *)
LEMMA AnsweredIs ==
  ASSUME TypeOK, Asked, cmds # <<>>, NEW ok \in BOOLEAN, Answered(ok)
  PROVE  /\ Cmd \in Command /\ Cmd.p \in Pairs
         /\ handle' \in [Pairs -> {"none", "subscribing", "held", "leaving", "closing"}]
         /\ cmds' \in Seq(Command)
         /\ \A q \in Pairs : q # Cmd.p => handle'[q] = handle[q]
         /\ handle[Cmd.p] \in {"subscribing", "leaving", "closing"}
         /\ handle'[Cmd.p] = "held" => ok /\ Cmd.do = "subscribe"
         /\ Asked'
  <1> DEFINE c == Cmd
             r == Tail(cmds)
             u == [do |-> "unsubscribe", p |-> Cmd.p]
             v == CASE handle[Cmd.p] = "subscribing" -> IF ok THEN "held" ELSE "none"
                    [] handle[Cmd.p] = "leaving" -> IF ok THEN "none" ELSE "closing"
                    [] OTHER -> "none"
  <1>1. /\ cmds \in Seq(Command)
        /\ handle \in [Pairs -> {"none", "subscribing", "held", "leaving", "closing"}]
    BY DEF TypeOK
  <1>2. /\ c \in Command /\ c = cmds[1] /\ 1 \in 1 .. Len(cmds) /\ r \in Seq(Command)
        /\ \A i \in 1 .. Len(r) : i + 1 \in 1 .. Len(cmds) /\ i + 1 # 1 /\ r[i] = cmds[i + 1]
    BY <1>1, ChannelIs DEF Cmd
  <1>3. c.p \in Pairs /\ c.do \in {"subscribe", "unsubscribe"} /\ u \in Command
    BY <1>2 DEF Command
  <1>4. /\ c.do = "subscribe" => handle[c.p] = "subscribing"
        /\ c.do = "unsubscribe" => handle[c.p] \in {"leaving", "closing"}
    BY <1>2 DEF Asked
  <1>5. handle' = [handle EXCEPT ![c.p] = v] /\ cmds' = IF handle'[c.p] = "closing" THEN Append(r, u) ELSE r
    BY DEF Answered
  <1>6. /\ v \in {"none", "held", "closing"}
        /\ v = "held" => ok /\ handle[c.p] = "subscribing"
        /\ v # "none" => handle[c.p] # "none"
    BY <1>3, <1>4
  <1> HIDE DEF v
  <1>7. /\ handle' \in [Pairs -> {"none", "subscribing", "held", "leaving", "closing"}]
        /\ handle'[c.p] = v /\ \A q \in Pairs : q # c.p => handle'[q] = handle[q]
    BY <1>1, <1>3, <1>5, <1>6
  <1>8. \A i \in 1 .. Len(r) : r[i].p # c.p /\ r[i].p \in Pairs
    <2>1. \A i \in 1 .. Len(cmds) : i # 1 => cmds[i].p # cmds[1].p
      BY <1>2 DEF Asked
    <2>2. \A i \in 1 .. Len(r) : r[i] \in Command
      BY <1>2, ChannelIs
    <2>3. \A i \in 1 .. Len(r) : r[i].p \in Pairs
      BY <2>2 DEF Command
    <2> QED
      BY <1>2, <2>1, <2>3
  <1>9. \A i \in 1 .. Len(r) :
          /\ r[i].do = "subscribe" => handle'[r[i].p] = "subscribing"
          /\ r[i].do = "unsubscribe" => handle'[r[i].p] \in {"leaving", "closing"}
          /\ \A j \in 1 .. Len(r) : r[i].p = r[j].p => i = j
    <2>1. ASSUME NEW i \in 1 .. Len(r)
          PROVE  /\ r[i].do = "subscribe" => handle'[r[i].p] = "subscribing"
                 /\ r[i].do = "unsubscribe" => handle'[r[i].p] \in {"leaving", "closing"}
      BY <1>2, <1>7, <1>8 DEF Asked
    <2>2. ASSUME NEW i \in 1 .. Len(r), NEW j \in 1 .. Len(r), r[i].p = r[j].p
          PROVE  i = j
      <3>1. i + 1 = j + 1
        BY <1>2, <2>2 DEF Asked
      <3> QED
        BY <3>1
    <2> QED
      BY <2>1, <2>2
  <1>10. \A q \in Pairs : handle'[q] # "none" => supports(q, "live")
    BY <1>3, <1>6, <1>7 DEF Asked
  <1>11. /\ cmds' \in Seq(Command)
         /\ \A i \in 1 .. Len(cmds') :
              /\ cmds'[i].do = "subscribe" => handle'[cmds'[i].p] = "subscribing"
              /\ cmds'[i].do = "unsubscribe" => handle'[cmds'[i].p] \in {"leaving", "closing"}
              /\ \A j \in 1 .. Len(cmds') : cmds'[i].p = cmds'[j].p => i = j
    <2>1. CASE handle'[c.p] = "closing"
      <3>1. u.p = c.p /\ u.do = "unsubscribe"
        OBVIOUS
      <3> HIDE DEF u, r
      <3>2. cmds' = Append(r, u)
        BY <1>5, <2>1
      <3> QED
        BY <1>2, <1>3, <1>8, <1>9, <2>1, <3>1, <3>2, AskedAppend, ChannelIs
    <2>2. CASE handle'[c.p] # "closing"
      <3>1. cmds' = r
        BY <1>5, <2>2
      <3> HIDE DEF r
      <3> QED
        BY <1>2, <1>9, <3>1
    <2> QED
      BY <2>1, <2>2
  <1>12. Asked'
    BY <1>10, <1>11 DEF Asked, supports, Streamed, Intervals
  <1> QED
    BY <1>2, <1>3, <1>4, <1>6, <1>7, <1>11, <1>12

(* The hub serves a command, on the socket or without one.                  *)
LEMMA CommandStep ==
  ASSUME ProviderInv, HubSubscribes \/ HubUnsubscribes \/ HubRefuses
  PROVE  ProviderInv'
  <1> USE DEF ProviderInv
  <1> DEFINE c == Cmd.p
  <1>1. /\ UNCHANGED <<settings, cred, alive, owned, rest>> /\ cmds # <<>>
        /\ budget' = budget \/ Spend("faults")
    BY DEF HubSubscribes, HubUnsubscribes, HubRefuses, watches
  <1>2. PICK ok \in BOOLEAN :
          /\ Answered(ok)
          /\ HubRefuses => ~ok
          /\ HubSubscribes /\ ok =>
               /\ routes' = routes \cup {c} /\ subs' = subs \cup Listed(c)
               /\ upstream' = upstream \cup subs' /\ unapplied' = FALSE
               /\ crossed' = {q \in crossed : Listed(q) # Listed(c)}
               /\ told' = [told EXCEPT ![c] = "up"]
          /\ HubSubscribes /\ ~ok =>
               /\ routes' = routes \ {c} /\ subs' = subs \ Listed(c)
               /\ told' = [told EXCEPT ![c] = "nothing"] /\ UNCHANGED <<upstream, unapplied>>
               /\ crossed' = (crossed \cup Sharing(c)) \ {c}
          /\ HubUnsubscribes /\ ok =>
               /\ subs' = subs \ Listed(c) /\ upstream' = upstream \ Listed(c)
               /\ routes' = routes \ {c} /\ told' = [told EXCEPT ![c] = "nothing"]
               /\ crossed' = (crossed \cup Sharing(c)) \ {c}
          /\ HubUnsubscribes /\ ~ok =>
               /\ UNCHANGED <<routes, upstream, told, crossed>> /\ subs' = subs \cup Listed(c)
    BY DEF HubSubscribes, HubUnsubscribes, HubRefuses
  <1>3. /\ HubSubscribes => hub.pc = "connected" /\ hub' = hub /\ Cmd.do = "subscribe"
        /\ HubUnsubscribes => /\ hub.pc = "connected" /\ hub' = hub /\ unapplied' = unapplied
                              /\ Cmd.do = "unsubscribe"
        /\ HubRefuses => /\ hub.pc \in {"parked", "sleeping"} /\ (hub' = hub \/ hub' = AtPc("outer"))
                         /\ UNCHANGED <<routes, told, subs, upstream, unapplied, crossed>>
    BY DEF HubSubscribes, HubUnsubscribes, HubRefuses
  <1>4. /\ Cmd \in Command /\ c \in Pairs
        /\ handle' \in [Pairs -> {"none", "subscribing", "held", "leaving", "closing"}]
        /\ cmds' \in Seq(Command)
        /\ \A q \in Pairs : q # c => handle'[q] = handle[q]
        /\ handle[c] \in {"subscribing", "leaving", "closing"}
        /\ handle'[c] = "held" => ok /\ Cmd.do = "subscribe"
        /\ Asked'
    BY <1>1, <1>2, AnsweredIs
  <1>5. /\ budget' \in [{"changes", "faults", "subs", "fetches"} -> Nat]
        /\ budget'["changes"] = budget["changes"]
    BY <1>1, SpendIs DEF TypeOK
  <1> HIDE DEF c
  <1>6. hub' \in HubState /\ HubFresh' /\ (hub'.pc = "connected" <=> hub.pc = "connected")
    <2>1. hub' = hub \/ (hub.pc \in {"parked", "sleeping"} /\ hub' = AtPc("outer"))
      BY <1>3
    <2>2. CASE hub' = hub
      BY <1>1, <2>2, HubFreshQuiet DEF TypeOK
    <2>3. CASE hub.pc \in {"parked", "sleeping"} /\ hub' = AtPc("outer")
      BY <1>1, <2>3, AtPcIs, HubFreshIdle DEF Pcs
    <2> QED
      BY <2>1, <2>2, <2>3
  <1>7. TypeOK'
    <2>1. told' \in [Pairs -> {"nothing", "up", "down"}]
      <3>1. \/ told' = told \/ told' = [told EXCEPT ![c] = "nothing"]
            \/ told' = [told EXCEPT ![c] = "up"]
        BY <1>2, <1>3
      <3> QED
        BY <1>4, <3>1 DEF TypeOK
    <2>2. routes' \subseteq Pairs
      BY <1>2, <1>3, <1>4 DEF TypeOK
    <2>3. Listed(c) \subseteq Entries
      BY <1>4 DEF Entries
    <2>4. subs \subseteq Entries /\ upstream \subseteq Entries
      BY DEF TypeOK, Entries
    <2>5. subs' \subseteq Entries
      BY <1>2, <1>3, <2>3, <2>4
    <2>6. upstream' \subseteq Entries
      BY <1>2, <1>3, <2>4, <2>5
    <2>7. crossed' \subseteq Pairs
      BY <1>2, <1>3 DEF TypeOK, Sharing
    <2>8. unapplied' \in BOOLEAN
      <3>1. unapplied' = FALSE \/ unapplied' = unapplied
        BY <1>2, <1>3
      <3> QED
        BY <3>1, Zenon DEF TypeOK
    <2> QED
      BY <1>1, <1>4, <1>5, <1>6, <2>1, <2>2, <2>5, <2>6, <2>7, <2>8 DEF TypeOK, Entries, Listed, Field
  <1>8. Held'
    <2>1. ASSUME NEW p \in Pairs, handle'[p] = "held"
          PROVE  /\ p \in routes' /\ (told'[p] = "up" <=> hub'.pc = "connected")
                 /\ p \notin crossed' =>
                      /\ Listed(p) \subseteq subs'
                      /\ hub'.pc = "connected" /\ ~unapplied' => Listed(p) \subseteq upstream'
      <3>1. CASE p = c
        <4>1. HubSubscribes /\ ok /\ hub'.pc = "connected"
          BY <1>2, <1>3, <1>4, <2>1, <3>1
        <4>2. told'[c] = "up"
          BY <1>2, <1>4, <4>1 DEF TypeOK
        <4> QED
          BY <1>2, <3>1, <4>1, <4>2
      <3>2. CASE p # c
        <4>1. /\ handle[p] = "held" /\ p \in routes /\ (told[p] = "up" <=> hub.pc = "connected")
              /\ p \notin crossed =>
                   /\ Listed(p) \subseteq subs
                   /\ hub.pc = "connected" /\ ~unapplied => Listed(p) \subseteq upstream
          BY <1>4, <2>1, <3>2 DEF Held
        <4>2. Listed(p) = Listed(c) \/ Listed(p) \cap Listed(c) = {}
          <5>1. handle[p] # "none" /\ handle[c] # "none"
            BY <1>4, <4>1
          <5>2. supports(p, "live") /\ supports(c, "live")
            BY <1>4, <5>1 DEF Asked
          <5> QED
            BY <1>4, <5>2, ListedApart
        <4>3. told'[p] = told[p]
          BY <1>2, <1>3, <1>4, <3>2 DEF TypeOK
        <4>4. p \in routes'
          BY <1>2, <1>3, <3>2, <4>1
        <4>5. ASSUME p \notin crossed'
              PROVE  /\ Listed(p) \subseteq subs'
                     /\ hub'.pc = "connected" /\ ~unapplied' => Listed(p) \subseteq upstream'
          <5>1. CASE HubSubscribes /\ ok
            <6>1. p \notin crossed \/ Listed(p) = Listed(c)
              BY <1>2, <4>5, <5>1
            <6> QED
              BY <1>2, <4>1, <5>1, <6>1
          <5>2. CASE (HubSubscribes /\ ~ok) \/ (HubUnsubscribes /\ ok)
            <6>1. p \notin crossed /\ p \notin Sharing(c)
              BY <1>2, <3>2, <4>5, <5>2
            <6>2. Listed(p) # Listed(c)
              BY <3>2, <4>1, <6>1 DEF Sharing
            <6>3. Listed(p) \cap Listed(c) = {}
              BY <4>2, <6>2
            <6> QED
              BY <1>2, <1>3, <4>1, <5>2, <6>1, <6>3
          <5>3. CASE HubUnsubscribes /\ ~ok
            BY <1>2, <1>3, <4>1, <4>5, <5>3
          <5>4. CASE HubRefuses
            BY <1>3, <1>6, <4>1, <4>5, <5>4
          <5> QED
            BY <5>1, <5>2, <5>3, <5>4
        <4> QED
          BY <1>6, <4>1, <4>3, <4>4, <4>5
      <3> QED
        BY <3>1, <3>2
    <2>2. ASSUME NEW p \in crossed'
          PROVE  \E q \in Pairs : q.class # p.class /\ Listed(q) = Listed(p)
      <3>1. CASE p \in crossed
        BY <3>1 DEF Held
      <3>2. CASE p \notin crossed
        <4>1. p \in Sharing(c)
          BY <1>2, <1>3, <2>2, <3>2
        <4>2. p \in routes /\ p # c /\ Listed(p) = Listed(c) /\ p \in Pairs
          BY <4>1 DEF Sharing, TypeOK
        <4>3. supports(p, "live") /\ supports(c, "live")
          BY <1>4, <4>2 DEF Asked, Held
        <4> QED
          BY <1>4, <4>2, <4>3, NamesakesDiffer
      <3> QED
        BY <3>1, <3>2
    <2>3. ASSUME NEW p \in routes'
          PROVE  supports(p, "live")
      <3>1. p \in routes \/ p = c
        BY <1>2, <1>3, <2>3
      <3>2. handle[c] # "none"
        BY <1>4
      <3> QED
        BY <1>4, <3>1, <3>2 DEF Asked, Held
    <2> QED
      BY <1>1, <2>1, <2>2, <2>3 DEF Held, Listed, Field, supports, Streamed, Intervals
  <1> QED
    BY <1>1, <1>4, <1>5, <1>6, <1>7, <1>8, CountedQuiet, RestFreshQuiet

-----------------------------------------------------------------------------
(* A session asks for a pair nobody holds, or gives one up: the channel     *)
(* holds no other command about it.                                         *)
LEMMA HandleStep ==
  ASSUME ProviderInv, NEW p \in Pairs, Subscribe(p) \/ Leave(p)
  PROVE  ProviderInv'
  <1> USE DEF ProviderInv
  <1> DEFINE c == [do |-> IF Subscribe(p) THEN "subscribe" ELSE "unsubscribe", p |-> p]
             h == IF Subscribe(p) THEN "subscribing" ELSE "leaving"
  <1>1. /\ UNCHANGED <<settings, cred, alive, routes, told, subs, upstream, unapplied, crossed, owned, rest>>
        /\ Subscribe(p) => /\ handle[p] = "none" /\ supports(p, "live") /\ Spend("subs")
                           /\ hub' = IF hub.pc = "unspawned" THEN AtPc("outer") ELSE hub
        /\ ~Subscribe(p) => handle[p] = "held" /\ UNCHANGED <<hub, budget>>
        /\ handle' = [handle EXCEPT ![p] = h] /\ cmds' = Append(cmds, c)
    BY DEF Subscribe, Leave, watches, hubVars
  <1>2. /\ c \in Command /\ c.p = p /\ h \in {"subscribing", "leaving"}
        /\ c.do = "subscribe" => h = "subscribing"
        /\ c.do = "unsubscribe" => h = "leaving"
    BY DEF Command
  <1> HIDE DEF c, h
  <1>3. /\ handle' \in [Pairs -> {"none", "subscribing", "held", "leaving", "closing"}]
        /\ handle'[p] = h /\ \A q \in Pairs : q # p => handle'[q] = handle[q]
    BY <1>1, <1>2 DEF TypeOK
  <1>4. cmds \in Seq(Command) /\ cmds' \in Seq(Command)
    BY <1>1, <1>2, ChannelIs DEF TypeOK
  <1>5. /\ budget' \in [{"changes", "faults", "subs", "fetches"} -> Nat]
        /\ budget'["changes"] = budget["changes"]
    BY <1>1, SpendIs DEF TypeOK
  <1>6. hub' \in HubState /\ HubFresh' /\ (hub'.pc = "connected" <=> hub.pc = "connected")
    <2>1. hub' = hub \/ (hub.pc = "unspawned" /\ hub' = AtPc("outer"))
      BY <1>1
    <2>2. CASE hub' = hub
      BY <1>1, <2>2, HubFreshQuiet DEF TypeOK
    <2>3. CASE hub.pc = "unspawned" /\ hub' = AtPc("outer")
      BY <1>1, <2>3, AtPcIs, HubFreshIdle DEF Pcs
    <2> QED
      BY <2>1, <2>2, <2>3
  <1>7. TypeOK'
    BY <1>1, <1>3, <1>4, <1>5, <1>6 DEF TypeOK, Listed, Field
  <1>8. \A i \in 1 .. Len(cmds) :
          /\ cmds[i].p \in Pairs /\ cmds[i].do \in {"subscribe", "unsubscribe"}
          /\ cmds[i].p # p
    <2>1. \A i \in 1 .. Len(cmds) : cmds[i].p \in Pairs /\ cmds[i].do \in {"subscribe", "unsubscribe"}
      BY <1>4, ChannelIs DEF Command
    <2>2. handle[p] \in {"none", "held"}
      BY <1>1
    <2> QED
      BY <2>1, <2>2 DEF Asked
  <1>9. Asked'
    <2>1. \A i \in 1 .. Len(cmds) :
            /\ cmds[i].do = "subscribe" => handle'[cmds[i].p] = "subscribing"
            /\ cmds[i].do = "unsubscribe" => handle'[cmds[i].p] \in {"leaving", "closing"}
            /\ \A j \in 1 .. Len(cmds) : cmds[i].p = cmds[j].p => i = j
      BY <1>3, <1>8 DEF Asked
    <2>2. \A i \in 1 .. Len(cmds') :
            /\ cmds'[i].do = "subscribe" => handle'[cmds'[i].p] = "subscribing"
            /\ cmds'[i].do = "unsubscribe" => handle'[cmds'[i].p] \in {"leaving", "closing"}
            /\ \A j \in 1 .. Len(cmds') : cmds'[i].p = cmds'[j].p => i = j
      BY <1>1, <1>2, <1>3, <1>4, <1>8, <2>1, AskedAppend
    <2>3. \A q \in Pairs : handle'[q] # "none" => supports(q, "live")
      BY <1>1, <1>3 DEF Asked
    <2> QED
      BY <2>2, <2>3 DEF Asked, supports, Streamed, Intervals
  <1>10. Held'
    <2>1. \A q \in Pairs : handle'[q] = "held" => handle[q] = "held"
      BY <1>2, <1>3
    <2> QED
      BY <1>1, <1>6, <2>1 DEF Held, Listed, Field, supports, Streamed, Intervals
  <1> QED
    BY <1>1, <1>5, <1>6, <1>7, <1>9, <1>10, CountedQuiet, RestFreshQuiet

-----------------------------------------------------------------------------
(* The REST clients: what is built is as new as the request that asked for  *)
(* it, and what is kept has not been replaced.                              *)
LEMMA RestStep ==
  ASSUME ProviderInv,
         RestUse \/ BuildSettings \/ BuildCredentials \/ \E p \in Pairs : RestServe(p)
  PROVE  ProviderInv'
  <1> USE DEF ProviderInv
  <1>1. /\ UNCHANGED <<settings, cred, alive, hub, routes, told, subs, upstream, unapplied, crossed, handle,
                       cmds>>
        /\ budget' = budget \/ Spend("fetches")
    BY DEF RestUse, BuildSettings, BuildCredentials, RestServe, watches, hubVars, handleVars
  <1>2. /\ budget' \in [{"changes", "faults", "subs", "fetches"} -> Nat]
        /\ budget'["changes"] = budget["changes"]
    BY <1>1, SpendIs DEF TypeOK
  <1>3. owned' \in BOOLEAN
    <2>1. rest.req \in BOOLEAN /\ owned \in BOOLEAN
      BY DEF TypeOK, RestState
    <2>2. owned' = owned \/ owned' = (owned \/ ~rest.req)
      BY DEF RestUse, BuildSettings, BuildCredentials, RestServe, handleVars
    <2> QED
      BY <2>1, <2>2
  <1>4. settings.ver < Gone /\ cred.ver < Gone
    BY Numbers DEF Counted, Gone
  <1>5. rest' \in RestState /\ RestFresh' /\ rest'.got # "unsupported"
    <2>1. CASE RestUse
      <3> DEFINE new == \/ changed(rest.seenC, cred.ver) \/ changed(rest.seenS, settings.ver)
      <3>1. /\ rest.pc = "ready"
            /\ rest' = [rest EXCEPT !.req = TRUE, !.fromS = settings.ver, !.fromC = cred.ver,
                          !.seenC = Marked(@, cred.ver), !.seenS = Marked(@, settings.ver),
                          !.pc = IF new THEN "build" ELSE "serve"]
        BY <2>1 DEF RestUse
      <3>2. Marked(rest.seenC, cred.ver) \in Nat /\ Marked(rest.seenS, settings.ver) \in Nat
        BY Numbers DEF Marked
      <3>3. /\ rest' \in RestState
            /\ rest'.seenC = Marked(rest.seenC, cred.ver) /\ rest'.seenS = Marked(rest.seenS, settings.ver)
            /\ rest'.useS = rest.useS /\ rest'.useC = rest.useC
            /\ rest'.fromS = settings.ver /\ rest'.fromC = cred.ver
            /\ rest'.pc = IF new THEN "build" ELSE "serve"
            /\ rest'.got = rest.got
        <4> HIDE DEF new
        <4> QED
          BY <3>1, <3>2, Numbers DEF TypeOK, RestState
      <3>4. /\ Heard(Marked(rest.seenS, settings.ver), settings.ver)
            /\ Heard(Marked(rest.seenC, cred.ver), cred.ver)
        BY <1>4, Numbers DEF RestFresh, Heard, Marked
      <3>5. ~new => rest.useS = settings.ver /\ rest.useC = cred.ver
        <4>1. Fresh(rest.useS, rest.seenS, settings.ver) /\ Fresh(rest.useC, rest.seenC, cred.ver)
          BY <3>1 DEF RestFresh
        <4> QED
          BY <4>1 DEF Fresh, changed
      <3> HIDE DEF new
      <3> QED
        BY <1>1, <3>3, <3>4, <3>5, Numbers DEF RestFresh, Heard, Fresh, Held
    <2>2. CASE BuildSettings
      <3>1. rest.pc \in {"new", "build"} /\ rest' = [rest EXCEPT !.pc = "key", !.useS = settings.ver]
        BY <2>2 DEF BuildSettings
      <3>2. /\ rest' \in RestState /\ rest'.pc = "key" /\ rest'.useS = settings.ver
            /\ rest'.seenS = rest.seenS /\ rest'.seenC = rest.seenC
            /\ rest'.fromS = rest.fromS /\ rest'.fromC = rest.fromC /\ rest'.got = rest.got
        BY <3>1, Numbers DEF TypeOK, RestState
      <3> QED
        BY <1>1, <3>2, Numbers DEF RestFresh, Heard, Fresh, Held
    <2>3. CASE BuildCredentials
      <3>1. /\ rest.pc = "key"
            /\ rest' = [rest EXCEPT !.pc = IF rest.req THEN "serve" ELSE "ready", !.useC = cred.ver]
        BY <2>3 DEF BuildCredentials
      <3>2. /\ rest' \in RestState /\ rest'.pc \in {"serve", "ready"} /\ rest'.useC = cred.ver
            /\ rest'.seenS = rest.seenS /\ rest'.seenC = rest.seenC /\ rest'.useS = rest.useS
            /\ rest'.fromS = rest.fromS /\ rest'.fromC = rest.fromC /\ rest'.got = rest.got
        BY <3>1, Numbers DEF TypeOK, RestState
      <3> QED
        BY <1>1, <3>1, <3>2, Numbers DEF RestFresh, Heard, Fresh, Held
    <2>4. CASE \E p \in Pairs : RestServe(p)
      <3>1. PICK p \in Pairs : RestServe(p)
        BY <2>4
      <3>2. p.kind \in TimeFrames \cup {"trade", "quote"}
        BY <3>1 DEF RestServe, supports, Intervals, TimeFrames
      <3>3. /\ rest.pc = "serve"
            /\ rest' = [rest EXCEPT !.pc = "ready", !.req = FALSE, !.fromS = 0, !.fromC = 0,
                                    !.got = "served"]
        BY <3>1, <3>2 DEF RestServe
      <3>4. /\ rest' \in RestState /\ rest'.pc = "ready" /\ rest'.useC = rest.useC
            /\ rest'.seenS = rest.seenS /\ rest'.seenC = rest.seenC /\ rest'.useS = rest.useS
            /\ rest'.fromS = 0 /\ rest'.fromC = 0 /\ rest'.got = "served"
        BY <3>3 DEF TypeOK, RestState
      <3> QED
        BY <1>1, <3>3, <3>4, Numbers DEF RestFresh, Heard, Fresh
    <2> QED
      BY <2>1, <2>2, <2>3, <2>4
  <1>6. TypeOK'
    BY <1>1, <1>2, <1>3, <1>5 DEF TypeOK, Listed, Field
  <1>7. Held'
    BY <1>1, <1>5 DEF Held, Listed, Field, supports, Streamed, Intervals
  <1> QED
    BY <1>1, <1>2, <1>5, <1>6, <1>7, CountedQuiet, HubFreshQuiet, AskedQuiet

-----------------------------------------------------------------------------
(* A provider starts with nothing built, nothing asked and nobody heard.    *)
LEMMA ProviderStart == Init => ProviderInv
  <1> SUFFICES ASSUME Init PROVE ProviderInv
    OBVIOUS
  <1>1. hub = AtPc("unspawned") /\ hub \in HubState /\ hub.pc = "unspawned" /\ hub.seenS = 0 /\ hub.seenC = 0
    BY AtPcIs DEF Init, Pcs
  <1>2. rest \in RestState /\ rest.pc = "new" /\ rest.seenS = 0 /\ rest.seenC = 0
        /\ rest.fromS = 0 /\ rest.fromC = 0
    BY DEF Init, RestState
  <1>3. TypeOK
    <2>1. budget \in [{"changes", "faults", "subs", "fetches"} -> Nat]
      BY ProviderAssumption DEF Init
    <2>2. /\ settings \in [v : AnyMode, ver : Nat]
          /\ cred \in [v : AnyKey, ver : Nat]
      BY DEF Init, AnyMode, AnyKey
    <2>3. cmds \in Seq(Command) /\ handle \in [Pairs -> {"none", "subscribing", "held", "leaving", "closing"}]
      BY DEF Init
    <2>4. told \in [Pairs -> {"nothing", "up", "down"}] /\ alive \in BOOLEAN
          /\ owned \in BOOLEAN /\ unapplied \in BOOLEAN
      BY DEF Init
    <2> QED
      BY <1>1, <1>2, <2>1, <2>2, <2>3, <2>4 DEF Init, TypeOK
  <1>4. Counted /\ HubFresh /\ RestFresh
    BY <1>1, <1>2, ProviderAssumption DEF Init, Counted, HubFresh, RestFresh, Heard
  <1>5. rest.got # "unsupported"
    <2>1. rest.got = None
      BY DEF Init
    <2> QED
      BY <2>1, ProviderAssumption
  <1>6. Asked /\ Held
    BY <1>5 DEF Init, Asked, Held
  <1> QED
    BY <1>3, <1>4, <1>6 DEF ProviderInv

(* Every step keeps the invariant.                                          *)
LEMMA ProviderStep == ProviderInv /\ [Next]_vars => ProviderInv'
  <1> SUFFICES ASSUME ProviderInv, [Next]_vars PROVE ProviderInv'
    OBVIOUS
  <1>1. CASE \/ \E v \in Modes \cup {None} : ChangeSettings(v)
             \/ \E k \in Keys : RotateCredentials(k)
             \/ SendersGone
    BY <1>1, WatchStep
  <1>2. CASE HubStep \/ SocketFails
    BY <1>2, ResolveStep, SocketStep, CommandStep, ExitStep DEF HubStep
  <1>3. CASE \E p \in Pairs : Subscribe(p) \/ Leave(p)
    BY <1>3, HandleStep
  <1>4. CASE RestUse \/ BuildSettings \/ BuildCredentials \/ \E p \in Pairs : RestServe(p)
    BY <1>4, RestStep
  <1>5. CASE DropProvider \/ UNCHANGED vars
    <2>1. /\ UNCHANGED <<settings, cred, alive, hub, routes, told, subs, upstream, unapplied, crossed, handle,
                         cmds, rest, budget>>
          /\ owned' \in BOOLEAN
      BY <1>5 DEF DropProvider, vars, watches, hubVars, handleVars, ProviderInv, TypeOK
    <2>2. TypeOK'
      BY <2>1 DEF ProviderInv, TypeOK, Listed, Field
    <2> QED
      BY <2>1, <2>2, CountedQuiet, HubFreshQuiet, RestFreshQuiet, AskedQuiet, HeldQuiet DEF ProviderInv
  <1> QED
    BY <1>1, <1>2, <1>3, <1>4, <1>5 DEF Next

(* The provider keeps its whole invariant: the versions stay below the      *)
(* number of a lost sender, every value in use is fresh, one command per    *)
(* waiting handle, and what was acknowledged is held (run_hub_task).        *)
THEOREM ProviderCorrect == Spec => []ProviderInv
  <1> QED
    BY ProviderStart, ProviderStep, PTL DEF Spec

(* Nobody goes on with a replaced value: not the socket, whose receivers    *)
(* are made before the values are read, and not the REST clients.           *)
THEOREM NeverStaleCorrect == Spec => []NeverStale
  <1>1. ProviderInv => NeverStale
    BY DEF ProviderInv, HubFresh, RestFresh, Fresh, NeverStale
  <1> QED
    BY <1>1, ProviderCorrect, PTL

(* What supports promised is kept as far as PromiseKept says: an            *)
(* acknowledged pair, equity or ETF, is routed and told the hub's state; it *)
(* is in the list unless a command for its namesake of the other class took *)
(* its entry, and an equity is then fed by the socket; no history request   *)
(* is accepted that the REST surface cannot serve.                          *)
THEOREM PromiseKeptCorrect == Spec => []PromiseKept
  <1>1. ASSUME ProviderInv PROVE PromiseKept
    <2>1. ASSUME NEW p \in Pairs, handle[p] = "held", p \notin crossed, hub.pc = "connected",
                 ~unapplied, p.class = "equity"
          PROVE  p \in Fed
      <3>1. p \in routes /\ Listed(p) \subseteq upstream
        BY <1>1, <2>1 DEF ProviderInv, Held
      <3>2. supports(p, "live")
        BY <1>1, <2>1 DEF ProviderInv, Asked
      <3>3. PICK e \in Listed(p) : Translated(e) = p
        BY <2>1, <3>2, ListedReturns
      <3>4. e \in upstream /\ Translated(e) \in {Translated(x) : x \in upstream}
        BY <3>1, <3>3
      <3> QED
        BY <3>1, <3>3, <3>4 DEF Fed
    <2> QED
      BY <1>1, <2>1 DEF ProviderInv, Held, PromiseKept
  <1> QED
    BY <1>1, ProviderCorrect, PTL

=============================================================================

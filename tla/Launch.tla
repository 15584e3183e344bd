------------------------------- MODULE Launch -------------------------------
(***************************************************************************)
(* Finding or starting the daemon.  Apps that want datamancerd ping its     *)
(* control socket, spawn the binary when nothing answers and probe until    *)
(* something does (app/lifecycle.rs, app/mod.rs); the spawned processes     *)
(* compete for the single-instance lock, boot, clear a socket a dead        *)
(* predecessor left, bind, serve, drain and exit (main.rs,                  *)
(* single_instance.rs, server.rs), and any of them may die on the way.      *)
(*                                                                          *)
(* What the apps and the processes share is one path in the file system,    *)
(* one advisory lock and the names of the shared-memory services.  A probe  *)
(* of a daemon whose actor is not in its loop may time out; one of a        *)
(* serving daemon times out only as a fault.  The path is the same for all  *)
(* of them (its default, or one configuration); the Windows pipe is left    *)
(* out.                                                                     *)
(***************************************************************************)
EXTENDS Naturals, FiniteSets

CONSTANTS Apps,       \* applications, one client name each
          Daemons,    \* processes of the daemon binary, by process id
          Version,    \* app -> <<major, minor>> of the app and of its binary
          Nothing,
          Paths,      \* what the control path may be at the start
          Impatient,  \* apps whose ready_timeout may pass
          MaxFaults,  \* stops, crashes, failed boots and late answers
          MaxEnsures  \* calls of ensure

ASSUME LaunchAssumption ==
  /\ Nothing \notin Daemons /\ MaxFaults \in Nat /\ MaxEnsures \in Nat

VARIABLES
  lock,      \* the process that holds the instance lock
  path,      \* the control path: a process, or what else is there
  proc,      \* the daemon processes
  stale,     \* a host-global service is marked for destruction, without owner
  services,  \* names of data services that exist on the host
  app,       \* the apps
  budget

launchVars == <<lock, path, proc, stale, services, app, budget>>
daemonSide == <<lock, path, proc, stale, services>>

(* Processes that hold a listening socket on the path: connect succeeds. *)
Listening == {d \in Daemons : proc[d].pc \in {"bound", "serving", "stopping"}}
Running == {d \in Daemons : proc[d].pc \notin {"unborn", "gone"}}

(* An app outside ensure.  service is the data service a daemon holds for    *)
(* it; calm is bookkeeping: nothing was stopped, died, failed or was late    *)
(* since this call of ensure began.                                          *)
AtRest(pc) == [pc |-> pc, child |-> Nothing, exited |-> FALSE, conn |-> Nothing,
               hello |-> Nothing, service |-> Nothing, calm |-> FALSE]

LaunchInit ==
  /\ lock = Nothing /\ path \in Paths /\ stale = FALSE /\ services = {}
  /\ proc = [d \in Daemons |-> [pc |-> "unborn", version |-> Nothing, next |-> 0]]
  /\ app = [a \in Apps |-> AtRest("idle")]
  /\ budget = [faults |-> MaxFaults, ensures |-> MaxEnsures]

Spend(b) == budget[b] > 0 /\ budget' = [budget EXCEPT ![b] = @ - 1]
Goes(d, pc) == proc' = [proc EXCEPT ![d].pc = pc]
Becomes(a, rec) == app' = [app EXCEPT ![a] = rec]

(* The app lets go of its connection; the daemon finds out later.            *)
LetsGo(a, pc) == [AtRest(pc) EXCEPT !.service = app[a].service]
Ends(a, pc) == Becomes(a, [LetsGo(a, pc) EXCEPT !.calm = app[a].calm])
Disturbed == app' = [a \in Apps |-> [app[a] EXCEPT !.calm = FALSE]]

-----------------------------------------------------------------------------
(* A daemon process from main to the end of run.                           *)

(* InstanceLock::acquire, before anything shared is touched: a second       *)
(* process reports AlreadyRunning and ends.                                 *)
AcquireLock(d) ==
  /\ proc[d].pc = "starting"
  /\ IF lock = Nothing THEN lock' = d /\ Goes(d, "locked")
                    ELSE Goes(d, "gone") /\ UNCHANGED lock
  /\ UNCHANGED <<path, stale, services, app, budget>>

(* The kernel gives the lock back with the process. *)
Released(d) == IF lock = d THEN Nothing ELSE lock

(* resolve_config_path, Config::load and Server::bootstrap. *)
Bootstrap(d) ==
  /\ proc[d].pc = "locked" /\ Goes(d, "booted")
  /\ UNCHANGED <<lock, path, stale, services, app, budget>>

BootFails(d) ==
  /\ proc[d].pc = "locked" /\ Spend("faults") /\ Disturbed
  /\ Goes(d, "gone") /\ lock' = Released(d)
  /\ UNCHANGED <<path, stale, services>>

(* clear_stale_socket up to the connect: what is not a socket, and a socket  *)
(* somebody listens on, are left alone and the boot fails.                   *)
ProbeStale(d) ==
  /\ proc[d].pc = "booted"
  /\ IF path \in {"file", "foreign"} \cup Listening
       THEN Goes(d, "gone") /\ lock' = Released(d)
       ELSE Goes(d, IF path = "absent" THEN "cleared" ELSE "probed") /\ UNCHANGED lock
  /\ UNCHANGED <<path, stale, services, app, budget>>

RemoveStale(d) ==
  /\ proc[d].pc = "probed" /\ path' = "absent" /\ Goes(d, "cleared")
  /\ UNCHANGED <<lock, stale, services, app, budget>>

(* bind_socket and spawn_control: from here connects succeed, although no    *)
(* request is answered before the loop of run is reached.                    *)
Bind(d) ==
  /\ proc[d].pc = "cleared"
  /\ IF path = "absent"
       THEN path' = d /\ Goes(d, "bound") /\ UNCHANGED lock
       ELSE Goes(d, "gone") /\ lock' = Released(d) /\ UNCHANGED path
  /\ UNCHANGED <<stale, services, app, budget>>

(* The host-global diagnostics and health services, the web and WebSocket    *)
(* surfaces and the signal handlers are up: run enters its loop.             *)
Serve(d) ==
  /\ proc[d].pc = "bound" /\ ~stale /\ Goes(d, "serving")
  /\ UNCHANGED <<lock, path, stale, services, app, budget>>

(* host_global_open_error: what a crash left half removed cannot be opened.  *)
(* The process ends, and its socket file stays.                              *)
PlanesFail(d) ==
  /\ proc[d].pc = "bound" /\ stale
  /\ Goes(d, "gone") /\ lock' = Released(d)
  /\ UNCHANGED <<path, stale, services, app, budget>>

(* start_web: the configured address cannot be bound. *)
WebFails(d) ==
  /\ proc[d].pc = "bound" /\ ~stale /\ Spend("faults") /\ Disturbed
  /\ Goes(d, "gone") /\ lock' = Released(d)
  /\ UNCHANGED <<path, stale, services>>

(* SIGTERM, or an app's shutdown request: the loop ends. *)
Stop(d) ==
  /\ proc[d].pc = "serving" /\ Spend("faults") /\ Disturbed /\ Goes(d, "stopping")
  /\ UNCHANGED <<lock, path, stale, services>>

(* The surfaces are down and drain aborts the accept loop: connects are      *)
(* refused, although the socket file is still there.                         *)
CloseListener(d) ==
  /\ proc[d].pc = "stopping" /\ Goes(d, "draining")
  /\ UNCHANGED <<lock, path, stale, services, app, budget>>

(* The data services of this process. *)
Owned(d) == {n \in services : n.boot = d}

(* Faulty variant: the process lets go of the lock when its drain is done,   *)
(* and unlinks the socket after that.                                        *)
Unlink_late(d) ==
  /\ proc[d].pc \in {"draining", "unlocked"}
  /\ IF proc[d].pc = "draining"
       THEN Goes(d, "unlocked") /\ lock' = Released(d) /\ UNCHANGED <<path, services>>
       ELSE Goes(d, "ending") /\ path' = "absent" /\ services' = services \ Owned(d)
            /\ UNCHANGED lock
  /\ UNCHANGED <<stale, app, budget>>

(* The drain is done or its timeout has passed: the socket is unlinked,      *)
(* whatever is at the path.                                                  *)
Unlink(d) ==
  /\ proc[d].pc = "draining" /\ Goes(d, "ending")
  /\ path' = "absent" /\ services' = services \ Owned(d)
  /\ UNCHANGED <<lock, stale, app, budget>>

ProcessExit(d) ==
  /\ proc[d].pc = "ending" /\ Goes(d, "gone") /\ lock' = Released(d)
  /\ UNCHANGED <<path, stale, services, app, budget>>

(* The process is killed: the file stays, and so do its data services; one   *)
(* of the host-global services may be left half removed.                     *)
Crash(d) ==
  /\ d \in Running /\ Spend("faults") /\ Disturbed
  /\ Goes(d, "gone") /\ lock' = Released(d)
  /\ stale' \in {stale, stale \/ proc[d].pc \in {"serving", "stopping", "draining", "ending"}}
  /\ UNCHANGED <<path, services>>

(* The recovery the daemon's README describes. *)
OperatorRecovers ==
  /\ stale /\ lock = Nothing /\ stale' = FALSE
  /\ UNCHANGED <<lock, path, proc, services, app, budget>>

-----------------------------------------------------------------------------
(* ensure: find a daemon or spawn one and await it, then connect.          *)

Ensure(a) ==
  /\ app[a].pc \in {"idle", "done", "failed"} /\ Spend("ensures")
  /\ Becomes(a, [LetsGo(a, "probe") EXCEPT !.calm =
       /\ \A d \in Running : proc[d].pc = "serving"
       /\ path \notin {"file", "foreign"} /\ ~stale /\ app[a].service = Nothing])
  /\ UNCHANGED daemonSide

(* A failed ping: the first one leads to the spawn, later ones to the poll. *)
PingFailed(a) == [app[a] EXCEPT !.conn = Nothing,
                   !.pc = IF app[a].child = Nothing THEN "spawn" ELSE "poll"]

PingConnect(a) ==
  /\ app[a].pc = "probe"
  /\ Becomes(a, IF path \in Listening THEN [app[a] EXCEPT !.conn = path, !.pc = "await"]
                ELSE PingFailed(a))
  /\ UNCHANGED <<daemonSide, budget>>

(* Only the actor's loop answers a ping, with the version of its binary. *)
Pong(a) ==
  /\ app[a].pc = "await" /\ proc[app[a].conn].pc = "serving"
  /\ Becomes(a, [app[a] EXCEPT !.pc = "check", !.conn = Nothing,
                               !.hello = proc[app[a].conn].version])
  /\ UNCHANGED <<daemonSide, budget>>

(* The probe times out, is refused by a daemon that shuts down, or reads the  *)
(* end of the connection.                                                     *)
PingFails(a) ==
  /\ app[a].pc = "await"
  /\ \/ proc[app[a].conn].pc # "serving" /\ Becomes(a, PingFailed(a)) /\ UNCHANGED budget
     \/ /\ proc[app[a].conn].pc = "serving" /\ Spend("faults")
        /\ Becomes(a, [PingFailed(a) EXCEPT !.calm = FALSE])
  /\ UNCHANGED daemonSide

(* ProcessSpawner::spawn: detached, nobody supervises it. *)
Spawn(a) ==
  /\ app[a].pc = "spawn"
  /\ \/ \E d \in Daemons :
          /\ proc[d].pc = "unborn"
          /\ proc' = [proc EXCEPT ![d].pc = "starting", ![d].version = Version[a]]
          /\ Becomes(a, [app[a] EXCEPT !.child = d, !.pc = "probe"])
          /\ UNCHANGED budget
     \/ Spend("faults") /\ Becomes(a, LetsGo(a, "failed")) /\ UNCHANGED proc
  /\ UNCHANGED <<lock, path, stale, services>>

(* poll_exit: an exit is remembered, and means nothing while the deadline    *)
(* holds.                                                                    *)
Observed(a) == app[a].exited \/ proc[app[a].child].pc = "gone"

(* Faulty variant: the end of the spawned process is the end of ensure. *)
Poll_eager(a) ==
  /\ app[a].pc = "poll"
  /\ IF Observed(a) THEN Ends(a, "failed") ELSE Becomes(a, [app[a] EXCEPT !.pc = "probe"])
  /\ UNCHANGED <<daemonSide, budget>>

(* The loop goes round until the deadline. *)
Poll(a) ==
  /\ app[a].pc = "poll"
  /\ Becomes(a, [app[a] EXCEPT !.pc = "probe", !.exited = Observed(a)])
  /\ UNCHANGED <<daemonSide, budget>>

(* ReadyTimeout, with the diagnosis; there is no second spawn. *)
GiveUp(a) ==
  /\ app[a].pc = "poll" /\ a \in Impatient
  /\ Becomes(a, [LetsGo(a, "failed") EXCEPT !.exited = Observed(a)])
  /\ UNCHANGED <<daemonSide, budget>>

(* version_compatible: the major version, and below 1.0 the minor one too. *)
version_compatible(client, daemon) ==
  client[1] = daemon[1] /\ (client[1] # 0 \/ client[2] = daemon[2])

CheckVersion(a) ==
  /\ app[a].pc = "check"
  /\ IF version_compatible(Version[a], app[a].hello)
       THEN Becomes(a, [app[a] EXCEPT !.pc = "connect"]) ELSE Ends(a, "skewed")
  /\ UNCHANGED <<daemonSide, budget>>

(* Iceoryx2Client::connect: a second connection, to whoever listens now. *)
Connect(a) ==
  /\ app[a].pc = "connect"
  /\ IF path \in Listening THEN Becomes(a, [app[a] EXCEPT !.conn = path, !.pc = "open"])
                             ELSE Ends(a, "failed")
  /\ UNCHANGED <<daemonSide, budget>>

(* Faulty variant: names under the configured prefix alone. *)
DataServiceName_bare(d) == [boot |-> Nothing, id |-> proc[d].next]

(* The configured prefix, which all share, with the boot id of the process:   *)
(* its start second and process id tell it from every other.                  *)
effective_service_prefix(d) == d

(* DataServiceName::new: the boot-scoped prefix and the client id within it. *)
DataServiceName(d) == [boot |-> effective_service_prefix(d), id |-> proc[d].next]

(* The name of the app is in clients: the daemon has not yet heard of the     *)
(* end of an earlier connection.                                              *)
StillOpen(a) == app[a].service # Nothing /\ app[a].service.boot = app[a].conn

(* open_client opens or creates the client's data service and counts it.  A   *)
(* client that is still open is refused; a name that a dead process left      *)
(* behind is opened, or cannot be; the cap, the sink, the session or its      *)
(* stream may fail too, and then the number is used again.                    *)
OpenClient(a) ==
  LET d == app[a].conn name == DataServiceName(d) IN
  /\ app[a].pc = "open" /\ proc[d].pc = "serving"
  /\ \/ /\ ~StillOpen(a)
        /\ proc' = [proc EXCEPT ![d].next = @ + 1] /\ services' = services \cup {name}
        /\ Becomes(a, [app[a] EXCEPT !.pc = "attach", !.service = name])
        /\ UNCHANGED budget
     \/ /\ StillOpen(a) \/ name \in services
        /\ Ends(a, "failed") /\ UNCHANGED <<proc, services, budget>>
     \/ /\ Spend("faults") /\ Becomes(a, LetsGo(a, "failed"))
        /\ UNCHANGED <<proc, services>>
  /\ UNCHANGED <<lock, path, stale>>

(* The request is refused by a daemon that shuts down, or the connection ends; *)
(* without a timeout a daemon that has not reached its loop is waited for.     *)
OpenRefused(a) ==
  /\ app[a].pc = "open" /\ proc[app[a].conn].pc \notin {"bound", "serving", "stopping"}
  /\ Ends(a, "failed")
  /\ UNCHANGED <<daemonSide, budget>>

(* The advertised name is parsed and the subscriber attached.  A service that *)
(* is gone, or whose process is, cannot be opened; the node or the subscriber *)
(* may fail as well.                                                          *)
Attach(a) ==
  /\ app[a].pc = "attach"
  /\ \/ /\ app[a].service \in services
        /\ Becomes(a, [app[a] EXCEPT !.pc = "ready"]) /\ UNCHANGED budget
     \/ /\ app[a].service \notin services \/ app[a].conn \notin Running
        /\ Ends(a, "failed") /\ UNCHANGED budget
     \/ Spend("faults") /\ Becomes(a, LetsGo(a, "failed"))
  /\ UNCHANGED daemonSide

(* The services without the one that a running process holds for a.           *)
WithoutOwn(a) ==
  IF app[a].service.boot \in Running THEN services \ {app[a].service} ELSE services

(* AppHandle::close: the daemon closes the client and keeps running.  A       *)
(* handle that is dropped, or whose request fails, leaves that to the end of  *)
(* the connection.                                                            *)
Close(a) ==
  /\ app[a].pc = "ready"
  /\ \/ Becomes(a, AtRest("done")) /\ services' = WithoutOwn(a)
     \/ Becomes(a, LetsGo(a, "done")) /\ UNCHANGED services
  /\ UNCHANGED <<lock, path, proc, stale, budget>>

(* The daemon reads the end of the connection and tears the client down.      *)
Disconnected(a) ==
  /\ app[a].pc \notin {"attach", "ready"} /\ app[a].service # Nothing
  /\ Becomes(a, [app[a] EXCEPT !.service = Nothing]) /\ services' = WithoutOwn(a)
  /\ UNCHANGED <<lock, path, proc, stale, budget>>

(* AppHandle::shutdown_daemon, which consumes the handle. *)
ShutdownDaemon(a) ==
  /\ app[a].pc = "ready" /\ proc[app[a].conn].pc = "serving" /\ Spend("faults")
  /\ app' = [b \in Apps |-> IF b = a THEN AtRest("done") ELSE [app[b] EXCEPT !.calm = FALSE]]
  /\ Goes(app[a].conn, "stopping")
  /\ UNCHANGED <<lock, path, stale, services>>

-----------------------------------------------------------------------------
DaemonStep(d) ==
  \/ AcquireLock(d) \/ Bootstrap(d) \/ ProbeStale(d) \/ RemoveStale(d) \/ Bind(d)
  \/ Serve(d) \/ PlanesFail(d) \/ CloseListener(d) \/ Unlink(d) \/ ProcessExit(d)

AppStep(a) ==
  \/ PingConnect(a) \/ Pong(a) \/ PingFails(a) \/ Spawn(a) \/ Poll(a) \/ CheckVersion(a)
  \/ Connect(a) \/ OpenClient(a) \/ OpenRefused(a) \/ Attach(a)

LaunchNext ==
  \/ \E d \in Daemons : DaemonStep(d) \/ BootFails(d) \/ WebFails(d) \/ Stop(d) \/ Crash(d)
  \/ OperatorRecovers
  \/ \E a \in Apps : AppStep(a) \/ Ensure(a) \/ GiveUp(a)
                     \/ Close(a) \/ Disconnected(a) \/ ShutdownDaemon(a)

LaunchSpec == LaunchInit /\ [][LaunchNext]_launchVars

(* Processes and tasks run; nobody has to ask for anything.  A daemon that    *)
(* boots, and an app that waits for one, share the time: what a daemon keeps   *)
(* able to do it does before the apps have probed for ever.                    *)
LaunchFairSpec ==
  /\ LaunchSpec
  /\ \A d \in Daemons : WF_launchVars(DaemonStep(d))
  /\ \A a \in Apps : WF_launchVars(AppStep(a))

-----------------------------------------------------------------------------
(* A process holds the lock in every one of these states; in those of       *)
(* OnPath its socket is at the control path.                                *)
Holding == {"locked", "booted", "probed", "cleared", "bound", "serving",
            "stopping", "draining", "ending"}
OnPath == {"bound", "serving", "stopping", "draining"}
ProcStates == Holding \cup {"unborn", "starting", "gone"}
AppStates == {"idle", "probe", "await", "spawn", "poll", "check", "connect", "open",
              "attach", "ready", "done", "failed", "skewed"}

Versions == {Version[a] : a \in Apps} \cup {Nothing}
ServiceNames == [boot : Daemons, id : Nat]
ProcState == [pc : ProcStates, version : Versions, next : Nat]
AppState == [pc : AppStates, child : Daemons \cup {Nothing}, exited : BOOLEAN,
             conn : Daemons \cup {Nothing}, hello : Versions,
             service : ServiceNames \cup {Nothing}, calm : BOOLEAN]

LaunchTypeOK ==
  /\ lock \in Daemons \cup {Nothing} /\ path \in Daemons \cup Paths \cup {"absent"}
  /\ proc \in [Daemons -> ProcState]
  /\ stale \in BOOLEAN /\ services \subseteq ServiceNames
  /\ app \in [Apps -> AppState]
  /\ budget \in [{"faults", "ensures"} -> Nat]

(* Serving alone: a process in its loop holds the lock, and the control path *)
(* leads to it, whoever starts, dies or drains at the same time (the lock is *)
(* taken before anything shared is touched and kept until the socket is      *)
(* unlinked).                                                                *)
ServesAlone == \A d \in Daemons : proc[d].pc = "serving" => lock = d /\ path = d

(* Every handle has a data service of its own: no two connected apps hold    *)
(* one name, and a daemon never meets a name a dead predecessor left         *)
(* (BootScopedPrefix).                                                       *)
OwnService ==
  /\ \A a, b \in Apps : app[a].service = app[b].service => a = b \/ app[a].service = Nothing
  /\ \A d \in Daemons : proc[d].pc = "serving" => DataServiceName(d) \notin services

(* What makes them so.  The lock: whoever is past it holds it, and no other  *)
(* process touches the path then.  The names: a process numbers its data     *)
(* services, so every one in use is below its next number, and an app that   *)
(* talks to a daemon talks to a process.                                     *)
LockHeld == \A d \in Daemons : proc[d].pc \in Holding => lock = d
PathKept == \A d \in Daemons : proc[d].pc \in OnPath => path = d

Numbered(n) == n.id < proc[n.boot].next

Connected ==
  \A a \in Apps : app[a].pc \in {"await", "open", "attach", "ready"} => app[a].conn \in Daemons

NamesInv ==
  /\ \A n \in services : Numbered(n)
  /\ \A a \in Apps : app[a].service # Nothing => Numbered(app[a].service)
  /\ \A a, b \in Apps : app[a].service = app[b].service => a = b \/ app[a].service = Nothing

LaunchInv == LaunchTypeOK /\ LockHeld /\ PathKept /\ Connected /\ NamesInv

(* ensure finds or makes a daemon: in a call during which nothing is stopped, *)
(* dies or fails, and which began with no daemon halfway and no client of its *)
(* own still open, an app that waits long enough gets its handle or hears of  *)
(* the version (a socket a dead process left is cleared, and to lose the      *)
(* spawn race is success).                                                    *)
EnsureSucceeds ==
  \A a \in Apps \ Impatient :
    app[a].pc = "probe" /\ app[a].calm
      ~> app[a].pc \in {"ready", "skewed"} \/ ~app[a].calm

(* The handle ensure returns is for a daemon of a compatible version          *)
(* (check_version: "Gate the connection on the daemon's reported version").   *)
(* Violated: the connection is made after the ping that was checked, and a    *)
(* restart in between goes unnoticed.                                         *)
HandleVersioned ==
  \A a \in Apps : app[a].pc = "ready" =>
    version_compatible(Version[a], proc[app[a].conn].version)

=============================================================================

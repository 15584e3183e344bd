---------------------------- MODULE ConfigService ----------------------------
(***************************************************************************)
(* The configuration and credential services of datamancerd: the config    *)
(* hub (config_hub.rs), the web surface's handle to the config file        *)
(* (web/config_api.rs), the credential hub (credentials.rs) and the file   *)
(* and store they write (Config::save, paths.rs, datamancer-credentials).  *)
(*                                                                         *)
(* Two kinds of callers run at once: control connections, whose request    *)
(* always runs to its end, and HTTP requests, whose future the server      *)
(* drops when the browser goes away.  A dropped request gives up its locks *)
(* while the blocking write it started goes on (an orphan).  Somebody may  *)
(* edit the file by hand, a write may fail, and the daemon may die and be  *)
(* started again.                                                          *)
(***************************************************************************)
EXTENDS Naturals, FiniteSets

CONSTANTS Providers,  \* the compiled-in providers
          Settings,   \* values of a provider's section
          Values,     \* credentials a caller may store
          Env,        \* the credential the environment holds, or None
          Ctl,        \* control connections
          Web,        \* HTTP requests
          Puts,       \* configurations a browser may send
          Edits,      \* file contents a hand edit may leave
          None,
          Torn,       \* the contents of a file that does not parse
          First,      \* the configuration of the first start
          MaxOps, MaxEdits, MaxCancels, MaxCrashes, MaxFaults

(* A provider whose section is missing is disabled. *)
Off == "off"

(* What the API shows in place of the WebSocket token (REDACTED_SECRET). *)
Redacted == "<redacted>"

(* The part of a configuration that matters here: the provider sections,   *)
(* which apply live; one field standing for all the others, which apply at *)
(* the next start, 0 being the value that validation rejects; the token.   *)
IsConfig(c) == c # Torn

(* The configurations that can come up, from a caller, an editor or a file. *)
Tokens == {c.token : c \in {First} \cup Puts \cup (Edits \ {Torn})}
Config == [provider : [Providers -> Settings \cup {Off}], cold : Nat, token : Tokens]

(* The placeholder is what a browser sends back; nobody types it into the   *)
(* file.                                                                    *)
ASSUME ConfigAssumption ==
  /\ MaxOps \in Nat /\ MaxEdits \in Nat /\ MaxCancels \in Nat
  /\ MaxCrashes \in Nat /\ MaxFaults \in Nat
  /\ IsFiniteSet(Providers) /\ Ctl \cap Web = {} /\ None \notin Ctl \cup Web
  /\ Torn \notin Config /\ None \notin Config
  /\ First \in Config /\ First.token # Redacted
  /\ Puts \subseteq Config
  /\ \A c \in Edits \ {Torn} : c \in Config /\ c.token # Redacted

(* Config::validate: a knob that is fatal at run time is refused. *)
validate(c) == c.cold > 0

(* Everything outside provider.* is cold; the token is part of [ws]. *)
cold_divergence(a, b) == a.cold # b.cold \/ a.token # b.token

Actors == Ctl \cup Web

VARIABLES
  up,       \* the daemon runs
  file,     \* the config file: a configuration or Torn
  tmp,      \* its `.tmp` sibling: a configuration, Torn or None
  boot,     \* ConfigHub.boot
  current,  \* HubState.current
  watch,    \* provider -> the settings the provider sees
  hubLock,  \* who holds ConfigHub.state, or None
  ioLock,   \* who holds ConfigState.io_lock, or None
  flag,     \* ConfigState.restart_required
  op,       \* actor -> what it is doing
  orphans,  \* the writes that dropped requests left behind
  store,    \* provider -> its stored credential, or None
  creds,    \* provider -> the credential the provider sees, or None
  budget,   \* what may still happen
  astray,   \* ghost: the file was last changed behind the hub's back
  touched,  \* ghost: that happened at some time since the start
  meant,    \* ghost: the token a caller last asked the file to hold
  unread    \* ghost: providers whose stored credential could not be read

hub   == <<boot, current, watch>>
locks == <<hubLock, ioLock>>
cred  == <<store, creds, unread>>
ghost == <<astray, touched, meant>>
disk  == <<file, tmp, ghost>>
vars  == <<up, disk, hub, locks, flag, op, orphans, cred, budget>>

Idle == [pc |-> "idle"]

Init ==
  /\ up = TRUE
  /\ file = First /\ tmp = None
  /\ astray = FALSE /\ touched = FALSE /\ meant = First.token
  /\ boot = First /\ current = First /\ watch = First.provider
  /\ hubLock = None /\ ioLock = None /\ flag = FALSE
  /\ op = [a \in Actors |-> Idle] /\ orphans = {}
  /\ store = [p \in Providers |-> None]
  /\ creds = [p \in Providers |-> IF First.provider[p] # Off THEN Env ELSE None]
  /\ unread = {}
  /\ budget = [ops |-> MaxOps, edits |-> MaxEdits, cancels |-> MaxCancels,
               crashes |-> MaxCrashes, faults |-> MaxFaults]

Spend(b) == budget[b] > 0 /\ budget' = [budget EXCEPT ![b] = @ - 1]

-----------------------------------------------------------------------------
(* The configuration: validate, persist, apply, under the hub's lock.      *)

(* The lock is held while the blocking pool writes c. *)
BeginSave(a, c, explicit) ==
  /\ hubLock = None /\ hubLock' = a
  /\ op' = [op EXCEPT ![a] = [pc |-> "saving", cfg |-> c, explicit |-> explicit]]

(* configure_provider with settings s, remove_provider when s is Off: the   *)
(* candidate is the hub's configuration with this one section replaced.     *)
(* Bad settings and unknown providers return before anything changes.       *)
ConfigureProvider(a, p, s) ==
  /\ up /\ op[a] = Idle /\ Spend("ops")
  /\ BeginSave(a, [current EXCEPT !.provider[p] = s], FALSE)
  /\ UNCHANGED <<up, disk, hub, ioLock, flag, orphans, cred>>

(* Faulty variant: only an absent token is filled in, so that the            *)
(* placeholder is taken for a new secret.                                    *)
Restored_kept(c) == c

(* ConfigState::write up to the hub: under io_lock, an echoed placeholder is *)
(* replaced by the token of the file; a file that does not parse ends it.    *)
Restored(c) == IF c.token = Redacted THEN [c EXCEPT !.token = file.token] ELSE c

PutConfig(a, c) ==
  /\ up /\ op[a] = Idle /\ Spend("ops")
  /\ ioLock = None
  /\ IF c.token = Redacted /\ ~IsConfig(file)
       THEN UNCHANGED <<ioLock, op>>
       ELSE /\ ioLock' = a
            /\ op' = [op EXCEPT ![a] = [pc |-> "apply_full", cfg |-> Restored(c),
                                        explicit |-> c.token # Redacted]]
  /\ UNCHANGED <<up, disk, hub, hubLock, flag, orphans, cred>>

apply_full(a) ==
  /\ op[a].pc = "apply_full"
  /\ BeginSave(a, op[a].cfg, op[a].explicit)
  /\ UNCHANGED <<up, disk, hub, ioLock, flag, orphans, cred, budget>>

(* Config::save and atomic_write, on the blocking pool: validate, then       *)
(* create, fill and sync `<path>.tmp`, then rename it over the file.  A      *)
(* write that finds another writer between these two steps shares its        *)
(* temporary file, and may leave a mixture in it.                            *)
Savers == {a \in Actors : op[a].pc \in {"saving", "renaming"}}
Midway(others, left) == \/ \E a \in others : op[a].pc = "renaming"
                        \/ \E o \in left : o.pc = "renaming"

WriteTmp(c, midway, next) ==
  \/ /\ validate(c)
     /\ \E t \in {c} \cup (IF midway THEN {Torn} ELSE {}) : tmp' = t
     /\ next = "renaming"
     /\ UNCHANGED budget
  \/ ~validate(c) /\ next = "failed" /\ UNCHANGED <<tmp, budget>>
  \/ validate(c) /\ Spend("faults") /\ tmp' = None /\ next = "failed"

(* The write of a request that still waits for it. *)
SaveStep(a) ==
  /\ op[a].pc = "saving"
  /\ \E next \in {"renaming", "failed"} :
       /\ WriteTmp(op[a].cfg, Midway(Savers \ {a}, orphans), next)
       /\ op' = [op EXCEPT ![a].pc = next]
  /\ UNCHANGED <<up, file, ghost, hub, locks, flag, orphans, cred>>

RenameStep(a) ==
  /\ op[a].pc = "renaming"
  /\ tmp' = None
  /\ IF tmp = None
       THEN /\ op' = [op EXCEPT ![a].pc = "failed"]
            /\ UNCHANGED <<file, ghost>>
       ELSE /\ file' = tmp
            /\ astray' = (tmp # op[a].cfg) /\ touched' = (touched \/ astray')
            /\ meant' = IF op[a].explicit THEN op[a].cfg.token ELSE meant
            /\ op' = [op EXCEPT ![a].pc = "saved"]
  /\ UNCHANGED <<up, hub, locks, flag, orphans, cred, budget>>

(* persist / apply_full after a successful write: the configuration becomes *)
(* current and every changed section is sent to its provider.  The web      *)
(* handle then stores the restart flag.                                     *)
CommitSave(a) ==
  /\ op[a].pc = "saved"
  /\ current' = op[a].cfg /\ watch' = op[a].cfg.provider
  /\ flag' = IF a \in Web THEN cold_divergence(boot, op[a].cfg) ELSE flag
  /\ hubLock' = None /\ ioLock' = IF ioLock = a THEN None ELSE ioLock
  /\ op' = [op EXCEPT ![a] = Idle]
  /\ UNCHANGED <<up, disk, boot, orphans, cred, budget>>

(* Faulty variant: the configuration is committed before the verdict of the *)
(* write is known.                                                          *)
FailSave_committed(a) ==
  /\ op[a].pc = "failed"
  /\ current' = op[a].cfg /\ watch' = op[a].cfg.provider
  /\ hubLock' = None /\ ioLock' = IF ioLock = a THEN None ELSE ioLock
  /\ op' = [op EXCEPT ![a] = Idle]
  /\ UNCHANGED <<up, disk, boot, flag, orphans, cred, budget>>

(* A failed write leaves the hub, the providers and the flag as they were. *)
FailSave(a) ==
  /\ op[a].pc = "failed"
  /\ hubLock' = None /\ ioLock' = IF ioLock = a THEN None ELSE ioLock
  /\ op' = [op EXCEPT ![a] = Idle]
  /\ UNCHANGED <<up, disk, hub, flag, orphans, cred, budget>>

(* ConfigState::read_disk: the file is read under io_lock; comparing it with *)
(* the hub's configuration needs the hub's lock, so another change may come  *)
(* between the two.                                                          *)
GetConfig(a) ==
  /\ up /\ op[a] = Idle /\ Spend("ops")
  /\ ioLock = None
  /\ IF IsConfig(file)
       THEN ioLock' = a /\ op' = [op EXCEPT ![a] = [pc |-> "comparing", cfg |-> file]]
       ELSE UNCHANGED <<ioLock, op>>
  /\ UNCHANGED <<up, disk, hub, hubLock, flag, orphans, cred>>

(* Faulty variant: the file is compared with the boot configuration alone. *)
DiskFlag_boot(c) == cold_divergence(boot, c)

(* store_disk_flag: a cold difference from the boot configuration, or any   *)
(* difference from what the hub holds.                                      *)
DiskFlag(c) == cold_divergence(boot, c) \/ c # current

store_disk_flag(a) ==
  /\ op[a].pc = "comparing"
  /\ hubLock = None
  /\ flag' = DiskFlag(op[a].cfg)
  /\ ioLock' = None /\ op' = [op EXCEPT ![a] = Idle]
  /\ UNCHANGED <<up, disk, hub, hubLock, orphans, cred, budget>>

(* The browser goes away: the handler's future is dropped and its guards    *)
(* with it; a write already handed to the blocking pool is not.  (The number *)
(* only tells two such writes apart.)                                        *)
DropRequest(a) ==
  /\ op[a] # Idle /\ Spend("cancels")
  /\ orphans' = IF a \in Savers
                  THEN orphans \cup {[pc |-> op[a].pc, cfg |-> op[a].cfg, id |-> budget.cancels]}
                  ELSE orphans
  /\ astray' = (astray \/ op[a].pc = "saved") /\ touched' = (touched \/ astray')
  /\ hubLock' = (IF hubLock = a THEN None ELSE hubLock)
  /\ ioLock' = (IF ioLock = a THEN None ELSE ioLock)
  /\ op' = [op EXCEPT ![a] = Idle]
  /\ UNCHANGED <<up, file, tmp, meant, hub, flag, cred>>

OrphanWrites(o) ==
  /\ o.pc = "saving"
  /\ \E next \in {"renaming", "failed"} :
       /\ WriteTmp(o.cfg, Midway(Savers, orphans \ {o}), next)
       /\ orphans' = (orphans \ {o})
                       \cup (IF next = "failed" THEN {} ELSE {[o EXCEPT !.pc = next]})
  /\ UNCHANGED <<up, file, ghost, hub, locks, flag, op, cred>>

OrphanRenames(o) ==
  /\ o.pc = "renaming"
  /\ orphans' = orphans \ {o} /\ tmp' = None
  /\ IF tmp = None THEN UNCHANGED <<file, astray, touched>>
     ELSE file' = tmp /\ astray' = TRUE /\ touched' = TRUE
  /\ UNCHANGED <<up, meant, hub, locks, flag, op, cred, budget>>

-----------------------------------------------------------------------------
(* The credentials: one lock per provider around persist and apply.        *)

Holds(p) == \E a \in Actors : op[a].pc = "stored" /\ op[a].p = p

(* CredentialHub::set up to the answer of the store; a store that refuses   *)
(* leaves everything as it was.                                             *)
SetCredentials(a, p, v) ==
  /\ up /\ op[a] = Idle /\ Spend("ops")
  /\ ~Holds(p)
  /\ store' = [store EXCEPT ![p] = v]
  /\ op' = [op EXCEPT ![a] = [pc |-> "stored", p |-> p, cfg |-> v]]
  /\ UNCHANGED <<up, disk, hub, locks, flag, orphans, creds, unread>>

(* ... and the hot apply on the provider's watch, after which the lock goes. *)
ApplyCredentials(a) ==
  /\ op[a].pc = "stored"
  /\ creds' = [creds EXCEPT ![op[a].p] = op[a].cfg]
  /\ unread' = unread \ {op[a].p}
  /\ op' = [op EXCEPT ![a] = Idle]
  /\ UNCHANGED <<up, disk, hub, locks, flag, orphans, store, budget>>

(* CredentialHub::clear: the store forgets, the running provider does not. *)
ClearCredentials(a, p) ==
  /\ up /\ op[a] = Idle /\ Spend("ops")
  /\ ~Holds(p)
  /\ store' = [store EXCEPT ![p] = None]
  /\ UNCHANGED <<up, disk, hub, locks, flag, op, orphans, creds, unread>>

-----------------------------------------------------------------------------
(* The world: hand edits, death, the next start.                           *)

HandEdit(c) ==
  /\ Spend("edits")
  /\ file' = c /\ astray' = TRUE /\ touched' = TRUE
  /\ UNCHANGED <<up, tmp, meant, hub, locks, flag, op, orphans, cred>>

(* The process ends, by a crash or on request: only the disk survives. *)
Die ==
  /\ up /\ Spend("crashes")
  /\ up' = FALSE
  /\ hubLock' = None /\ ioLock' = None /\ flag' = FALSE
  /\ op' = [a \in Actors |-> Idle] /\ orphans' = {}
  /\ UNCHANGED <<disk, hub, cred>>

(* Faulty variant: the environment is consulted first. *)
Seed_env(p, read) ==
  IF file.provider[p] # Off /\ Env # None THEN Env ELSE IF read THEN store[p] ELSE None

(* What a provider starts with: the stored credential when it can be read,  *)
(* else the environment's if its section is present, else nothing.          *)
Seed(p, read) ==
  IF read /\ store[p] # None THEN store[p]
  ELSE IF file.provider[p] # Off THEN Env ELSE None

(* Config::load, CredentialHub::bootstrap, ConfigHub::bootstrap and          *)
(* ConfigState::new.  A file that does not parse or does not validate keeps  *)
(* the daemon down.                                                          *)
Boot ==
  /\ ~up /\ IsConfig(file) /\ validate(file)
  /\ up' = TRUE
  /\ boot' = file /\ current' = file /\ watch' = file.provider
  /\ astray' = FALSE /\ touched' = FALSE /\ meant' = file.token
  /\ \E bad \in SUBSET Providers :
       /\ Cardinality(bad) <= budget.faults
       /\ budget' = [budget EXCEPT !.faults = @ - Cardinality(bad)]
       /\ unread' = bad
       /\ creds' = [p \in Providers |-> Seed(p, p \notin bad)]
  /\ UNCHANGED <<file, tmp, locks, flag, op, orphans, store>>

Next ==
  \/ \E a \in Ctl, p \in Providers, s \in Settings \cup {Off} : ConfigureProvider(a, p, s)
  \/ \E a \in Ctl, p \in Providers, v \in Values : SetCredentials(a, p, v)
  \/ \E a \in Ctl, p \in Providers : ClearCredentials(a, p)
  \/ \E a \in Ctl : ApplyCredentials(a)
  \/ \E a \in Web, c \in Puts : PutConfig(a, c)
  \/ \E a \in Web : GetConfig(a) \/ apply_full(a) \/ store_disk_flag(a) \/ DropRequest(a)
  \/ \E a \in Actors : SaveStep(a) \/ RenameStep(a) \/ CommitSave(a) \/ FailSave(a)
  \/ \E o \in orphans : OrphanWrites(o) \/ OrphanRenames(o)
  \/ \E c \in Edits : HandEdit(c)
  \/ Die \/ Boot

Spec == Init /\ [][Next]_vars

-----------------------------------------------------------------------------
SavePcs == {"saving", "renaming", "saved", "failed"}

(* What an actor may be doing: a change on its way to the file, a page that *)
(* is being read, a credential between the store and the provider.          *)
Op ==
  {Idle} \cup [pc : {"apply_full"} \cup SavePcs, cfg : Config, explicit : BOOLEAN]
         \cup [pc : {"comparing"}, cfg : Config]
         \cup [pc : {"stored"}, p : Providers, cfg : Values]

TypeOK ==
  /\ up \in BOOLEAN /\ flag \in BOOLEAN /\ astray \in BOOLEAN /\ touched \in BOOLEAN
  /\ file \in Config \cup {Torn} /\ tmp \in Config \cup {Torn, None}
  /\ boot \in Config /\ current \in Config /\ meant \in Tokens
  /\ hubLock \in Actors \cup {None} /\ ioLock \in Actors \cup {None}
  /\ op \in [Actors -> Op]
  /\ orphans \subseteq [pc : {"saving", "renaming"}, cfg : Config, id : Nat]
  /\ store \in [Providers -> Values \cup {None}]
  /\ creds \in [Providers -> Values \cup {Env, None}] /\ unread \subseteq Providers
  /\ budget \in [{"ops", "edits", "cancels", "crashes", "faults"} -> Nat]

(* Whenever nobody holds the hub's lock, the providers run on the hub's     *)
(* configuration, and the file holds it too, unless somebody edited the     *)
(* file by hand or a dropped request's write landed since: a write that     *)
(* fails at any step, a restart in the middle of one, and two writers at    *)
(* once never leave the three apart (config_hub.rs, persist and apply).     *)
FileMatchesApplied ==
  up /\ hubLock = None => /\ watch = current.provider
                          /\ ~astray => file = current

(* The placeholder never reaches the file, and as long as nobody goes behind *)
(* the hub's back the token in the file is the one a caller last gave it: a  *)
(* provider reconfigured, a browser sending the redacted view back and a     *)
(* restart in between never replace it (ConfigState::write).                 *)
SecretKept ==
  /\ IsConfig(file) => file.token # Redacted
  /\ up /\ ~touched => file.token = meant

(* While the hub holds a cold change, the web page says that a restart is    *)
(* needed, whoever changed the file and in whatever order the page was read  *)
(* (write, store_disk_flag).                                                 *)
FlagHonest ==
  up /\ hubLock = None /\ ioLock = None /\ cold_divergence(boot, current) => flag

(* A provider never runs on another credential than the stored one, once the *)
(* call that stored it is over: neither two callers at once nor a death      *)
(* between the store and the apply leave them apart (CredentialHub).         *)
CredsAgree ==
  \A p \in Providers :
    up /\ ~Holds(p) /\ store[p] # None /\ p \notin unread => creds[p] = store[p]

(***************************************************************************)
(* What makes them so.                                                     *)
(***************************************************************************)

(* A daemon that is down does nothing.                                      *)
Down == ~up => orphans = {} /\ \A a \in Actors : op[a] = Idle

(* Who is past BeginSave holds the hub's lock, every step of a browser's    *)
(* request up to its end is under io_lock, and credentials come in over     *)
(* control connections only.                                                *)
Locked ==
  \A a \in Actors :
    /\ op[a].pc \in SavePcs <=> hubLock = a
    /\ op[a].pc \in {"apply_full", "comparing"} => a \in Web
    /\ a \in Web /\ op[a].pc # "idle" => ioLock = a
    /\ op[a].pc = "stored" => a \in Ctl
    /\ op[a].pc \in {"apply_full"} \cup SavePcs /\ op[a].explicit => a \in Web

(* FileMatchesApplied, between a rename and its commit as well.             *)
Matching ==
  /\ watch = current.provider
  /\ up /\ ~astray =>
       file = IF \E a \in Actors : op[a].pc = "saved" THEN op[hubLock].cfg ELSE current

(* SecretKept, and that neither the temporary file nor a write under way    *)
(* would break it: a write that was not asked to change the token carries   *)
(* the one that is meant.                                                   *)
Secret ==
  /\ \A c \in {file, tmp} : c \in Config => c.token # Redacted
  /\ current.token # Redacted
  /\ \A o \in orphans : o.cfg.token # Redacted
  /\ \A a \in Actors : op[a].pc \in {"apply_full"} \cup SavePcs => op[a].cfg.token # Redacted
  /\ astray => touched
  /\ up /\ ~touched =>
       /\ file.token = meant
       /\ \A a \in Actors :
            op[a].pc \in {"apply_full", "saving", "renaming"} /\ ~op[a].explicit
              => op[a].cfg.token = meant

(* CredsAgree, and one holder per provider, who applies what is stored.     *)
Stored ==
  /\ \A a \in Actors : op[a].pc = "stored" => store[op[a].p] = op[a].cfg
  /\ \A a, b \in Actors :
       op[a].pc = "stored" /\ op[b].pc = "stored" /\ op[a].p = op[b].p => a = b
  /\ CredsAgree

(* FlagHonest, under the locks as well: a caller on a control connection    *)
(* changes providers only, so nothing cold comes in past the web handle.    *)
Flagged ==
  /\ up /\ cold_divergence(boot, current) => flag
  /\ \A a \in Ctl : op[a].pc \in SavePcs =>
       op[a].cfg.cold = current.cold /\ op[a].cfg.token = current.token

ConfigInv == TypeOK /\ Down /\ Locked /\ Matching /\ Secret /\ Stored

=============================================================================

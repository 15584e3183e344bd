------------------------- MODULE ConfigServiceProofs -------------------------
(***************************************************************************)
(* Machine-checked proofs about ConfigService: for any callers, providers,  *)
(* configurations and credentials, and any number of dropped requests,      *)
(* failed writes, hand edits and restarts, the file, the hub and the        *)
(* providers agree, the token is never lost, and a stored credential is the *)
(* one in use.                                                              *)
(***************************************************************************)
EXTENDS ConfigService, FiniteSetTheorems, TLAPS

Budgets == [{"ops", "edits", "cancels", "crashes", "faults"} -> Nat]
Leftover == [pc : {"saving", "renaming"}, cfg : Config, id : Nat]

(* What is known of an actor at each place.                                 *)
LEMMA OpIs ==
  ASSUME NEW o \in Op
  PROVE  /\ o.pc \in {"idle", "apply_full", "comparing", "stored"} \cup SavePcs
         /\ o.pc = "idle" <=> o = Idle
         /\ o.pc \in {"apply_full"} \cup SavePcs =>
              /\ o = [pc |-> o.pc, cfg |-> o.cfg, explicit |-> o.explicit]
              /\ o.cfg \in Config /\ o.explicit \in BOOLEAN
         /\ o.pc = "comparing" => o = [pc |-> "comparing", cfg |-> o.cfg] /\ o.cfg \in Config
         /\ o.pc = "stored" => o.p \in Providers /\ o.cfg \in Values
  BY DEF Op, Idle, SavePcs

LEMMA OpAt ==
  ASSUME TypeOK, NEW a \in Actors
  PROVE  op[a] \in Op
  BY DEF TypeOK

LEMMA IdleIs == Idle \in Op /\ Idle.pc = "idle"
  BY DEF Op, Idle

(* A change on its way is an operation, wherever it is.                     *)
LEMMA ChangeIs ==
  ASSUME NEW pc \in {"apply_full"} \cup SavePcs, NEW c \in Config, NEW e \in BOOLEAN
  PROVE  [pc |-> pc, cfg |-> c, explicit |-> e] \in Op
  BY DEF Op

(* A section replaced, and a token put back, make a configuration.          *)
LEMMA Reconfigured ==
  ASSUME NEW c \in Config, NEW p \in Providers, NEW s \in Settings \cup {Off}
  PROVE  /\ [c EXCEPT !.provider[p] = s] \in Config
         /\ [c EXCEPT !.provider[p] = s].token = c.token
  BY DEF Config

LEMMA RestoredIs ==
  ASSUME TypeOK, Secret, NEW c \in Puts, c.token = Redacted => IsConfig(file)
  PROVE  /\ Restored(c) \in Config /\ Restored(c).token # Redacted
         /\ c.token = Redacted => Restored(c).token = file.token
         /\ c.token # Redacted => Restored(c).token = c.token
  <1>1. c \in Config
    BY ConfigAssumption
  <1>2. CASE c.token = Redacted
    <2>1. file \in Config /\ file.token # Redacted
      BY <1>2 DEF TypeOK, IsConfig, Secret
    <2> QED
      BY <1>1, <1>2, <2>1 DEF Restored, Config
  <1>3. CASE c.token # Redacted
    BY <1>1, <1>3 DEF Restored
  <1> QED
    BY <1>2, <1>3

LEMMA SpendIs ==
  ASSUME TypeOK, NEW b \in {"ops", "edits", "cancels", "crashes", "faults"}, Spend(b)
  PROVE  budget' \in Budgets
  BY DEF TypeOK, Spend, Budgets

(* The temporary file after a write: what was meant, a mixture, or nothing  *)
(* new.                                                                     *)
LEMMA WriteTmpIs ==
  ASSUME TypeOK, NEW c \in Config, NEW m, NEW next, WriteTmp(c, m, next)
  PROVE  tmp' \in {c, Torn, None, tmp} /\ budget' \in Budgets
  BY SpendIs DEF WriteTmp, TypeOK, Budgets

-----------------------------------------------------------------------------
(* Steps of one actor: what the parts of the invariant ask of it.           *)

LEMMA OpUpdate ==
  ASSUME TypeOK, NEW a \in Actors, NEW v \in Op, op' = [op EXCEPT ![a] = v]
  PROVE  /\ op' \in [Actors -> Op] /\ op'[a] = v
         /\ \A b \in Actors : b # a => op'[b] = op[b]
  BY DEF TypeOK

LEMMA DownOp ==
  ASSUME Down, up' = up, up
  PROVE  Down'
  BY DEF Down

LEMMA LockedOp ==
  ASSUME TypeOK, Locked, NEW a \in Actors, NEW v \in Op, op' = [op EXCEPT ![a] = v],
         \A b \in Actors : b # a => (hubLock' = b <=> hubLock = b) /\ (ioLock = b => ioLock' = b),
         v.pc \in SavePcs <=> hubLock' = a,
         v.pc \in {"apply_full", "comparing"} => a \in Web,
         a \in Web /\ v.pc # "idle" => ioLock' = a,
         v.pc = "stored" => a \in Ctl,
         v.pc \in {"apply_full"} \cup SavePcs /\ v.explicit => a \in Web
  PROVE  Locked'
  BY OpUpdate DEF Locked

LEMMA MatchingOp ==
  ASSUME TypeOK, Locked, Locked', Matching, UNCHANGED <<up, astray, file, current, watch>>,
         \A a \in Actors : /\ op'[a].pc = "saved" <=> op[a].pc = "saved"
                           /\ op[a].pc = "saved" => op'[a] = op[a]
  PROVE  Matching'
  <1>1. CASE \E a \in Actors : op[a].pc = "saved"
    <2>1. PICK a \in Actors : op[a].pc = "saved"
      BY <1>1
    <2>2. hubLock = a /\ hubLock' = a /\ op'[a] = op[a]
      BY <2>1 DEF Locked, SavePcs
    <2> QED
      BY <2>1, <2>2 DEF Matching
  <1>2. CASE ~ \E a \in Actors : op[a].pc = "saved"
    BY <1>2 DEF Matching
  <1> QED
    BY <1>1, <1>2

LEMMA SecretOp ==
  ASSUME TypeOK, Secret, UNCHANGED <<up, file, current, astray, touched, meant>>,
         tmp' \in Config => tmp'.token # Redacted,
         \A o \in orphans' : o.cfg.token # Redacted,
         NEW a \in Actors, NEW v \in Op, op' = [op EXCEPT ![a] = v],
         v.pc \in {"apply_full"} \cup SavePcs => v.cfg.token # Redacted,
         up /\ ~touched /\ v.pc \in {"apply_full", "saving", "renaming"} /\ ~v.explicit
           => v.cfg.token = meant
  PROVE  Secret'
  <1>1. op'[a] = v /\ \A b \in Actors : b # a => op'[b] = op[b]
    BY OpUpdate
  <1>2. \A b \in Actors : op'[b].pc \in {"apply_full"} \cup SavePcs => op'[b].cfg.token # Redacted
    BY <1>1 DEF Secret
  <1>3. \A b \in Actors :
          up /\ ~touched /\ op'[b].pc \in {"apply_full", "saving", "renaming"} /\ ~op'[b].explicit
            => op'[b].cfg.token = meant
    BY <1>1 DEF Secret
  <1>4. \A c \in {file', tmp'} : c \in Config => c.token # Redacted
    BY DEF Secret
  <1> QED
    BY <1>2, <1>3, <1>4 DEF Secret, Config, Tokens

LEMMA StoredOp ==
  ASSUME Stored, UNCHANGED <<store, creds, unread>>, up' => up,
         \A a \in Actors : /\ op'[a].pc = "stored" <=> op[a].pc = "stored"
                           /\ op[a].pc = "stored" => op'[a] = op[a]
  PROVE  Stored'
  <1>1. \A p \in Providers : Holds(p)' <=> Holds(p)
    BY DEF Holds
  <1>2. CredsAgree'
    BY <1>1 DEF Stored, CredsAgree
  <1> QED
    BY <1>2 DEF Stored

-----------------------------------------------------------------------------
(* A change is announced, or a page asked for.                              *)
LEMMA RequestStep ==
  ASSUME ConfigInv, NEW a \in Actors,
         \/ a \in Ctl /\ \E p \in Providers, s \in Settings \cup {Off} : ConfigureProvider(a, p, s)
         \/ a \in Web /\ \E c \in Puts : PutConfig(a, c)
         \/ a \in Web /\ (GetConfig(a) \/ apply_full(a) \/ store_disk_flag(a))
  PROVE  ConfigInv'
  <1> USE DEF ConfigInv
  <1>1. /\ UNCHANGED <<up, file, tmp, astray, touched, meant, boot, current, watch, orphans, store,
                       creds, unread>>
        /\ budget' = budget \/ Spend("ops")
    BY DEF ConfigureProvider, PutConfig, GetConfig, apply_full, store_disk_flag, disk, ghost, hub, cred
  <1>2. op[a] \in Op /\ a # None
    BY OpAt, ConfigAssumption DEF Actors
  <1>3. PICK v \in Op :
          /\ op' = [op EXCEPT ![a] = v]
          /\ up /\ op[a].pc \notin SavePcs \cup {"stored"}
          /\ v.pc \notin {"stored", "renaming", "saved", "failed"}
          /\ v.pc = "saving" => hubLock = None /\ hubLock' = a
          /\ v.pc # "saving" => hubLock' = hubLock
          /\ ioLock' \in {ioLock, None, a} /\ (ioLock = a \/ ioLock = None \/ ioLock' = ioLock)
          /\ v.pc \in {"apply_full", "comparing"} => a \in Web
          /\ a \in Web /\ v.pc # "idle" => ioLock' = a
          /\ v.pc \in {"apply_full", "saving"} =>
               /\ v.explicit => a \in Web
               /\ v.cfg.token # Redacted
               /\ up /\ ~touched /\ ~v.explicit => v.cfg.token = meant
    <2>1. CASE a \in Ctl /\ \E p \in Providers, s \in Settings \cup {Off} : ConfigureProvider(a, p, s)
      <3>1. PICK p \in Providers, s \in Settings \cup {Off} : ConfigureProvider(a, p, s)
        BY <2>1
      <3> DEFINE c == [current EXCEPT !.provider[p] = s]
                 v == [pc |-> "saving", cfg |-> c, explicit |-> FALSE]
      <3>2. c \in Config /\ c.token = current.token
        BY Reconfigured DEF TypeOK
      <3>3. /\ op' = [op EXCEPT ![a] = v] /\ up /\ op[a] = Idle /\ hubLock = None /\ hubLock' = a
            /\ ioLock' = ioLock
        BY <3>1 DEF ConfigureProvider, BeginSave
      <3> HIDE DEF c
      <3>4. v \in Op
        BY <3>2, ChangeIs DEF SavePcs
      <3>5. current.token # Redacted
        BY DEF Secret
      <3>6. up /\ ~touched => current.token = meant
        <4>1. \A b \in Actors : op[b].pc # "saved"
          BY <3>3, ConfigAssumption DEF Locked, SavePcs, Actors
        <4>2. up /\ ~touched => file = current /\ file.token = meant
          BY <4>1 DEF Secret, Matching
        <4> QED
          BY <4>2
      <3>7. a \notin Web /\ op[a].pc = "idle"
        BY <2>1, <3>3, ConfigAssumption, IdleIs
      <3> QED
        BY <3>2, <3>3, <3>4, <3>5, <3>6, <3>7 DEF SavePcs
    <2>2. CASE a \in Web /\ \E c \in Puts : PutConfig(a, c)
      <3>1. PICK c \in Puts : PutConfig(a, c)
        BY <2>2
      <3>2. up /\ op[a] = Idle /\ ioLock = None /\ op[a].pc = "idle" /\ hubLock' = hubLock
        BY <3>1, IdleIs DEF PutConfig
      <3>3. CASE c.token = Redacted /\ ~IsConfig(file)
        <4>1. op' = op /\ ioLock' = ioLock
          BY <3>1, <3>3 DEF PutConfig
        <4>2. op' = [op EXCEPT ![a] = Idle]
          BY <3>2, <4>1 DEF TypeOK
        <4> QED
          BY <3>2, <4>1, <4>2, IdleIs DEF SavePcs
      <3>4. CASE ~(c.token = Redacted /\ ~IsConfig(file))
        <4> DEFINE e == c.token # Redacted
                   v == [pc |-> "apply_full", cfg |-> Restored(c), explicit |-> e]
        <4>1. op' = [op EXCEPT ![a] = v] /\ ioLock' = a
          BY <3>1, <3>4 DEF PutConfig
        <4>2. /\ Restored(c) \in Config /\ Restored(c).token # Redacted
              /\ c.token = Redacted => Restored(c).token = file.token
          BY <3>4, RestoredIs
        <4>3. v \in Op
          BY <4>2, ChangeIs
        <4>4. up /\ ~touched => file.token = meant
          BY DEF Secret
        <4> QED
          BY <2>2, <3>2, <4>1, <4>2, <4>3, <4>4 DEF SavePcs
      <3> QED
        BY <3>3, <3>4
    <2>3. CASE a \in Web /\ GetConfig(a)
      <3>1. up /\ op[a] = Idle /\ ioLock = None /\ op[a].pc = "idle" /\ hubLock' = hubLock
        BY <2>3, IdleIs DEF GetConfig
      <3>2. CASE IsConfig(file)
        <4> DEFINE v == [pc |-> "comparing", cfg |-> file]
        <4>1. op' = [op EXCEPT ![a] = v] /\ ioLock' = a
          BY <2>3, <3>2 DEF GetConfig
        <4>2. v \in Op
          BY <3>2 DEF Op, TypeOK, IsConfig
        <4> QED
          BY <2>3, <3>1, <4>1, <4>2 DEF SavePcs
      <3>3. CASE ~IsConfig(file)
        <4>1. op' = op /\ ioLock' = ioLock
          BY <2>3, <3>3 DEF GetConfig
        <4>2. op' = [op EXCEPT ![a] = Idle]
          BY <3>1, <4>1 DEF TypeOK
        <4> QED
          BY <3>1, <4>1, <4>2, IdleIs DEF SavePcs
      <3> QED
        BY <3>2, <3>3
    <2>4. CASE a \in Web /\ apply_full(a)
      <3> DEFINE v == [pc |-> "saving", cfg |-> op[a].cfg, explicit |-> op[a].explicit]
      <3>1. /\ op[a].pc = "apply_full" /\ op' = [op EXCEPT ![a] = v] /\ hubLock = None /\ hubLock' = a
            /\ ioLock' = ioLock
        BY <2>4 DEF apply_full, BeginSave
      <3>2. op[a].cfg \in Config /\ op[a].explicit \in BOOLEAN
        BY <1>2, <3>1, OpIs
      <3>3. v \in Op
        BY <3>2, ChangeIs DEF SavePcs
      <3>4. up
        BY <1>2, <3>1, IdleIs DEF Down
      <3>5. ioLock = a
        BY <2>4, <3>1 DEF Locked
      <3>6. op[a].cfg.token # Redacted /\ (up /\ ~touched /\ ~op[a].explicit => op[a].cfg.token = meant)
        BY <3>1 DEF Secret
      <3> QED
        BY <2>4, <3>1, <3>3, <3>4, <3>5, <3>6 DEF SavePcs
    <2>5. CASE a \in Web /\ store_disk_flag(a)
      <3>1. /\ op[a].pc = "comparing" /\ op' = [op EXCEPT ![a] = Idle] /\ ioLock' = None
            /\ hubLock' = hubLock
        BY <2>5 DEF store_disk_flag
      <3>2. up /\ ioLock = a
        BY <2>5, <3>1, IdleIs DEF Down, Locked
      <3> QED
        BY <3>1, <3>2, IdleIs DEF SavePcs
    <2> QED
      BY <2>1, <2>2, <2>3, <2>4, <2>5
  <1>4. op' \in [Actors -> Op] /\ op'[a] = v /\ \A b \in Actors : b # a => op'[b] = op[b]
    BY <1>3, OpUpdate
  <1>5. TypeOK'
    <2>1. budget' \in Budgets
      BY <1>1, SpendIs DEF TypeOK, Budgets
    <2>2. flag' \in BOOLEAN
      BY DEF ConfigureProvider, PutConfig, GetConfig, apply_full, store_disk_flag, TypeOK, DiskFlag,
             cold_divergence
    <2>3. hubLock' \in Actors \cup {None} /\ ioLock' \in Actors \cup {None}
      BY <1>3 DEF TypeOK
    <2> QED
      BY <1>1, <1>4, <2>1, <2>2, <2>3 DEF TypeOK, Budgets, Config, Tokens
  <1>6. Down'
    BY <1>1, <1>3, DownOp
  <1>7. Locked'
    <2>1. \A b \in Actors : b # a => (hubLock' = b <=> hubLock = b) /\ (ioLock = b => ioLock' = b)
      BY <1>2, <1>3, ConfigAssumption DEF Actors
    <2>2. v.pc \in SavePcs <=> hubLock' = a
      BY <1>3 DEF SavePcs, Locked
    <2> QED
      BY <1>3, <2>1, <2>2, LockedOp DEF SavePcs
  <1>8. Matching'
    BY <1>1, <1>3, <1>4, <1>7, MatchingOp DEF SavePcs
  <1>9. Secret'
    <2>1. \A o \in orphans' : o.cfg.token # Redacted
      BY <1>1 DEF Secret
    <2>2. tmp' \in Config => tmp'.token # Redacted
      BY <1>1 DEF Secret
    <2> QED
      BY <1>1, <1>3, <2>1, <2>2, SecretOp DEF SavePcs
  <1>10. Stored'
    BY <1>1, <1>3, <1>4, StoredOp
  <1> QED
    BY <1>5, <1>6, <1>7, <1>8, <1>9, <1>10

(* A write fills the temporary file, for a caller who waits or for nobody.   *)
LEMMA SaveStepKeeps ==
  ASSUME ConfigInv, NEW a \in Actors, SaveStep(a)
  PROVE  ConfigInv'
  <1> USE DEF ConfigInv
  <1> DEFINE c == op[a].cfg
  <1>1. /\ UNCHANGED <<up, file, astray, touched, meant, boot, current, watch, hubLock, ioLock, flag,
                       orphans, store, creds, unread>>
        /\ op[a].pc = "saving"
    BY DEF SaveStep, ghost, hub, locks, cred
  <1>2. PICK next \in {"renaming", "failed"} :
          /\ WriteTmp(c, Midway(Savers \ {a}, orphans), next)
          /\ op' = [op EXCEPT ![a].pc = next]
    BY DEF SaveStep
  <1> DEFINE v == [pc |-> next, cfg |-> c, explicit |-> op[a].explicit]
  <1>3. c \in Config /\ op[a] = [pc |-> "saving", cfg |-> c, explicit |-> op[a].explicit]
        /\ op[a].explicit \in BOOLEAN
    BY <1>1, OpAt, OpIs DEF SavePcs
  <1>4. v \in Op /\ op' = [op EXCEPT ![a] = v]
    <2>1. v \in Op
      BY <1>3, ChangeIs DEF SavePcs
    <2>2. [op[a] EXCEPT !.pc = next] = v
      BY <1>3
    <2> QED
      BY <1>2, <2>1, <2>2
  <1>5. tmp' \in {c, Torn, None, tmp} /\ budget' \in Budgets
    BY <1>2, <1>3, WriteTmpIs
  <1>6. op' \in [Actors -> Op] /\ op'[a] = v /\ \A b \in Actors : b # a => op'[b] = op[b]
    BY <1>4, OpUpdate
  <1>7. TypeOK'
    BY <1>1, <1>3, <1>5, <1>6 DEF TypeOK, Budgets, Config, Tokens
  <1>8. /\ up /\ hubLock = a /\ (a \in Web => ioLock = a) /\ (op[a].explicit => a \in Web)
        /\ c.token # Redacted /\ (up /\ ~touched /\ ~op[a].explicit => c.token = meant)
    BY <1>1, IdleIs DEF Locked, Down, Secret, SavePcs
  <1>9. Down'
    BY <1>1, <1>8, DownOp
  <1>10. Locked'
    BY <1>1, <1>4, <1>8, LockedOp DEF SavePcs
  <1>11. Matching'
    <2>1. \A b \in Actors : (op'[b].pc = "saved" <=> op[b].pc = "saved")
                            /\ (op[b].pc = "saved" => op'[b] = op[b])
      BY <1>1, <1>6
    <2> QED
      BY <1>1, <1>10, <2>1, MatchingOp
  <1>12. Secret'
    <2>1. \A o \in orphans' : o.cfg.token # Redacted
      BY <1>1 DEF Secret
    <2>2. tmp' \in Config => tmp'.token # Redacted
      <3>1. tmp \in Config => tmp.token # Redacted
        BY DEF Secret
      <3> QED
        BY <1>5, <1>8, <3>1, ConfigAssumption
    <2> QED
      BY <1>1, <1>4, <1>8, <2>1, <2>2, SecretOp DEF SavePcs
  <1>13. Stored'
    BY <1>1, <1>6, StoredOp
  <1> QED
    BY <1>7, <1>9, <1>10, <1>11, <1>12, <1>13

LEMMA OrphanWritesKeeps ==
  ASSUME ConfigInv, NEW o \in orphans, OrphanWrites(o)
  PROVE  ConfigInv'
  <1> USE DEF ConfigInv
  <1>1. /\ UNCHANGED <<up, file, astray, touched, meant, boot, current, watch, hubLock, ioLock, flag,
                       op, store, creds, unread>>
        /\ o.pc = "saving"
    BY DEF OrphanWrites, ghost, hub, locks, cred
  <1>2. PICK next \in {"renaming", "failed"} :
          /\ WriteTmp(o.cfg, Midway(Savers, orphans \ {o}), next)
          /\ orphans' = (orphans \ {o}) \cup (IF next = "failed" THEN {} ELSE {[o EXCEPT !.pc = next]})
    BY DEF OrphanWrites
  <1>3. o \in Leftover /\ orphans \subseteq Leftover
    BY DEF TypeOK, Leftover
  <1>4. tmp' \in {o.cfg, Torn, None, tmp} /\ budget' \in Budgets /\ o.cfg \in Config
    BY <1>2, <1>3, WriteTmpIs DEF Leftover
  <1>5. [o EXCEPT !.pc = "renaming"] \in Leftover /\ [o EXCEPT !.pc = "renaming"].cfg = o.cfg
    BY <1>3 DEF Leftover
  <1>6. orphans' \subseteq Leftover /\ \A x \in orphans' : x.cfg.token # Redacted
    <2>1. \A x \in orphans : x.cfg.token # Redacted
      BY DEF Secret
    <2>2. \A x \in orphans' : x \in orphans \/ x = [o EXCEPT !.pc = "renaming"]
      BY <1>2
    <2> QED
      BY <1>3, <1>5, <2>1, <2>2
  <1>7. TypeOK'
    BY <1>1, <1>4, <1>6 DEF TypeOK, Budgets, Leftover, Config, Tokens
  <1>8. up
    BY DEF Down
  <1>9. Down' /\ Locked'
    BY <1>1, <1>8, DownOp DEF Locked
  <1>10. Matching' /\ Stored'
    BY <1>1, <1>9, MatchingOp, StoredOp
  <1>11. Secret'
    <2>1. tmp' \in Config => tmp'.token # Redacted
      BY <1>4, ConfigAssumption DEF Secret
    <2>2. /\ \A c \in {file', tmp'} : c \in Config => c.token # Redacted
          /\ current.token # Redacted /\ (astray => touched)
      BY <1>1, <2>1 DEF Secret
    <2> QED
      BY <1>1, <1>6, <2>2 DEF Secret, Config, Tokens
  <1> QED
    BY <1>7, <1>9, <1>10, <1>11

(* A write reaches the file.  Its caller knows whether the file holds what   *)
(* was meant; what nobody waits for, and what somebody typed, is astray.     *)
LEMMA RenameStepKeeps ==
  ASSUME ConfigInv, NEW a \in Actors, RenameStep(a)
  PROVE  ConfigInv'
  <1> USE DEF ConfigInv
  <1> DEFINE c == op[a].cfg
             next == IF tmp = None THEN "failed" ELSE "saved"
             v == [pc |-> next, cfg |-> c, explicit |-> op[a].explicit]
  <1>1. /\ UNCHANGED <<up, boot, current, watch, hubLock, ioLock, flag, orphans, store, creds, unread,
                       budget>>
        /\ op[a].pc = "renaming" /\ tmp' = None
        /\ op' = [op EXCEPT ![a].pc = next]
        /\ tmp = None => UNCHANGED <<file, astray, touched, meant>>
        /\ tmp # None => /\ file' = tmp /\ astray' = (tmp # c) /\ touched' = (touched \/ astray')
                         /\ meant' = IF op[a].explicit THEN c.token ELSE meant
    BY DEF RenameStep, ghost, hub, locks, cred
  <1>2. c \in Config /\ op[a] = [pc |-> "renaming", cfg |-> c, explicit |-> op[a].explicit]
        /\ op[a].explicit \in BOOLEAN
    BY <1>1, OpAt, OpIs DEF SavePcs
  <1>3. v \in Op /\ op' = [op EXCEPT ![a] = v]
    <2>1. v \in Op
      BY <1>2, ChangeIs DEF SavePcs
    <2>2. [op[a] EXCEPT !.pc = next] = v
      BY <1>2
    <2> QED
      BY <1>1, <2>1, <2>2
  <1>4. op' \in [Actors -> Op] /\ op'[a] = v /\ \A b \in Actors : b # a => op'[b] = op[b]
    BY <1>3, OpUpdate
  <1>5. /\ up /\ hubLock = a /\ (a \in Web => ioLock = a) /\ (op[a].explicit => a \in Web)
        /\ c.token # Redacted /\ (up /\ ~touched /\ ~op[a].explicit => c.token = meant)
    BY <1>1, IdleIs DEF Locked, Down, Secret, SavePcs
  <1>6. c.token \in Tokens
    BY <1>2 DEF Config
  <1>7. TypeOK'
    <2>1. /\ file' \in Config \cup {Torn} /\ tmp' \in Config \cup {Torn, None}
          /\ astray' \in BOOLEAN /\ touched' \in BOOLEAN /\ meant' \in Tokens
      BY <1>1, <1>6 DEF TypeOK
    <2> QED
      BY <1>1, <1>4, <2>1 DEF TypeOK, Config, Tokens
  <1>8. Down'
    BY <1>1, <1>5, DownOp
  <1>9. Locked'
    BY <1>1, <1>3, <1>5, LockedOp DEF SavePcs
  <1>10. \A b \in Actors : b # a => op[b].pc \notin SavePcs
    BY <1>5 DEF Locked
  <1>11. Matching'
    <2>1. watch' = current'.provider
      BY <1>1 DEF Matching
    <2>2. CASE tmp = None
      <3>1. \A b \in Actors : op[b].pc # "saved" /\ op'[b].pc # "saved"
        <4>1. op[a].pc = "renaming" /\ op'[a].pc = "failed"
          BY <1>1, <1>4, <2>2
        <4>2. \A b \in Actors : b # a => op'[b] = op[b] /\ op[b].pc # "saved"
          BY <1>4, <1>10 DEF SavePcs
        <4> HIDE DEF v
        <4> QED
          BY <4>1, <4>2
      <3>2. up /\ ~astray => file = current
        BY <3>1 DEF Matching
      <3> QED
        BY <1>1, <2>1, <2>2, <3>1, <3>2 DEF Matching
    <2>3. CASE tmp # None
      <3>1. op'[a].pc = "saved" /\ op'[a].cfg = c /\ hubLock' = a
        BY <1>1, <1>4, <1>5, <2>3
      <3>2. ~astray' => file' = c
        BY <1>1, <2>3
      <3> QED
        BY <2>1, <3>1, <3>2 DEF Matching
    <2> QED
      BY <2>2, <2>3
  <1>12. Secret'
    <2>1. CASE tmp = None
      BY <1>1, <1>3, <1>5, <2>1, ConfigAssumption, SecretOp DEF SavePcs, Secret
    <2>2. CASE tmp # None
      <3>1. \A x \in {file', tmp'} : x \in Config => x.token # Redacted
        BY <1>1, <2>2, ConfigAssumption DEF Secret
      <3>2. \A b \in Actors : op'[b].pc \in {"apply_full"} \cup SavePcs => op'[b].cfg.token # Redacted
        BY <1>4, <1>5 DEF Secret
      <3>3. astray' => touched'
        BY <1>1, <2>2
      <3>4. ~touched' => ~touched /\ tmp = c
        BY <1>1, <2>2
      <3>5. ~touched' => file'.token = meant'
        BY <1>1, <1>5, <2>2, <3>4
      <3>6. ASSUME ~touched', NEW b \in Actors,
                   op'[b].pc \in {"apply_full", "saving", "renaming"}, ~op'[b].explicit
            PROVE  op'[b].cfg.token = meant'
        <4>1. b # a /\ op'[b] = op[b] /\ op[b].pc = "apply_full" /\ ioLock = b
          <5>1. b # a
            BY <1>4, <2>2, <3>6
          <5>2. op'[b] = op[b] /\ op[b].pc = "apply_full"
            BY <1>4, <1>10, <3>6, <5>1 DEF SavePcs
          <5> QED
            BY <5>1, <5>2 DEF Locked
        <4>2. ~op[a].explicit
          BY <1>5, <4>1
        <4>3. op[b].cfg.token = meant
          BY <1>5, <3>4, <3>6, <4>1 DEF Secret
        <4> QED
          BY <1>1, <2>2, <4>1, <4>2, <4>3
      <3>7. current.token # Redacted /\ \A o \in orphans : o.cfg.token # Redacted
        BY DEF Secret
      <3> QED
        BY <1>1, <3>1, <3>2, <3>3, <3>5, <3>6, <3>7 DEF Secret, Config, Tokens
    <2> QED
      BY <2>1, <2>2
  <1>13. Stored'
    <2>1. op'[a].pc # "stored" /\ op[a].pc # "stored"
      BY <1>1, <1>4
    <2> HIDE DEF v
    <2> QED
      BY <1>1, <1>4, <2>1, StoredOp
  <1> QED
    BY <1>7, <1>8, <1>9, <1>11, <1>12, <1>13

LEMMA AstrayStep ==
  ASSUME ConfigInv,
         (\E o \in orphans : OrphanRenames(o)) \/ (\E c \in Edits : HandEdit(c))
  PROVE  ConfigInv'
  <1> USE DEF ConfigInv
  <1>1. /\ UNCHANGED <<up, meant, boot, current, watch, hubLock, ioLock, flag, op, store, creds,
                       unread>>
        /\ budget' = budget \/ Spend("edits")
    BY DEF OrphanRenames, HandEdit, hub, locks, cred
  <1>2. /\ orphans' \subseteq orphans /\ tmp' \in {None, tmp} /\ (up' /\ ~up => FALSE)
        /\ \/ UNCHANGED <<file, astray, touched>>
           \/ /\ astray' = TRUE /\ touched' = TRUE
              /\ (file' = tmp /\ tmp # None) \/ file' \in Edits
    BY <1>1 DEF OrphanRenames, HandEdit
  <1>3. \A c \in {file', tmp'} : /\ c \in Config => c.token # Redacted
                                 /\ c \in Config \cup {Torn, None}
    <2>1. \A c \in {file, tmp} : /\ c \in Config => c.token # Redacted
                                 /\ c \in Config \cup {Torn, None}
      BY DEF Secret, TypeOK
    <2>2. \A c \in Edits \cup {None} : /\ c \in Config => c.token # Redacted
                                       /\ c \in Config \cup {Torn, None}
      BY ConfigAssumption
    <2> QED
      BY <1>2, <2>1, <2>2
  <1>4. file' \in Config \cup {Torn}
    <2>1. \A c \in Edits : c \in Config \cup {Torn}
      BY ConfigAssumption
    <2>2. file \in Config \cup {Torn} /\ tmp \in Config \cup {Torn, None}
      BY DEF TypeOK
    <2> QED
      BY <1>2, <2>1, <2>2
  <1>5. TypeOK'
    <2>1. budget' \in Budgets
      BY <1>1, SpendIs DEF TypeOK, Budgets
    <2>2. orphans' \subseteq Leftover
      BY <1>2 DEF TypeOK, Leftover
    <2>3. astray' \in BOOLEAN /\ touched' \in BOOLEAN
      BY <1>2 DEF TypeOK
    <2> QED
      BY <1>1, <1>3, <1>4, <2>1, <2>2, <2>3 DEF TypeOK, Budgets, Leftover, Config, Tokens
  <1>6. Down'
    BY <1>1, <1>2 DEF Down
  <1>7. Locked'
    BY <1>1 DEF Locked
  <1>8. Matching'
    BY <1>1, <1>2 DEF Matching
  <1>9. Secret'
    <2>1. /\ current.token # Redacted /\ (astray' => touched')
          /\ \A o \in orphans' : o.cfg.token # Redacted
      BY <1>2 DEF Secret
    <2> QED
      BY <1>1, <1>2, <1>3, <2>1 DEF Secret, Config, Tokens
  <1>10. Stored'
    BY <1>1, StoredOp
  <1> QED
    BY <1>5, <1>6, <1>7, <1>8, <1>9, <1>10

(* A change ends: committed, refused, or given up by a browser that left.    *)
LEMMA SettleStep ==
  ASSUME ConfigInv, NEW a \in Actors,
         CommitSave(a) \/ FailSave(a) \/ (a \in Web /\ DropRequest(a))
  PROVE  ConfigInv'
  <1> USE DEF ConfigInv
  <1>1. /\ UNCHANGED <<up, file, tmp, meant, boot, store, creds, unread>>
        /\ op' = [op EXCEPT ![a] = Idle]
        /\ hubLock' = (IF hubLock = a THEN None ELSE hubLock)
        /\ ioLock' = (IF ioLock = a THEN None ELSE ioLock)
        /\ CommitSave(a) => /\ op[a].pc = "saved" /\ current' = op[a].cfg /\ watch' = op[a].cfg.provider
                            /\ UNCHANGED <<astray, touched, orphans, budget>>
        /\ FailSave(a) => /\ op[a].pc = "failed"
                          /\ UNCHANGED <<current, watch, astray, touched, orphans, budget>>
    <2>1. CommitSave(a) \/ FailSave(a) => hubLock' = None /\ hubLock = a
      BY DEF CommitSave, FailSave, Locked, SavePcs
    <2> QED
      BY <2>1 DEF CommitSave, FailSave, DropRequest, disk, ghost, hub, cred
  <1>2. op[a] \in Op /\ op[a] # Idle /\ op[a].pc # "idle" /\ up /\ a # None
    <2>1. op[a] \in Op /\ op[a] # Idle
      BY <1>1, OpAt, IdleIs DEF DropRequest
    <2> QED
      BY <2>1, OpIs, ConfigAssumption DEF Down, Actors
  <1>3. op' \in [Actors -> Op] /\ op'[a].pc = "idle" /\ \A b \in Actors : b # a => op'[b] = op[b]
    BY <1>1, OpUpdate, IdleIs
  <1>4. op[a].pc # "stored"
    <2>1. CASE a \in Web
      BY <2>1, ConfigAssumption DEF Locked
    <2> QED
      BY <1>1, <2>1
  <1>5. CASE CommitSave(a) \/ FailSave(a)
    <2>1. hubLock = a /\ op[a].pc \in SavePcs
      BY <1>1, <1>5 DEF Locked, SavePcs
    <2>2. op[a].cfg \in Config /\ op[a].cfg.token # Redacted
      BY <1>2, <2>1, OpIs DEF Secret
    <2>3. TypeOK'
      <3>1. flag' \in BOOLEAN
        BY <1>5 DEF CommitSave, FailSave, cold_divergence, TypeOK
      <3> QED
        BY <1>1, <1>3, <1>5, <2>2, <3>1 DEF TypeOK, Config, Tokens
    <2>4. Down'
      BY <1>1, <1>2, DownOp
    <2>5. Locked'
      BY <1>1, <1>2, <2>1, IdleIs, LockedOp, ConfigAssumption DEF Actors, SavePcs
    <2>6. Matching'
      <3>1. \A b \in Actors : op'[b].pc # "saved"
        <4>1. \A b \in Actors : b # a => op[b].pc # "saved"
          BY <2>1 DEF Locked, SavePcs
        <4> QED
          BY <1>3, <4>1
      <3>2. CASE CommitSave(a)
        <4>1. up /\ ~astray => file = op[a].cfg
          BY <1>1, <2>1, <3>2 DEF Matching
        <4> QED
          BY <1>1, <3>1, <3>2, <4>1 DEF Matching
      <3>3. CASE FailSave(a)
        <4>1. \A b \in Actors : op[b].pc # "saved"
          BY <1>1, <2>1, <3>3 DEF Locked, SavePcs
        <4> QED
          BY <1>1, <3>1, <3>3, <4>1 DEF Matching
      <3> QED
        BY <1>5, <3>2, <3>3
    <2>7. Secret'
      <3>1. current'.token # Redacted
        BY <1>1, <1>5, <2>2 DEF Secret
      <3>2. \A b \in Actors : op'[b].pc \in {"apply_full"} \cup SavePcs => b # a
        BY <1>3 DEF SavePcs
      <3> QED
        BY <1>1, <1>3, <1>5, <3>1, <3>2 DEF Secret, Config, Tokens, SavePcs
    <2>8. Stored'
      BY <1>1, <1>3, <1>4, StoredOp
    <2> QED
      BY <2>3, <2>4, <2>5, <2>6, <2>7, <2>8
  <1>6. CASE a \in Web /\ DropRequest(a)
    <2>1. /\ UNCHANGED <<current, watch, flag>> /\ Spend("cancels")
          /\ astray' = (astray \/ op[a].pc = "saved") /\ touched' = (touched \/ astray')
          /\ orphans' = IF a \in Savers
                          THEN orphans \cup {[pc |-> op[a].pc, cfg |-> op[a].cfg, id |-> budget.cancels]}
                          ELSE orphans
      BY <1>6 DEF DropRequest, hub
    <2>2. orphans' \subseteq Leftover /\ \A o \in orphans' : o.cfg.token # Redacted
      <3>1. orphans \subseteq Leftover /\ \A o \in orphans : o.cfg.token # Redacted
        BY DEF TypeOK, Leftover, Secret
      <3>2. CASE a \in Savers
        <4>1. op[a].pc \in {"saving", "renaming"} /\ op[a].pc \in SavePcs
          BY <3>2 DEF Savers, SavePcs
        <4>2. op[a].cfg \in Config /\ op[a].cfg.token # Redacted /\ budget.cancels \in Nat
          BY <1>2, <4>1, OpIs DEF Secret, TypeOK
        <4> QED
          BY <2>1, <3>1, <4>1, <4>2 DEF Leftover
      <3> QED
        BY <2>1, <3>1, <3>2
    <2>3. TypeOK'
      <3>1. astray' \in BOOLEAN /\ touched' \in BOOLEAN
        BY <2>1 DEF TypeOK
      <3>2. budget' \in Budgets
        BY <2>1, SpendIs
      <3> QED
        BY <1>1, <1>3, <2>1, <2>2, <3>1, <3>2 DEF TypeOK, Budgets, Leftover, Config, Tokens
    <2>4. Down'
      BY <1>1, <1>2, DownOp
    <2>5. Locked'
      BY <1>1, <1>2, IdleIs, LockedOp, ConfigAssumption DEF Actors, SavePcs
    <2>6. Matching'
      <3>1. CASE op[a].pc = "saved"
        BY <1>1, <2>1, <3>1 DEF Matching
      <3>2. CASE op[a].pc # "saved"
        <4>1. astray' = astray
          BY <2>1, <3>2 DEF TypeOK
        <4>2. \A b \in Actors : (op'[b].pc = "saved" <=> op[b].pc = "saved")
                                /\ (op[b].pc = "saved" => op'[b] = op[b])
          BY <1>3, <3>2
        <4> QED
          BY <1>1, <2>1, <2>5, <4>1, <4>2, MatchingOp
      <3> QED
        BY <3>1, <3>2
    <2>7. Secret'
      <3>1. \A b \in Actors : op'[b].pc \in {"apply_full"} \cup SavePcs => b # a
        BY <1>3 DEF SavePcs
      <3>2. (astray' => touched') /\ (~touched' => ~touched)
        BY <2>1
      <3> QED
        BY <1>1, <1>3, <2>1, <2>2, <3>1, <3>2 DEF Secret, Config, Tokens, SavePcs
    <2>8. Stored'
      BY <1>1, <1>3, <1>4, StoredOp
    <2> QED
      BY <2>3, <2>4, <2>5, <2>6, <2>7, <2>8
  <1> QED
    BY <1>5, <1>6

(* A credential is stored, applied or forgotten, under its provider's lock.  *)
LEMMA CredentialStep ==
  ASSUME ConfigInv, NEW a \in Ctl,
         \/ \E p \in Providers, v \in Values : SetCredentials(a, p, v)
         \/ \E p \in Providers : ClearCredentials(a, p)
         \/ ApplyCredentials(a)
  PROVE  ConfigInv'
  <1> USE DEF ConfigInv
  <1>1. /\ UNCHANGED <<up, file, tmp, astray, touched, meant, boot, current, watch, hubLock, ioLock,
                       flag, orphans>>
        /\ budget' = budget \/ Spend("ops")
    BY DEF SetCredentials, ClearCredentials, ApplyCredentials, disk, ghost, hub, locks
  <1>2. a \in Actors /\ a \notin Web /\ op[a] \in Op
    BY ConfigAssumption, OpAt DEF Actors
  <1>3. /\ up
        /\ \/ /\ \E p \in Providers, v \in Values :
                   /\ ~Holds(p) /\ store' = [store EXCEPT ![p] = v]
                   /\ op' = [op EXCEPT ![a] = [pc |-> "stored", p |-> p, cfg |-> v]]
              /\ op[a] = Idle /\ UNCHANGED <<creds, unread>>
           \/ /\ \E p \in Providers : ~Holds(p) /\ store' = [store EXCEPT ![p] = None]
              /\ op[a] = Idle /\ UNCHANGED <<op, creds, unread>>
           \/ /\ op[a].pc = "stored" /\ creds' = [creds EXCEPT ![op[a].p] = op[a].cfg]
              /\ unread' = unread \ {op[a].p} /\ store' = store
              /\ op' = [op EXCEPT ![a] = Idle]
    <2>1. CASE ApplyCredentials(a)
      <3>1. op[a].pc = "stored"
        BY <2>1 DEF ApplyCredentials
      <3> QED
        BY <1>2, <2>1, <3>1, IdleIs DEF ApplyCredentials, Down
    <2>2. CASE ~ApplyCredentials(a)
      BY <2>2 DEF SetCredentials, ClearCredentials
    <2> QED
      BY <2>1, <2>2
  <1>4. PICK v \in Op :
          /\ op' = [op EXCEPT ![a] = v] /\ v.pc \in {"stored", "idle"}
          /\ op[a].pc \in {"stored", "idle"}
    <2>1. \A p \in Providers, w \in Values :
            [pc |-> "stored", p |-> p, cfg |-> w] \in Op
      BY DEF Op
    <2>2. op[a] = Idle => op = [op EXCEPT ![a] = Idle]
      BY DEF TypeOK
    <2> QED
      BY <1>3, <2>1, <2>2, IdleIs
  <1>5. op' \in [Actors -> Op] /\ op'[a] = v /\ \A b \in Actors : b # a => op'[b] = op[b]
    BY <1>2, <1>4, OpUpdate
  <1>6. TypeOK'
    <2>1. budget' \in Budgets
      BY <1>1, SpendIs DEF TypeOK, Budgets
    <2>2. /\ store' \in [Providers -> Values \cup {None}]
          /\ creds' \in [Providers -> Values \cup {Env, None}] /\ unread' \subseteq Providers
      <3>1. op[a].pc = "stored" => op[a].p \in Providers /\ op[a].cfg \in Values
        BY <1>2, OpIs
      <3> QED
        BY <1>3, <3>1 DEF TypeOK
    <2> QED
      BY <1>1, <1>5, <2>1, <2>2 DEF TypeOK, Budgets, Config, Tokens
  <1>7. Down'
    BY <1>1, <1>3, DownOp
  <1>8. Locked'
    <2>1. hubLock # a
      BY <1>2, <1>4 DEF Locked, SavePcs
    <2> QED
      BY <1>1, <1>2, <1>4, <2>1, LockedOp DEF SavePcs
  <1>9. Matching'
    <2>1. \A b \in Actors : (op'[b].pc = "saved" <=> op[b].pc = "saved")
                            /\ (op[b].pc = "saved" => op'[b] = op[b])
      BY <1>4, <1>5
    <2> QED
      BY <1>1, <1>8, <2>1, MatchingOp
  <1>10. Secret'
    <2>1. (tmp' \in Config => tmp'.token # Redacted) /\ \A o \in orphans' : o.cfg.token # Redacted
      BY <1>1 DEF Secret
    <2> QED
      BY <1>1, <1>2, <1>4, <2>1, SecretOp DEF SavePcs
  <1>11. Stored'
    <2>1. CASE /\ \E p \in Providers, w \in Values :
                    /\ ~Holds(p) /\ store' = [store EXCEPT ![p] = w]
                    /\ op' = [op EXCEPT ![a] = [pc |-> "stored", p |-> p, cfg |-> w]]
               /\ op[a] = Idle /\ UNCHANGED <<creds, unread>>
      <3>1. PICK p \in Providers, w \in Values :
              /\ ~Holds(p) /\ store' = [store EXCEPT ![p] = w]
              /\ op' = [op EXCEPT ![a] = [pc |-> "stored", p |-> p, cfg |-> w]]
        BY <2>1
      <3>2. op'[a].pc = "stored" /\ op'[a].p = p /\ op'[a].cfg = w
        BY <1>2, <3>1 DEF TypeOK
      <3>3. store'[p] = w /\ \A q \in Providers : q # p => store'[q] = store[q]
        BY <3>1 DEF TypeOK
      <3>4. \A b \in Actors : b # a /\ op[b].pc = "stored" => op[b].p # p /\ op[b].p \in Providers
        <4>1. \A b \in Actors : op[b].pc = "stored" => op[b].p \in Providers
          BY OpAt, OpIs
        <4> QED
          BY <3>1, <4>1 DEF Holds
      <3>5. \A b \in Actors : op'[b].pc = "stored" => store'[op'[b].p] = op'[b].cfg
        BY <1>5, <3>2, <3>3, <3>4 DEF Stored
      <3>6. \A b, d \in Actors :
              op'[b].pc = "stored" /\ op'[d].pc = "stored" /\ op'[b].p = op'[d].p => b = d
        <4>1. \A b \in Actors : b # a /\ op'[b].pc = "stored" => op'[b].p # p /\ op[b] = op'[b]
          BY <1>5, <3>4
        <4> QED
          BY <3>2, <4>1 DEF Stored
      <3>7. Holds(p)' /\ \A q \in Providers : q # p => (Holds(q)' <=> Holds(q))
        <4>1. op[a].pc # "stored"
          BY <2>1, IdleIs
        <4> QED
          BY <1>2, <1>5, <3>2, <4>1 DEF Holds
      <3>8. CredsAgree'
        BY <1>1, <2>1, <3>3, <3>7 DEF CredsAgree, Stored
      <3> QED
        BY <3>5, <3>6, <3>8 DEF Stored
    <2>2. CASE /\ \E p \in Providers : ~Holds(p) /\ store' = [store EXCEPT ![p] = None]
               /\ op[a] = Idle /\ UNCHANGED <<op, creds, unread>>
      <3>1. PICK p \in Providers : ~Holds(p) /\ store' = [store EXCEPT ![p] = None]
        BY <2>2
      <3>2. store'[p] = None /\ \A q \in Providers : q # p => store'[q] = store[q]
        BY <3>1 DEF TypeOK
      <3>3. \A b \in Actors : op[b].pc = "stored" => op[b].p \in Providers /\ op[b].p # p
        <4>1. \A b \in Actors : op[b].pc = "stored" => op[b].p \in Providers
          BY OpAt, OpIs
        <4> QED
          BY <3>1, <4>1 DEF Holds
      <3>4. \A q \in Providers : Holds(q)' <=> Holds(q)
        BY <2>2 DEF Holds
      <3>5. CredsAgree'
        BY <1>1, <2>2, <3>2, <3>4 DEF CredsAgree, Stored
      <3> QED
        BY <2>2, <3>2, <3>3, <3>5 DEF Stored
    <2>3. CASE /\ op[a].pc = "stored" /\ creds' = [creds EXCEPT ![op[a].p] = op[a].cfg]
               /\ unread' = unread \ {op[a].p} /\ store' = store
               /\ op' = [op EXCEPT ![a] = Idle]
      <3> DEFINE p == op[a].p
      <3>1. p \in Providers /\ store[p] = op[a].cfg
        BY <1>2, <2>3, OpIs DEF Stored
      <3>2. creds'[p] = store[p] /\ \A q \in Providers : q # p => creds'[q] = creds[q]
        BY <2>3, <3>1 DEF TypeOK
      <3>3. op'[a].pc # "stored"
        BY <1>2, <2>3, IdleIs DEF TypeOK
      <3>4. \A q \in Providers : q # p => (Holds(q)' <=> Holds(q))
        BY <1>2, <1>5, <2>3, <3>3 DEF Holds
      <3>5. CredsAgree'
        BY <1>1, <2>3, <3>2, <3>4 DEF CredsAgree, Stored
      <3> QED
        BY <1>5, <2>3, <3>3, <3>5 DEF Stored
    <2> QED
      BY <1>3, <2>1, <2>2, <2>3
  <1> QED
    BY <1>6, <1>7, <1>8, <1>9, <1>10, <1>11

(* The process ends with everything in memory; the next one starts from what *)
(* is on disk.                                                               *)
LEMMA DieStep == ConfigInv /\ Die => ConfigInv'
  <1> SUFFICES ASSUME ConfigInv, Die PROVE ConfigInv'
    OBVIOUS
  <1> USE DEF ConfigInv
  <1>1. /\ UNCHANGED <<file, tmp, astray, touched, meant, boot, current, watch, store, creds, unread>>
        /\ up' = FALSE /\ hubLock' = None /\ ioLock' = None /\ flag' = FALSE
        /\ op' = [a \in Actors |-> Idle] /\ orphans' = {} /\ Spend("crashes")
    BY DEF Die, disk, ghost, hub, cred
  <1>2. op' \in [Actors -> Op] /\ \A a \in Actors : op'[a] = Idle /\ op'[a].pc = "idle"
    BY <1>1, IdleIs
  <1>3. TypeOK'
    <2>1. budget' \in Budgets
      BY <1>1, SpendIs
    <2> QED
      BY <1>1, <1>2, <2>1 DEF TypeOK, Budgets, Config, Tokens
  <1>4. Down' /\ Locked'
    BY <1>1, <1>2, ConfigAssumption DEF Down, Locked, SavePcs, Actors
  <1>5. Matching' /\ Secret' /\ Stored'
    <2>1. Matching'
      BY <1>1 DEF Matching
    <2>2. Secret'
      BY <1>1, <1>2 DEF Secret, SavePcs, Config, Tokens
    <2>3. Stored'
      BY <1>1, <1>2 DEF Stored, CredsAgree
    <2> QED
      BY <2>1, <2>2, <2>3
  <1> QED
    BY <1>3, <1>4, <1>5

LEMMA BootStep == ConfigInv /\ Boot => ConfigInv'
  <1> SUFFICES ASSUME ConfigInv, Boot PROVE ConfigInv'
    OBVIOUS
  <1> USE DEF ConfigInv
  <1>1. /\ UNCHANGED <<file, tmp, hubLock, ioLock, flag, op, orphans, store>>
        /\ ~up /\ up' = TRUE /\ IsConfig(file)
        /\ boot' = file /\ current' = file /\ watch' = file.provider
        /\ astray' = FALSE /\ touched' = FALSE /\ meant' = file.token
    BY DEF Boot, locks
  <1>2. PICK bad \in SUBSET Providers :
          /\ Cardinality(bad) <= budget.faults
          /\ budget' = [budget EXCEPT !.faults = @ - Cardinality(bad)]
          /\ unread' = bad
          /\ creds' = [p \in Providers |-> Seed(p, p \notin bad)]
    BY DEF Boot
  <1>3. file \in Config /\ file.token \in Tokens
    BY <1>1 DEF TypeOK, IsConfig, Config
  <1>4. \A a \in Actors : op[a] = Idle /\ op[a].pc = "idle"
    BY <1>1, IdleIs DEF Down
  <1>5. TypeOK'
    <2>1. budget' \in Budgets
      <3>1. Cardinality(bad) \in Nat
        BY ConfigAssumption, FS_Subset, FS_CardinalityType
      <3> QED
        BY <1>2, <3>1 DEF TypeOK, Budgets
    <2>2. creds' \in [Providers -> Values \cup {Env, None}]
      BY <1>2 DEF TypeOK, Seed
    <2> QED
      BY <1>1, <1>2, <1>3, <2>1, <2>2 DEF TypeOK, Budgets, Config, Tokens
  <1>6. Down' /\ Locked'
    BY <1>1 DEF Down, Locked
  <1>7. Matching'
    BY <1>1, <1>4 DEF Matching
  <1>8. Secret'
    BY <1>1, <1>3, <1>4 DEF Secret, SavePcs, Config, Tokens
  <1>9. Stored'
    <2>1. \A p \in Providers : p \notin unread' /\ store[p] # None => creds'[p] = store[p]
      BY <1>2 DEF Seed
    <2> QED
      BY <1>1, <1>4, <2>1 DEF Stored, CredsAgree
  <1> QED
    BY <1>5, <1>6, <1>7, <1>8, <1>9

-----------------------------------------------------------------------------
(* The first start has nothing stored and nothing under way.                *)
LEMMA ConfigStart == Init => ConfigInv
  <1> SUFFICES ASSUME Init PROVE ConfigInv
    OBVIOUS
  <1>1. op \in [Actors -> Op] /\ \A a \in Actors : op[a] = Idle /\ op[a].pc = "idle"
    BY IdleIs DEF Init
  <1>2. First \in Config /\ First.token # Redacted /\ First.token \in Tokens
    BY ConfigAssumption DEF Tokens
  <1>3. TypeOK
    <2>1. budget \in Budgets
      BY ConfigAssumption DEF Init, Budgets
    <2>2. creds \in [Providers -> Values \cup {Env, None}] /\ store \in [Providers -> Values \cup {None}]
      BY DEF Init
    <2> QED
      BY <1>1, <1>2, <2>1, <2>2 DEF Init, TypeOK, Budgets
  <1>4. Down /\ Locked
    BY <1>1, ConfigAssumption DEF Init, Down, Locked, SavePcs, Actors
  <1>5. Matching /\ Stored
    BY <1>1 DEF Init, Matching, Stored, CredsAgree
  <1>6. Secret
    BY <1>1, <1>2, ConfigAssumption DEF Init, Secret, SavePcs
  <1> QED
    BY <1>3, <1>4, <1>5, <1>6 DEF ConfigInv

(* Every step keeps the invariant.                                          *)
LEMMA ConfigStep == ConfigInv /\ [Next]_vars => ConfigInv'
  <1> SUFFICES ASSUME ConfigInv, [Next]_vars PROVE ConfigInv'
    OBVIOUS
  <1>1. CASE Next
    <2>1. CASE \E a \in Ctl, p \in Providers, s \in Settings \cup {Off} : ConfigureProvider(a, p, s)
      BY <2>1, RequestStep DEF Actors
    <2>2. CASE \/ \E a \in Ctl, p \in Providers, v \in Values : SetCredentials(a, p, v)
               \/ \E a \in Ctl, p \in Providers : ClearCredentials(a, p)
               \/ \E a \in Ctl : ApplyCredentials(a)
      BY <2>2, CredentialStep
    <2>3. CASE \/ \E a \in Web, c \in Puts : PutConfig(a, c)
               \/ \E a \in Web : GetConfig(a) \/ apply_full(a) \/ store_disk_flag(a)
      BY <2>3, RequestStep DEF Actors
    <2>4. CASE \E a \in Web : DropRequest(a)
      BY <2>4, SettleStep DEF Actors
    <2>5. CASE \E a \in Actors : SaveStep(a) \/ RenameStep(a) \/ CommitSave(a) \/ FailSave(a)
      BY <2>5, SaveStepKeeps, RenameStepKeeps, SettleStep
    <2>6. CASE \E o \in orphans : OrphanWrites(o) \/ OrphanRenames(o)
      BY <2>6, OrphanWritesKeeps, AstrayStep
    <2>7. CASE (\E c \in Edits : HandEdit(c)) \/ Die \/ Boot
      BY <2>7, AstrayStep, DieStep, BootStep
    <2> QED
      BY <1>1, <2>1, <2>2, <2>3, <2>4, <2>5, <2>6, <2>7 DEF Next
  <1>2. CASE UNCHANGED vars
    <2>1. /\ UNCHANGED <<up, file, tmp, astray, touched, meant, boot, current, watch, hubLock, ioLock,
                         flag, orphans, store, creds, unread, budget, op>>
      BY <1>2 DEF vars, disk, ghost, hub, locks, cred
    <2>2. TypeOK'
      BY <2>1 DEF ConfigInv, TypeOK, Config, Tokens
    <2>3. Down' /\ Locked' /\ Matching'
      BY <2>1 DEF ConfigInv, Down, Locked, Matching
    <2>4. Secret'
      BY <2>1 DEF ConfigInv, Secret, Config, Tokens
    <2>5. Stored'
      BY <2>1 DEF ConfigInv, Stored, CredsAgree, Holds
    <2> QED
      BY <2>2, <2>3, <2>4, <2>5 DEF ConfigInv
  <1> QED
    BY <1>1, <1>2

(* The services keep their whole invariant: one holder of the hub's lock and *)
(* of io_lock, what is on its way to the file, what is stored but not yet    *)
(* applied (ConfigHub, ConfigState, CredentialHub).                          *)
THEOREM ConfigCorrect == Spec => []ConfigInv
  <1> QED
    BY ConfigStart, ConfigStep, PTL DEF Spec

(* Between two changes the file, the hub and the providers hold the same     *)
(* configuration, unless somebody went behind the hub's back (persist,       *)
(* apply_full).                                                              *)
THEOREM FileMatchesAppliedCorrect == Spec => []FileMatchesApplied
  <1>1. ASSUME ConfigInv PROVE FileMatchesApplied
    <2>1. hubLock = None => \A a \in Actors : op[a].pc # "saved"
      BY <1>1, ConfigAssumption DEF ConfigInv, Locked, SavePcs, Actors
    <2> QED
      BY <1>1, <2>1 DEF ConfigInv, Matching, FileMatchesApplied
  <1> QED
    BY <1>1, ConfigCorrect, PTL

(* The placeholder never reaches the file, and the token in it is the one a  *)
(* caller last gave (ConfigState::write).                                    *)
THEOREM SecretKeptCorrect == Spec => []SecretKept
  <1>1. ConfigInv => SecretKept
    BY DEF ConfigInv, Secret, TypeOK, IsConfig, SecretKept
  <1> QED
    BY <1>1, ConfigCorrect, PTL

(* A provider runs on the stored credential once the call that stored it is  *)
(* over (CredentialHub::set, clear and bootstrap).                           *)
THEOREM CredsAgreeCorrect == Spec => []CredsAgree
  <1>1. ConfigInv => CredsAgree
    BY DEF ConfigInv, Stored
  <1> QED
    BY <1>1, ConfigCorrect, PTL

-----------------------------------------------------------------------------
(* The restart flag, on top of the invariant: no step of one actor but a    *)
(* commit brings in a cold change.                                          *)
LEMMA FlagOp ==
  ASSUME TypeOK, Flagged, UNCHANGED <<up, boot, current>>,
         up /\ cold_divergence(boot, current) /\ flag => flag',
         NEW a \in Actors, NEW v \in Op, op' = [op EXCEPT ![a] = v],
         a \in Ctl /\ v.pc \in SavePcs => v.cfg.cold = current.cold /\ v.cfg.token = current.token
  PROVE  Flagged'
  <1>1. op'[a] = v /\ \A b \in Actors : b # a => op'[b] = op[b]
    BY OpUpdate
  <1>2. up' /\ cold_divergence(boot, current)' => flag'
    BY DEF Flagged, cold_divergence
  <1>3. ASSUME NEW b \in Ctl, op'[b].pc \in SavePcs
        PROVE  op'[b].cfg.cold = current.cold /\ op'[b].cfg.token = current.token
    BY <1>1, <1>3 DEF Flagged, Actors
  <1> QED
    BY <1>2, <1>3 DEF Flagged

LEMMA FlagActor ==
  ASSUME ConfigInv, Flagged, NEW a \in Actors,
         \/ a \in Ctl /\ \/ \E p \in Providers, s \in Settings \cup {Off} : ConfigureProvider(a, p, s)
                         \/ \E p \in Providers, v \in Values : SetCredentials(a, p, v)
                         \/ ApplyCredentials(a)
         \/ a \in Web /\ \/ \E c \in Puts : PutConfig(a, c)
                         \/ GetConfig(a) \/ apply_full(a) \/ store_disk_flag(a) \/ DropRequest(a)
         \/ SaveStep(a) \/ RenameStep(a) \/ FailSave(a)
  PROVE  Flagged'
  <1> USE DEF ConfigInv
  <1>1. UNCHANGED <<up, boot, current>> /\ (flag' = flag \/ store_disk_flag(a))
    BY DEF ConfigureProvider, SetCredentials, ApplyCredentials, PutConfig, GetConfig, apply_full, store_disk_flag,
           DropRequest, SaveStep, RenameStep, FailSave, hub
  <1>2. up /\ cold_divergence(boot, current) /\ flag => flag'
    BY <1>1 DEF store_disk_flag, DiskFlag
  <1>3. op[a] \in Op /\ (a \in Web => a \notin Ctl)
    BY OpAt, ConfigAssumption
  <1>4. Idle.pc \notin SavePcs
    BY IdleIs DEF SavePcs
  <1>5. CASE a \in Ctl /\ \E p \in Providers, s \in Settings \cup {Off} : ConfigureProvider(a, p, s)
    <2>1. PICK p \in Providers, s \in Settings \cup {Off} : ConfigureProvider(a, p, s)
      BY <1>5
    <2> DEFINE c == [current EXCEPT !.provider[p] = s]
               v == [pc |-> "saving", cfg |-> c, explicit |-> FALSE]
    <2>2. c \in Config /\ c.token = current.token /\ c.cold = current.cold
      <3>1. current \in Config
        BY DEF TypeOK
      <3> QED
        BY <3>1, Reconfigured DEF Config
    <2>3. op' = [op EXCEPT ![a] = v]
      BY <2>1 DEF ConfigureProvider, BeginSave
    <2> HIDE DEF c
    <2>4. v \in Op /\ v.cfg = c
      BY <2>2, ChangeIs DEF SavePcs
    <2> HIDE DEF v
    <2> QED
      BY <1>1, <1>2, <2>2, <2>3, <2>4, FlagOp
  <1>6. CASE \/ \E p \in Providers, v \in Values : SetCredentials(a, p, v)
             \/ ApplyCredentials(a) \/ FailSave(a)
             \/ store_disk_flag(a) \/ DropRequest(a)
    <2>1. PICK v \in Op : op' = [op EXCEPT ![a] = v] /\ v.pc \notin SavePcs
      <3>1. CASE \E p \in Providers, v \in Values : SetCredentials(a, p, v)
        <4>1. PICK p \in Providers, v \in Values : SetCredentials(a, p, v)
          BY <3>1
        <4> DEFINE w == [pc |-> "stored", p |-> p, cfg |-> v]
        <4>2. w \in Op /\ w.pc \notin SavePcs /\ op' = [op EXCEPT ![a] = w]
          BY <4>1 DEF Op, SavePcs, SetCredentials
        <4> QED
          BY <4>2
      <3>2. CASE ~ \E p \in Providers, v \in Values : SetCredentials(a, p, v)
        <4>1. op' = [op EXCEPT ![a] = Idle]
          BY <1>6, <3>2 DEF ApplyCredentials, FailSave, store_disk_flag, DropRequest
        <4> QED
          BY <1>4, <4>1, IdleIs
      <3> QED
        BY <3>1, <3>2
    <2> QED
      BY <1>1, <1>2, <2>1, FlagOp
  <1>7. CASE a \in Web /\ ((\E c \in Puts : PutConfig(a, c)) \/ GetConfig(a) \/ apply_full(a))
    <2>1. op' = op \/ \E v : op' = [op EXCEPT ![a] = v]
      BY <1>7 DEF PutConfig, GetConfig, apply_full, BeginSave
    <2>2. \A b \in Ctl : op'[b] = op[b]
      <3>1. \A b \in Ctl : b # a
        BY <1>3, <1>7
      <3> QED
        BY <2>1, <3>1 DEF TypeOK, Actors
    <2> QED
      BY <1>1, <1>2, <2>2 DEF Flagged, cold_divergence
  <1>8. CASE SaveStep(a) \/ RenameStep(a)
    <2>1. PICK next \in SavePcs : op' = [op EXCEPT ![a].pc = next] /\ op[a].pc \in SavePcs
      BY <1>8 DEF SaveStep, RenameStep, SavePcs
    <2>2. op[a] = [pc |-> op[a].pc, cfg |-> op[a].cfg, explicit |-> op[a].explicit]
          /\ op[a].cfg \in Config /\ op[a].explicit \in BOOLEAN
      BY <1>3, <2>1, OpIs
    <2> DEFINE v == [pc |-> next, cfg |-> op[a].cfg, explicit |-> op[a].explicit]
    <2>3. v \in Op /\ v.cfg = op[a].cfg
      BY <2>2, ChangeIs
    <2>4. op' = [op EXCEPT ![a] = v]
      <3>1. op' = [op EXCEPT ![a] = [op[a] EXCEPT !.pc = next]]
        BY <2>1 DEF TypeOK
      <3> DEFINE o == op[a]
      <3>2. \A x, y, z : [[pc |-> x, cfg |-> y, explicit |-> z] EXCEPT !.pc = next]
                           = [pc |-> next, cfg |-> y, explicit |-> z]
        OBVIOUS
      <3>3. [op[a] EXCEPT !.pc = next] = v
        BY <2>2, <3>2
      <3> QED
        BY <3>1, <3>3
    <2>5. a \in Ctl => v.cfg.cold = current.cold /\ v.cfg.token = current.token
      BY <2>1, <2>3 DEF Flagged
    <2> HIDE DEF v
    <2> QED
      BY <1>1, <1>2, <2>3, <2>4, <2>5, FlagOp
  <1> QED
    BY <1>5, <1>6, <1>7, <1>8

LEMMA FlagStep ==
  ASSUME ConfigInv, Flagged, [Next]_vars
  PROVE  Flagged'
  <1> USE DEF ConfigInv
  <1>1. ASSUME NEW a \in Actors, CommitSave(a)
        PROVE  Flagged'
    <2>1. /\ op[a].pc \in SavePcs /\ current' = op[a].cfg /\ op' = [op EXCEPT ![a] = Idle]
          /\ UNCHANGED <<up, boot>> /\ (a \in Web => flag' = cold_divergence(boot, op[a].cfg))
          /\ (a \notin Web => flag' = flag)
      BY <1>1 DEF CommitSave, SavePcs
    <2>2. \A b \in Ctl : op'[b].pc \notin SavePcs
      <3>1. op'[a] = Idle /\ \A b \in Actors : b # a => op'[b] = op[b]
        BY <2>1, OpUpdate, IdleIs
      <3>2. \A b \in Actors : b # a => op[b].pc \notin SavePcs
        BY <2>1 DEF Locked
      <3>3. Idle.pc \notin SavePcs
        BY DEF Idle, SavePcs
      <3> QED
        BY <3>1, <3>2, <3>3 DEF Actors
    <2>3. up' /\ cold_divergence(boot, current)' => flag'
      <3>1. CASE a \in Web
        BY <2>1, <3>1 DEF cold_divergence
      <3>2. CASE a \notin Web
        <4>1. /\ up /\ cold_divergence(boot, current) => flag
              /\ op[a].cfg.cold = current.cold /\ op[a].cfg.token = current.token
          BY <2>1, <3>2 DEF Flagged, Actors
        <4> QED
          BY <2>1, <3>2, <4>1 DEF cold_divergence
      <3> QED
        BY <3>1, <3>2
    <2> QED
      BY <2>2, <2>3 DEF Flagged
  <1>2. ASSUME UNCHANGED <<up, boot, current, flag, op>>
        PROVE  Flagged'
    BY <1>2 DEF Flagged, cold_divergence
  <1>3. ASSUME NEW a \in Ctl, NEW p \in Providers, ClearCredentials(a, p)
        PROVE  Flagged'
    BY <1>2, <1>3 DEF ClearCredentials, hub
  <1>4. ASSUME NEW o \in orphans, OrphanWrites(o) \/ OrphanRenames(o)
        PROVE  Flagged'
    BY <1>2, <1>4 DEF OrphanWrites, OrphanRenames, hub
  <1>5. ASSUME NEW c \in Edits, HandEdit(c)
        PROVE  Flagged'
    BY <1>2, <1>5 DEF HandEdit, hub
  <1>6. CASE Die
    BY <1>6 DEF Die, Flagged, Actors, Idle, SavePcs
  <1>7. CASE Boot
    BY <1>7 DEF Boot, Flagged, Down, Actors, Idle, SavePcs, cold_divergence
  <1>8. CASE UNCHANGED vars
    BY <1>2, <1>8 DEF vars, hub
  <1> QED
    BY <1>1, <1>3, <1>4, <1>5, <1>6, <1>7, <1>8, FlagActor DEF Next, Actors

(* The restart flag is honest: while the hub holds a cold change the page   *)
(* says so (ConfigState::write, store_disk_flag).                           *)
THEOREM FlagHonestCorrect == Spec => []FlagHonest
  <1>1. Init => Flagged
    BY DEF Init, Flagged, Idle, SavePcs, cold_divergence, Actors
  <1>2. Flagged => FlagHonest
    BY DEF Flagged, FlagHonest
  <1> QED
    BY <1>1, <1>2, FlagStep, ConfigCorrect, PTL DEF Spec


=============================================================================

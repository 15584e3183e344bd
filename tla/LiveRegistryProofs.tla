-------------------------- MODULE LiveRegistryProofs --------------------------
(***************************************************************************)
(* Machine-checked proofs about LiveRegistry: its types and the registry   *)
(* invariant, for any number of openers and any channel capacity of at     *)
(* least two.                                                              *)
(***************************************************************************)
EXTENDS LiveRegistry, TLAPS

(* What Append, a handle sending a command, does to the hub's channel.     *)
LEMMA Enqueue ==
    ASSUME NEW q \in Seq(Command), NEW k \in Command
    PROVE  /\ Append(q, k) \in Seq(Command)
           /\ Len(q) \in Nat /\ Len(Append(q, k)) = Len(q) + 1
           /\ \A i \in 1..Len(q) : Append(q, k)[i] = q[i]
           /\ Append(q, k)[Len(q) + 1] = k
  OBVIOUS

(* What Head and Tail, the hub taking a command, do to it.                *)
LEMMA Dequeue ==
    ASSUME NEW q \in Seq(Command), q # <<>>
    PROVE  /\ Head(q) \in Command /\ q[1] = Head(q) /\ Len(q) \in Nat /\ 1 \in 1..Len(q)
           /\ Tail(q) \in Seq(Command) /\ Len(Tail(q)) \in Nat /\ Len(Tail(q)) = Len(q) - 1
           /\ \A i \in 1..Len(Tail(q)) : i + 1 \in 1..Len(q) /\ Tail(q)[i] = q[i + 1]
  OBVIOUS

(* Sending a command that fits its session's life keeps the channel fit,   *)
(* unless it repeats a Subscribe.                                          *)
LEMMA FitAppend ==
    ASSUME NEW q \in Seq(Command), NEW k \in Command, NEW life,
           AllFit(q, life), Fits(k, life),
           k.op = "subscribe" => \A i \in 1..Len(q) : q[i] # k
    PROVE  AllFit(Append(q, k), life)
  <1> DEFINE qq == Append(q, k)
  <1>1. /\ Len(q) \in Nat /\ Len(qq) = Len(q) + 1
        /\ \A i \in 1..Len(q) : qq[i] = q[i]
        /\ qq[Len(q) + 1] = k
    BY Enqueue
  <1> HIDE DEF qq
  <1>2. \A i \in 1..Len(qq) : i \in 1..Len(q) \/ i = Len(q) + 1
    BY <1>1
  <1>3. \A i \in 1..Len(qq) : Fits(qq[i], life)
    BY <1>1, <1>2 DEF AllFit
  <1>4. ASSUME NEW i \in 1..Len(qq), NEW j \in 1..Len(qq), qq[i].op = "subscribe", qq[j] = qq[i]
        PROVE  i = j
    BY <1>1, <1>2, <1>4 DEF AllFit
  <1> QED
    BY <1>3, <1>4 DEF AllFit, qq

(* Serving the head leaves a channel that fits, without another Subscribe  *)
(* of the session that was served.                                         *)
LEMMA FitTail ==
    ASSUME NEW q \in Seq(Command), NEW life, q # <<>>, AllFit(q, life)
    PROVE  /\ Fits(Head(q), life) /\ AllFit(Tail(q), life)
           /\ Head(q).op = "subscribe" => \A i \in 1..Len(Tail(q)) : Tail(q)[i] # Head(q)
  <1> DEFINE t == Tail(q)
  <1>1. /\ q[1] = Head(q) /\ 1 \in 1..Len(q) /\ Len(t) \in Nat
        /\ \A i \in 1..Len(t) : i + 1 \in 1..Len(q) /\ t[i] = q[i + 1]
    BY Dequeue
  <1> HIDE DEF t
  <1>2. Fits(Head(q), life)
    BY <1>1 DEF AllFit
  <1>3. \A i \in 1..Len(t) : Fits(t[i], life)
    BY <1>1 DEF AllFit
  <1>4. ASSUME NEW i \in 1..Len(t), NEW j \in 1..Len(t), t[i].op = "subscribe", t[j] = t[i]
        PROVE  i = j
    <2>1. i + 1 = j + 1
      BY <1>1, <1>4 DEF AllFit
    <2> QED
      BY <1>1, <2>1
  <1>5. ASSUME Head(q).op = "subscribe", NEW i \in 1..Len(t), t[i] = Head(q)
        PROVE  FALSE
    <2>1. i + 1 = 1
      BY <1>1, <1>5 DEF AllFit
    <2> QED
      BY <1>1, <2>1
  <1> QED
    BY <1>2, <1>3, <1>4, <1>5 DEF AllFit, t

(* A session whose life goes on: its own commands must still fit.          *)
LEMMA FitMoves ==
    ASSUME NEW q \in Seq(Command), NEW life \in [Calls -> ControllerStates], NEW s \in Calls, NEW l,
           AllFit(q, life),
           \A i \in 1..Len(q) : q[i].session = s => Fits(q[i], [life EXCEPT ![s] = l])
    PROVE  AllFit(q, [life EXCEPT ![s] = l])
  <1>1. \A i \in 1..Len(q) : q[i] \in Command
    OBVIOUS
  <1>2. \A i \in 1..Len(q) : Fits(q[i], [life EXCEPT ![s] = l])
    BY <1>1 DEF AllFit, Fits, Command
  <1> QED
    BY <1>2 DEF AllFit

(* authoritative finds a session to share, or goes on to create one.       *)
LEMMA ProbeStep ==
    ASSUME RegistryInv, NEW c \in Calls, Probe(c)
    PROVE  RegistryInv'
  <1> USE RegistryAssumption DEF RegistryInv, TypeOK, Holding, Probe, registry,
              controllers, hub
  <1>1. TypeOK'
    <2>1. pc' \in [Calls -> OpenerStates]
      BY DEF OpenerStates
    <2>2. on' \in [Calls -> Calls \cup {None}]
      OBVIOUS
    <2> QED
      BY <2>1, <2>2
  <1>2. HoldersOnSlot'
    BY DEF HoldersOnSlot, Upgrades
  <1>3. Starting'
    BY DEF Starting
  <1>4. Unrouted'
    BY DEF Unrouted
  <1>5. Fresh'
    BY DEF Fresh
  <1>6. RemovalsLeft'
    BY DEF RemovalsLeft
  <1>7. CommandsFit'
    BY DEF CommandsFit
  <1>8. AttachedServed'
    BY DEF AttachedServed
  <1> QED
    BY <1>1, <1>2, <1>3, <1>4, <1>5, <1>6, <1>7, <1>8

(* The re-check sends an opener to a racing winner.                        *)
LEMMA DeferStep ==
    ASSUME RegistryInv, NEW c \in Calls, Defer(c)
    PROVE  RegistryInv'
  <1> USE RegistryAssumption DEF RegistryInv, TypeOK, Holding, Defer, Upgrades,
              registry, controllers, hub
  <1>1. TypeOK'
    <2>1. pc' \in [Calls -> OpenerStates]
      BY DEF OpenerStates
    <2>2. on' \in [Calls -> Calls \cup {None}]
      OBVIOUS
    <2> QED
      BY <2>1, <2>2
  <1>2. HoldersOnSlot'
    BY DEF HoldersOnSlot
  <1>3. Starting'
    BY DEF Starting
  <1>4. Unrouted'
    BY DEF Unrouted
  <1>5. Fresh'
    BY DEF Fresh
  <1>6. RemovalsLeft'
    BY DEF RemovalsLeft
  <1>7. CommandsFit'
    BY DEF CommandsFit
  <1>8. AttachedServed'
    BY DEF AttachedServed
  <1> QED
    BY <1>1, <1>2, <1>3, <1>4, <1>5, <1>6, <1>7, <1>8

(* The opener claims a slot nobody holds a session of.                     *)
LEMMA CreateStep ==
    ASSUME RegistryInv, NEW c \in Calls, Create(c)
    PROVE  RegistryInv'
  <1> USE RegistryAssumption DEF RegistryInv, TypeOK, Holding, Create, hub
  <1>a. \A d \in Calls : pc[d] \notin Holding
    BY DEF Upgrades, Strong, HoldersOnSlot
  <1>b. ctl[c] = "none"
    BY DEF Fresh
  <1>1. TypeOK'
    <2>1. pc' \in [Calls -> OpenerStates] /\ ctl' \in [Calls -> ControllerStates]
      BY DEF OpenerStates, ControllerStates
    <2>2. [op |-> "subscribe", session |-> c] \in Command
      BY DEF Command
    <2>3. commands' \in Seq(Command)
      BY <2>2, Enqueue
    <2> QED
      BY <2>1, <2>3
  <1>2. HoldersOnSlot'
    BY <1>a DEF HoldersOnSlot
  <1>3. Starting'
    BY DEF Starting
  <1>4. Unrouted'
    BY <1>b DEF Unrouted
  <1>5. Fresh'
    BY DEF Fresh
  <1>6. RemovalsLeft'
    BY DEF RemovalsLeft
  <1>7. CommandsFit'
    <2> DEFINE k == [op |-> "subscribe", session |-> c]
    <2>1. ctl' = [ctl EXCEPT ![c] = "starting"] /\ commands' = Append(commands, k)
      OBVIOUS
    <2>2. k \in Command /\ Fits(k, ctl')
      BY <2>1 DEF Fits, Command
    <2>3. \A i \in 1..Len(commands) : commands[i].session # c
      BY <1>b DEF CommandsFit, AllFit, Fits
    <2>4. AllFit(commands, ctl')
      <3>1. \A i \in 1..Len(commands) : commands[i].session = c
                => Fits(commands[i], [ctl EXCEPT ![c] = "starting"])
        BY <2>3
      <3>2. AllFit(commands, [ctl EXCEPT ![c] = "starting"])
        BY <3>1, FitMoves DEF CommandsFit
      <3> QED
        BY <2>1, <3>2
    <2>5. \A i \in 1..Len(commands) : commands[i] # k
      BY <2>3
    <2> HIDE DEF k
    <2>6. AllFit(Append(commands, k), ctl')
      BY <2>2, <2>4, <2>5, FitAppend
    <2> QED
      BY <2>1, <2>6 DEF CommandsFit
  <1>8. AttachedServed'
    BY <1>a DEF AttachedServed
  <1> QED
    BY <1>1, <1>2, <1>3, <1>4, <1>5, <1>6, <1>7, <1>8

(* A join answered by a controller that is gone.                           *)
LEMMA AddFailsStep ==
    ASSUME RegistryInv, NEW c \in Calls, AddFails(c)
    PROVE  RegistryInv'
  <1> USE RegistryAssumption DEF RegistryInv, TypeOK, Holding, AddFails,
              Release, Strong, controllers, hub
  <1>1. TypeOK'
    BY DEF OpenerStates, ControllerStates, HoldersOnSlot
  <1>2. HoldersOnSlot'
    BY DEF HoldersOnSlot
  <1>3. Starting'
    BY DEF Starting
  <1>4. Unrouted'
    BY DEF Unrouted
  <1>5. Fresh'
    BY DEF Fresh
  <1>6. RemovalsLeft'
    BY DEF RemovalsLeft
  <1>7. CommandsFit'
    BY DEF CommandsFit
  <1>8. AttachedServed'
    BY DEF AttachedServed
  <1> QED
    BY <1>1, <1>2, <1>3, <1>4, <1>5, <1>6, <1>7, <1>8

(* An opener that gives up before the hub has answered.                    *)
LEMMA CancelOpenStep ==
    ASSUME RegistryInv, NEW c \in Calls, CancelOpen(c)
    PROVE  RegistryInv'
  <1> USE RegistryAssumption DEF RegistryInv, TypeOK, Holding, CancelOpen,
              Release, Strong, hub
  <1>1. TypeOK'
    BY DEF OpenerStates, ControllerStates, HoldersOnSlot
  <1>2. HoldersOnSlot'
    BY DEF HoldersOnSlot
  <1>3. Starting'
    BY DEF Starting
  <1>4. Unrouted'
    BY DEF Unrouted
  <1>5. Fresh'
    BY DEF Fresh
  <1>6. RemovalsLeft'
    BY DEF RemovalsLeft
  <1>7. CommandsFit'
    <2>1. \A i \in 1..Len(commands) :
            commands[i].session = c => Fits(commands[i], [ctl EXCEPT ![c] = "gone"])
      BY DEF Fits
    <2> QED
      BY <2>1, FitMoves DEF CommandsFit
  <1>8. AttachedServed'
    BY DEF AttachedServed, Starting
  <1> QED
    BY <1>1, <1>2, <1>3, <1>4, <1>5, <1>6, <1>7, <1>8

(* An opener that gives up while its join is on the way.                   *)
LEMMA CancelJoinStep ==
    ASSUME RegistryInv, NEW c \in Calls, CancelJoin(c)
    PROVE  RegistryInv'
  <1> USE RegistryAssumption DEF RegistryInv, TypeOK, Holding, CancelJoin,
              Release, Strong, controllers, hub
  <1>1. TypeOK'
    BY DEF OpenerStates, ControllerStates, HoldersOnSlot
  <1>2. HoldersOnSlot'
    BY DEF HoldersOnSlot
  <1>3. Starting'
    BY DEF Starting
  <1>4. Unrouted'
    BY DEF Unrouted
  <1>5. Fresh'
    BY DEF Fresh
  <1>6. RemovalsLeft'
    BY DEF RemovalsLeft
  <1>7. CommandsFit'
    BY DEF CommandsFit
  <1>8. AttachedServed'
    BY DEF AttachedServed
  <1> QED
    BY <1>1, <1>2, <1>3, <1>4, <1>5, <1>6, <1>7, <1>8

(* A referrer leaves: its guard queues the removal.                        *)
LEMMA DropGuardStep ==
    ASSUME RegistryInv, NEW c \in Calls, DropGuard(c)
    PROVE  RegistryInv'
  <1> USE RegistryAssumption DEF RegistryInv, TypeOK, Holding, DropGuard,
              registry, hub
  <1>1. TypeOK'
    BY DEF OpenerStates, ControllerStates
  <1>2. HoldersOnSlot'
    BY DEF HoldersOnSlot
  <1>3. Starting'
    BY DEF Starting
  <1>4. Unrouted'
    BY DEF Unrouted
  <1>5. Fresh'
    BY DEF Fresh
  <1>6. RemovalsLeft'
    BY DEF RemovalsLeft
  <1>7. CommandsFit'
    BY DEF CommandsFit
  <1>8. AttachedServed'
    BY DEF AttachedServed
  <1> QED
    BY <1>1, <1>2, <1>3, <1>4, <1>5, <1>6, <1>7, <1>8

(* The leaver's Arc goes, perhaps the last one.                            *)
LEMMA DropArcStep ==
    ASSUME RegistryInv, NEW c \in Calls, DropArc(c)
    PROVE  RegistryInv'
  <1> USE RegistryAssumption DEF RegistryInv, TypeOK, Holding, DropArc,
              Release, Strong, controllers, hub
  <1>1. TypeOK'
    BY DEF OpenerStates, ControllerStates, HoldersOnSlot
  <1>2. HoldersOnSlot'
    BY DEF HoldersOnSlot
  <1>3. Starting'
    BY DEF Starting
  <1>4. Unrouted'
    BY DEF Unrouted
  <1>5. Fresh'
    BY DEF Fresh
  <1>6. RemovalsLeft'
    BY DEF RemovalsLeft
  <1>7. CommandsFit'
    BY DEF CommandsFit
  <1>8. AttachedServed'
    BY DEF AttachedServed
  <1> QED
    BY <1>1, <1>2, <1>3, <1>4, <1>5, <1>6, <1>7, <1>8

(* The session's Drop, which may run after a successor took the slot.      *)
LEMMA ClearSlotStep ==
    ASSUME RegistryInv, NEW c \in Calls, ClearSlot(c)
    PROVE  RegistryInv'
  <1> USE RegistryAssumption DEF RegistryInv, TypeOK, Holding, ClearSlot,
              ClearsSlot, Strong, openers, controllers, hub
  <1>1. TypeOK'
    BY DEF OpenerStates, ControllerStates
  <1>2. HoldersOnSlot'
    BY DEF HoldersOnSlot
  <1>3. Starting'
    BY DEF Starting
  <1>4. Unrouted'
    BY DEF Unrouted
  <1>5. Fresh'
    BY DEF Fresh
  <1>6. RemovalsLeft'
    BY DEF RemovalsLeft
  <1>7. CommandsFit'
    BY DEF CommandsFit
  <1>8. AttachedServed'
    BY DEF AttachedServed
  <1> QED
    BY <1>1, <1>2, <1>3, <1>4, <1>5, <1>6, <1>7, <1>8

(* A join that is acknowledged.                                            *)
LEMMA AddSubscriberStep ==
    ASSUME RegistryInv, NEW c \in Calls, AddSubscriber(c)
    PROVE  RegistryInv'
  <1> USE RegistryAssumption DEF RegistryInv, TypeOK, Holding, AddSubscriber,
              Empty, registry, hub
  <1>1. TypeOK'
    BY DEF OpenerStates, ControllerStates
  <1>2. HoldersOnSlot'
    BY DEF HoldersOnSlot
  <1>3. Starting'
    BY DEF Starting
  <1>4. Unrouted'
    BY DEF Unrouted
  <1>5. Fresh'
    BY DEF Fresh
  <1>6. RemovalsLeft'
    BY DEF RemovalsLeft
  <1>7. CommandsFit'
    BY DEF CommandsFit
  <1>8. AttachedServed'
    BY DEF AttachedServed, HoldersOnSlot
  <1> QED
    BY <1>1, <1>2, <1>3, <1>4, <1>5, <1>6, <1>7, <1>8

(* The join of an opener that is gone adds a dead id.                      *)
LEMMA AddAbandonedStep ==
    ASSUME RegistryInv, NEW c \in Calls, AddAbandoned(c)
    PROVE  RegistryInv'
  <1> USE RegistryAssumption DEF RegistryInv, TypeOK, Holding, AddAbandoned,
              Empty, registry, hub
  <1>1. TypeOK'
    BY DEF OpenerStates, ControllerStates
  <1>2. HoldersOnSlot'
    BY DEF HoldersOnSlot
  <1>3. Starting'
    BY DEF Starting
  <1>4. Unrouted'
    BY DEF Unrouted
  <1>5. Fresh'
    BY DEF Fresh
  <1>6. RemovalsLeft'
    BY DEF RemovalsLeft
  <1>7. CommandsFit'
    BY DEF CommandsFit
  <1>8. AttachedServed'
    BY DEF AttachedServed
  <1> QED
    BY <1>1, <1>2, <1>3, <1>4, <1>5, <1>6, <1>7, <1>8

(* A queued removal only ever names a referrer that left.                  *)
LEMMA RemoveSubscriberStep ==
    ASSUME RegistryInv, NEW c \in Calls, RemoveSubscriber(c)
    PROVE  RegistryInv'
  <1> USE RegistryAssumption DEF RegistryInv, TypeOK, Holding,
              RemoveSubscriber, openers, registry, hub
  <1>1. TypeOK'
    BY DEF OpenerStates, ControllerStates
  <1>2. HoldersOnSlot'
    BY DEF HoldersOnSlot
  <1>3. Starting'
    BY DEF Starting
  <1>4. Unrouted'
    BY DEF Unrouted
  <1>5. Fresh'
    BY DEF Fresh
  <1>6. RemovalsLeft'
    BY DEF RemovalsLeft
  <1>7. CommandsFit'
    BY DEF CommandsFit
  <1>8. AttachedServed'
    <2> SUFFICES ASSUME NEW d \in Calls, pc[d] = "attached"
                 PROVE  ctl[on[d]] = "running" /\ d \in fan'[on[d]]
      BY DEF AttachedServed
    <2>1. on[d] \in Calls
      BY DEF HoldersOnSlot
    <2>2. d # c
      BY DEF RemovalsLeft
    <2>3. ctl[on[d]] = "running" /\ d \in fan[on[d]]
      BY DEF AttachedServed
    <2> QED
      BY <2>1, <2>2, <2>3
  <1> QED
    BY <1>1, <1>2, <1>3, <1>4, <1>5, <1>6, <1>7, <1>8

(* Pruning keeps every attached referrer.                                  *)
LEMMA ForwardStep ==
    ASSUME RegistryInv, NEW c \in Calls, Forward(c)
    PROVE  RegistryInv'
  <1> USE RegistryAssumption DEF RegistryInv, TypeOK, Holding, Forward, Empty,
              openers, registry, hub
  <1>1. TypeOK'
    BY DEF OpenerStates, ControllerStates
  <1>2. HoldersOnSlot'
    BY DEF HoldersOnSlot
  <1>3. Starting'
    BY DEF Starting
  <1>4. Unrouted'
    BY DEF Unrouted
  <1>5. Fresh'
    BY DEF Fresh
  <1>6. RemovalsLeft'
    BY DEF RemovalsLeft
  <1>7. CommandsFit'
    BY DEF CommandsFit
  <1>8. AttachedServed'
    BY DEF AttachedServed
  <1> QED
    BY <1>1, <1>2, <1>3, <1>4, <1>5, <1>6, <1>7, <1>8

(* The controller decides to stop: nobody is attached to it.               *)
LEMMA TeardownStep ==
    ASSUME RegistryInv, NEW c \in Calls, Teardown(c)
    PROVE  RegistryInv'
  <1> USE RegistryAssumption DEF RegistryInv, TypeOK, Holding, Teardown,
              ShouldStop, Empty, Strong, openers, registry, hub
  <1>1. TypeOK'
    <2>1. ctl' \in [Calls -> ControllerStates]
      BY DEF ControllerStates
    <2>2. [op |-> "unsubscribe", session |-> c] \in Command
      BY DEF Command
    <2>3. commands' \in Seq(Command)
      BY <2>2, Enqueue
    <2> QED
      BY <2>1, <2>3
  <1>2. HoldersOnSlot'
    BY DEF HoldersOnSlot
  <1>3. Starting'
    BY DEF Starting
  <1>4. Unrouted'
    BY DEF Unrouted
  <1>5. Fresh'
    BY DEF Fresh
  <1>6. RemovalsLeft'
    BY DEF RemovalsLeft
  <1>7. CommandsFit'
    <2> DEFINE k == [op |-> "unsubscribe", session |-> c]
    <2>1. \A i \in 1..Len(commands) : commands[i].session # c
      BY DEF CommandsFit, AllFit, Fits
    <2>2. AllFit(commands, ctl')
      BY <2>1, FitMoves DEF CommandsFit
    <2>3. k \in Command /\ Fits(k, ctl') /\ k.op # "subscribe"
      BY DEF Fits, Command
    <2>4. commands' = Append(commands, k)
      OBVIOUS
    <2> HIDE DEF k
    <2>5. AllFit(Append(commands, k), ctl')
      BY <2>2, <2>3, FitAppend
    <2> QED
      BY <2>4, <2>5 DEF CommandsFit
  <1>8. AttachedServed'
    BY DEF AttachedServed
  <1> QED
    BY <1>1, <1>2, <1>3, <1>4, <1>5, <1>6, <1>7, <1>8

(* The hub subscribes: the opener is attached to its running session.      *)
LEMMA HubSubscribesStep ==
    ASSUME RegistryInv, NEW c \in Calls, HubSubscribes(c)
    PROVE  RegistryInv'
  <1> USE RegistryAssumption DEF RegistryInv, TypeOK, Holding, HubSubscribes,
              registry
  <1>a. /\ commands # <<>> /\ commands' = Tail(commands)
        /\ Head(commands) = [op |-> "subscribe", session |-> c]
    BY DEF Serves
  <1>b. /\ AllFit(Tail(commands), ctl) /\ Fits(Head(commands), ctl)
        /\ \A i \in 1..Len(Tail(commands)) : Tail(commands)[i] # Head(commands)
    <2>1. Head(commands).op = "subscribe"
      BY <1>a
    <2> QED
      BY <1>a, <2>1, FitTail DEF CommandsFit
  <1>c. ctl[c] \in {"starting", "gone"}
    BY <1>a, <1>b DEF Fits
  <1>d. Tail(commands) \in Seq(Command)
    BY <1>a, Dequeue
  <1>e. ctl'[c] \in {"running", "gone"}
    BY <1>c DEF Starting
  <1>1. TypeOK'
    <2>1. pc' \in [Calls -> OpenerStates] /\ ctl' \in [Calls -> ControllerStates]
      BY DEF OpenerStates, ControllerStates
    <2>2. queued' \in [Calls -> 0..ProviderCap]
      BY <1>c DEF Sent, HasReceiver, Unrouted
    <2> QED
      BY <1>a, <1>d, <2>1, <2>2
  <1>2. HoldersOnSlot'
    BY DEF HoldersOnSlot
  <1>3. Starting'
    <2>1. CASE pc[c] = "starting"
      BY <2>1 DEF Starting
    <2>2. CASE pc[c] # "starting"
      BY <2>2 DEF Starting
    <2> QED
      BY <2>1, <2>2
  <1>4. Unrouted'
    BY <1>e DEF Unrouted, Sent, HasReceiver
  <1>5. Fresh'
    BY DEF Fresh
  <1>6. RemovalsLeft'
    BY DEF RemovalsLeft
  <1>7. CommandsFit'
    <2>1. CASE pc[c] = "starting"
      <3>1. ctl[c] = "starting" /\ ctl' = [ctl EXCEPT ![c] = "running"]
        BY <2>1 DEF Starting
      <3>2. ASSUME NEW i \in 1..Len(Tail(commands)), Tail(commands)[i].session = c
            PROVE  FALSE
        <4>1. Tail(commands)[i] \in Command /\ Fits(Tail(commands)[i], ctl)
          BY <1>b, <1>d DEF AllFit
        <4>2. Tail(commands)[i].op = "subscribe"
          BY <3>1, <3>2, <4>1 DEF Fits, Command
        <4>3. Tail(commands)[i] = [op |-> "subscribe", session |-> c]
          BY <3>2, <4>1, <4>2 DEF Command
        <4> QED
          BY <1>a, <1>b, <4>3
      <3>3. AllFit(Tail(commands), [ctl EXCEPT ![c] = "running"])
        BY <1>b, <1>d, <3>2, FitMoves
      <3> QED
        BY <1>a, <3>1, <3>3 DEF CommandsFit
    <2>2. CASE pc[c] # "starting"
      BY <1>a, <1>b, <2>2 DEF CommandsFit
    <2> QED
      BY <2>1, <2>2
  <1>8. AttachedServed'
    BY <1>c DEF AttachedServed, Starting, HoldersOnSlot
  <1> QED
    BY <1>1, <1>2, <1>3, <1>4, <1>5, <1>6, <1>7, <1>8

(* The hub refuses the session, which ends before it began.                *)
LEMMA HubRefusesStep ==
    ASSUME RegistryInv, NEW c \in Calls, HubRefuses(c)
    PROVE  RegistryInv'
  <1> USE RegistryAssumption DEF RegistryInv, TypeOK, Holding, HubRefuses
  <1>a. /\ commands # <<>> /\ commands' = Tail(commands)
        /\ Head(commands) = [op |-> "subscribe", session |-> c]
    BY DEF Serves
  <1>b. /\ AllFit(Tail(commands), ctl) /\ Fits(Head(commands), ctl)
    BY <1>a, FitTail DEF CommandsFit
  <1>c. ctl[c] \in {"starting", "gone"}
    BY <1>a, <1>b DEF Fits
  <1>d. Tail(commands) \in Seq(Command)
    BY <1>a, Dequeue
  <1>1. TypeOK'
    <2>1. pc' \in [Calls -> OpenerStates] /\ ctl' \in [Calls -> ControllerStates]
      BY DEF OpenerStates, ControllerStates
    <2>2. dying' \subseteq Calls
      BY DEF Release, Starting
    <2> QED
      BY <1>a, <1>d, <2>1, <2>2
  <1>2. HoldersOnSlot'
    BY DEF HoldersOnSlot
  <1>3. Starting'
    <2>1. CASE pc[c] = "starting"
      <3>1. /\ pc' = [pc EXCEPT ![c] = "failed"] /\ ctl' = [ctl EXCEPT ![c] = "gone"]
            /\ UNCHANGED <<on, fan>>
        BY <2>1
      <3>2. /\ pc'[c] = "failed" /\ ctl'[c] = "gone"
            /\ \A d \in Calls \ {c} : pc'[d] = pc[d] /\ ctl'[d] = ctl[d]
        BY <3>1
      <3> QED
        BY <3>1, <3>2 DEF Starting
    <2>2. CASE pc[c] # "starting"
      BY <2>2 DEF Starting
    <2> QED
      BY <2>1, <2>2
  <1>4. Unrouted'
    BY DEF Unrouted
  <1>5. Fresh'
    BY DEF Fresh
  <1>6. RemovalsLeft'
    BY DEF RemovalsLeft
  <1>7. CommandsFit'
    <2>1. CASE pc[c] = "starting"
      <3>1. ctl' = [ctl EXCEPT ![c] = "gone"]
        BY <2>1
      <3>2. \A i \in 1..Len(Tail(commands)) : Tail(commands)[i].session = c
                => Fits(Tail(commands)[i], [ctl EXCEPT ![c] = "gone"])
        BY DEF Fits
      <3>3. AllFit(Tail(commands), [ctl EXCEPT ![c] = "gone"])
        BY <1>b, <1>d, <3>2, FitMoves
      <3> QED
        BY <1>a, <3>1, <3>3 DEF CommandsFit
    <2>2. CASE pc[c] # "starting"
      BY <1>a, <1>b, <2>2 DEF CommandsFit
    <2> QED
      BY <2>1, <2>2
  <1>8. AttachedServed'
    BY <1>c DEF AttachedServed, Starting, HoldersOnSlot
  <1> QED
    BY <1>1, <1>2, <1>3, <1>4, <1>5, <1>6, <1>7, <1>8

(* The hub unsubscribes a session that was already being torn down.        *)
LEMMA HubUnsubscribesStep ==
    ASSUME RegistryInv, NEW c \in Calls, HubUnsubscribes(c)
    PROVE  RegistryInv'
  <1> USE RegistryAssumption DEF RegistryInv, TypeOK, Holding, HubUnsubscribes,
              openers, registry
  <1>a. /\ commands # <<>> /\ commands' = Tail(commands)
        /\ Head(commands) = [op |-> "unsubscribe", session |-> c]
    BY DEF Serves
  <1>b. /\ AllFit(Tail(commands), ctl) /\ Fits(Head(commands), ctl)
    BY <1>a, FitTail DEF CommandsFit
  <1>c. ctl[c] \in {"unsubscribing", "closing", "gone"}
    BY <1>a, <1>b DEF Fits
  <1>d. Tail(commands) \in Seq(Command)
    BY <1>a, Dequeue
  <1>1. TypeOK'
    <2>1. ctl' \in [Calls -> ControllerStates]
      BY DEF ControllerStates
    <2>2. queued' \in [Calls -> 0..ProviderCap]
      BY DEF Sent, CanSend, HasReceiver
    <2> QED
      BY <1>a, <1>d, <2>1, <2>2
  <1>2. HoldersOnSlot'
    BY DEF HoldersOnSlot
  <1>3. Starting'
    BY <1>c DEF Starting
  <1>4. Unrouted'
    BY <1>c DEF Unrouted, Sent
  <1>5. Fresh'
    BY <1>c DEF Fresh
  <1>6. RemovalsLeft'
    BY DEF RemovalsLeft
  <1>7. CommandsFit'
    <2>1. \A i \in 1..Len(Tail(commands)) : Tail(commands)[i].session = c
              => Fits(Tail(commands)[i], [ctl EXCEPT ![c] = "gone"])
      BY DEF Fits
    <2>2. AllFit(Tail(commands), [ctl EXCEPT ![c] = "gone"])
      BY <1>b, <1>d, <2>1, FitMoves
    <2> QED
      BY <1>a, <2>2 DEF CommandsFit
  <1>8. AttachedServed'
    BY <1>c DEF AttachedServed, HoldersOnSlot
  <1> QED
    BY <1>1, <1>2, <1>3, <1>4, <1>5, <1>6, <1>7, <1>8

(* A failed Unsubscribe is sent once more.                                 *)
LEMMA HubKeepsStep ==
    ASSUME RegistryInv, NEW c \in Calls, HubKeeps(c)
    PROVE  RegistryInv'
  <1> USE RegistryAssumption DEF RegistryInv, TypeOK, Holding, openers, registry
  <1>a. /\ commands # <<>>
        /\ Head(commands) = [op |-> "unsubscribe", session |-> c]
    BY DEF HubKeeps
  <1>b. AllFit(Tail(commands), ctl) /\ Tail(commands) \in Seq(Command)
    BY <1>a, Dequeue, FitTail DEF CommandsFit
  <1>c. \/ /\ ctl[c] = "unsubscribing" /\ ctl' = [ctl EXCEPT ![c] = "closing"]
           /\ commands' = Append(Tail(commands), Head(commands))
        \/ /\ ctl[c] = "closing" /\ ctl' = [ctl EXCEPT ![c] = "gone"]
           /\ commands' = Tail(commands)
    BY DEF HubKeeps
  <1>d. /\ UNCHANGED <<pc, on, slot, dying, fan, removals, queued, conn, route, sending, events>>
        /\ subscribed' \in BOOLEAN
    BY DEF HubKeeps
  <1>1. TypeOK'
    <2>1. ctl' \in [Calls -> ControllerStates]
      BY <1>c DEF ControllerStates
    <2>2. Head(commands) \in Command
      BY <1>a DEF Command
    <2>3. Append(Tail(commands), Head(commands)) \in Seq(Command)
      BY <1>b, <2>2, Enqueue
    <2> QED
      BY <1>b, <1>c, <1>d, <2>1, <2>3
  <1>2. HoldersOnSlot'
    BY <1>d DEF HoldersOnSlot
  <1>3. Starting'
    BY <1>c, <1>d DEF Starting
  <1>4. Unrouted'
    BY <1>c, <1>d DEF Unrouted
  <1>5. Fresh'
    BY <1>c, <1>d DEF Fresh
  <1>6. RemovalsLeft'
    BY <1>d DEF RemovalsLeft
  <1>7. CommandsFit'
    <2>1. CASE ctl[c] = "unsubscribing"
      <3>1. \A i \in 1..Len(Tail(commands)) : Tail(commands)[i].session = c
                => Fits(Tail(commands)[i], [ctl EXCEPT ![c] = "closing"])
        <4>1. \A i \in 1..Len(Tail(commands)) : Tail(commands)[i].session = c
                  => Tail(commands)[i].op # "subscribe"
          BY <1>b, <2>1 DEF AllFit, Fits
        <4>2. [ctl EXCEPT ![c] = "closing"][c] = "closing"
          OBVIOUS
        <4> QED
          BY <4>1, <4>2 DEF Fits
      <3>2. AllFit(Tail(commands), [ctl EXCEPT ![c] = "closing"])
        BY <1>b, <3>1, FitMoves
      <3>3. /\ Head(commands) \in Command /\ Head(commands).op # "subscribe"
            /\ Fits(Head(commands), [ctl EXCEPT ![c] = "closing"])
        BY <1>a DEF Fits, Command
      <3>4. AllFit(Append(Tail(commands), Head(commands)), [ctl EXCEPT ![c] = "closing"])
        BY <1>b, <3>2, <3>3, FitAppend
      <3> QED
        BY <1>c, <2>1, <3>4 DEF CommandsFit
    <2>2. CASE ctl[c] = "closing"
      <3>1. \A i \in 1..Len(Tail(commands)) : Tail(commands)[i].session = c
                => Fits(Tail(commands)[i], [ctl EXCEPT ![c] = "gone"])
        BY DEF Fits
      <3>2. AllFit(Tail(commands), [ctl EXCEPT ![c] = "gone"])
        BY <1>b, <3>1, FitMoves
      <3> QED
        BY <1>c, <2>2, <3>2 DEF CommandsFit
    <2> QED
      BY <1>c, <2>1, <2>2
  <1>8. AttachedServed'
    BY <1>c, <1>d DEF AttachedServed, HoldersOnSlot
  <1> QED
    BY <1>1, <1>2, <1>3, <1>4, <1>5, <1>6, <1>7, <1>8

(* A message is picked up for the route.                                   *)
LEMMA HubMessageStep ==
    ASSUME RegistryInv, HubMessage
    PROVE  RegistryInv'
  <1> USE RegistryAssumption DEF RegistryInv, TypeOK, Holding, HubMessage,
              openers, registry, controllers
  <1>1. TypeOK'
    BY DEF OpenerStates, ControllerStates
  <1>2. HoldersOnSlot'
    BY DEF HoldersOnSlot
  <1>3. Starting'
    BY DEF Starting
  <1>4. Unrouted'
    BY DEF Unrouted
  <1>5. Fresh'
    BY DEF Fresh
  <1>6. RemovalsLeft'
    BY DEF RemovalsLeft
  <1>7. CommandsFit'
    BY DEF CommandsFit
  <1>8. AttachedServed'
    BY DEF AttachedServed
  <1> QED
    BY <1>1, <1>2, <1>3, <1>4, <1>5, <1>6, <1>7, <1>8

(* A message enters a provider channel with room.                          *)
LEMMA HubSendsStep ==
    ASSUME RegistryInv, HubSends
    PROVE  RegistryInv'
  <1> USE RegistryAssumption DEF RegistryInv, TypeOK, Holding, HubSends, Sent,
              HasReceiver, CanSend, openers, registry, controllers
  <1>1. TypeOK'
    BY DEF OpenerStates, ControllerStates
  <1>2. HoldersOnSlot'
    BY DEF HoldersOnSlot
  <1>3. Starting'
    BY DEF Starting
  <1>4. Unrouted'
    BY DEF Unrouted
  <1>5. Fresh'
    BY DEF Fresh
  <1>6. RemovalsLeft'
    BY DEF RemovalsLeft
  <1>7. CommandsFit'
    BY DEF CommandsFit
  <1>8. AttachedServed'
    BY DEF AttachedServed
  <1> QED
    BY <1>1, <1>2, <1>3, <1>4, <1>5, <1>6, <1>7, <1>8

(* The socket fails or returns; the route is told.                         *)
LEMMA HubConnectionStep ==
    ASSUME RegistryInv, HubConnection
    PROVE  RegistryInv'
  <1> USE RegistryAssumption DEF RegistryInv, TypeOK, Holding, HubConnection,
              Sent, HasReceiver, CanSend, openers, registry, controllers
  <1>1. TypeOK'
    BY DEF OpenerStates, ControllerStates
  <1>2. HoldersOnSlot'
    BY DEF HoldersOnSlot
  <1>3. Starting'
    BY DEF Starting
  <1>4. Unrouted'
    BY DEF Unrouted
  <1>5. Fresh'
    BY DEF Fresh
  <1>6. RemovalsLeft'
    BY DEF RemovalsLeft
  <1>7. CommandsFit'
    BY DEF CommandsFit
  <1>8. AttachedServed'
    BY DEF AttachedServed
  <1> QED
    BY <1>1, <1>2, <1>3, <1>4, <1>5, <1>6, <1>7, <1>8

(* Before the first open nothing is held, routed or queued.                *)
LEMMA InitRegistry == Init => RegistryInv
  <1> SUFFICES ASSUME Init PROVE RegistryInv
    OBVIOUS
  <1> USE RegistryAssumption DEF Init
  <1>1. TypeOK
    <2>1. commands \in Seq(Command)
      OBVIOUS
    <2>2. queued \in [Calls -> 0..ProviderCap] /\ events \in 0..MaxEvents
      OBVIOUS
    <2> QED
      BY <2>1, <2>2 DEF TypeOK, OpenerStates, ControllerStates
  <1>2. HoldersOnSlot /\ Starting /\ Unrouted /\ Fresh /\ AttachedServed
    BY DEF HoldersOnSlot, Holding, Starting, Unrouted, Fresh, AttachedServed
  <1>3. RemovalsLeft /\ CommandsFit
    BY DEF RemovalsLeft, CommandsFit, AllFit
  <1> QED
    BY <1>1, <1>2, <1>3 DEF RegistryInv

(* Nothing happens to the invariant while nothing happens.                 *)
LEMMA StutterStep ==
    ASSUME RegistryInv, UNCHANGED vars
    PROVE  RegistryInv'
  <1> USE DEF vars, openers, registry, controllers, hub
  <1>1. TypeOK' /\ HoldersOnSlot' /\ Starting' /\ Unrouted'
    BY DEF RegistryInv, TypeOK, HoldersOnSlot, Starting, Unrouted
  <1>2. Fresh' /\ RemovalsLeft' /\ CommandsFit' /\ AttachedServed'
    BY DEF RegistryInv, Fresh, RemovalsLeft, CommandsFit, AttachedServed
  <1> QED
    BY <1>1, <1>2 DEF RegistryInv

(* The registry, its controllers and the hub keep the registry invariant.  *)
THEOREM RegistryCorrect == Spec => []RegistryInv
  <1>1. Init => RegistryInv
    BY InitRegistry
  <1>2. RegistryInv /\ [Next]_vars => RegistryInv'
    <2> SUFFICES ASSUME RegistryInv, [Next]_vars PROVE RegistryInv'
      OBVIOUS
    <2>1. ASSUME NEW c \in Calls, Opener(c) \/ Leaving(c) \/ ClearSlot(c)
          PROVE  RegistryInv'
      BY <2>1, ProbeStep, DeferStep, CreateStep, AddFailsStep, CancelOpenStep,
         CancelJoinStep, DropGuardStep, DropArcStep, ClearSlotStep
         DEF Opener, Claim, Leaving
    <2>2. ASSUME NEW c \in Calls, AddSubscriber(c) \/ AddAbandoned(c) \/ RemoveSubscriber(c)
          PROVE  RegistryInv'
      BY <2>2, AddSubscriberStep, AddAbandonedStep, RemoveSubscriberStep
    <2>3. ASSUME NEW s \in Calls, Controller(s) \/ HubCommand(s)
          PROVE  RegistryInv'
      BY <2>3, ForwardStep, TeardownStep, HubSubscribesStep, HubRefusesStep,
         HubUnsubscribesStep, HubKeepsStep DEF Controller, HubCommand
    <2>4. CASE HubMessage \/ HubSends \/ HubConnection
      BY <2>4, HubMessageStep, HubSendsStep, HubConnectionStep
    <2>5. CASE UNCHANGED vars
      BY <2>5, StutterStep
    <2> QED
      BY <2>1, <2>2, <2>3, <2>4, <2>5 DEF Next
  <1> QED
    BY <1>1, <1>2, PTL DEF Spec

(* An attached referrer has a running controller that fans out to it,      *)
(* however its join raced with leavers, the hub and the teardown.          *)
THEOREM AttachedServedCorrect == Spec => []AttachedServed
  <1>1. RegistryInv => AttachedServed
    BY DEF RegistryInv
  <1> QED
    BY <1>1, RegistryCorrect, PTL

(* Whoever references a session references the one the slot leads to, so   *)
(* attached referrers share one source of `seq`.                           *)
THEOREM OneSourceCorrect == Spec => [](SlotFinds /\ OneSource)
  <1>1. RegistryInv => SlotFinds
    BY DEF RegistryInv, HoldersOnSlot, SlotFinds, Strong
  <1>2. RegistryInv => OneSource
    BY DEF RegistryInv, HoldersOnSlot, Holding, OneSource
  <1> QED
    BY <1>1, <1>2, RegistryCorrect, PTL

=============================================================================
